------------------------- MODULE ConfigurationsProofs -------------------------
(***************************************************************************)
(* Theorems about Configurations, for any contracts and bounds.            *)
(***************************************************************************)
EXTENDS Configurations, TLAPS, SequenceTheorems

\* Codes are registered as Clashes demands.
RInv == TypeOK /\ RegistryCovers

\* What was told, read or kept of an end timestamp is current or superseded.
EndsAreCurrent ==
  /\ \A n \in ToSet(cfgQ) : n.end = end[n.cfg]
  /\ \A t \in Tids : task[t].pc = "add" => task[t].end = end[world.target[task[t].conn]]
  /\ phase = "discovering" => snap.end = end
  /\ gc.pc = "collect" => gc.time <= now

\* The end of a configuration that was never set is 0 wherever it is kept.
UnsetIsZero ==
  \A k \in Configs : ends[k] = 0 =>
    /\ end[k] = 0 /\ known[k] = 0
    /\ phase = "discovering" => snap.end[k] = 0
    /\ \A t \in Tids : task[t].pc = "add" /\ world.target[task[t].conn] = k => task[t].end = 0
    /\ \A n \in ToSet(cfgQ) : n.cfg # k

\* The startup visits the connectors as they are, and those it will not find are
\* announced to it.
SnapshotHolds ==
  phase = "discovering" =>
    \A c \in toVisit :
      /\ conn[c] # "none" /\ snap.conn[c] = conn[c]
      /\ conn[c] = "announced" => c \in connectors \cup ToSet(bridgeQ)
      /\ conn[c] = "enabled" => world.target[c] \in snap.exists

\* A connector is known to the relay, announced to it or about to be visited.
AllHeardOf ==
  /\ \A c \in ToSet(bridgeQ) : conn[c] # "none"
  /\ phase \notin {"observing", "locked"} =>
       \A c \in Connectors \ connectors :
         conn[c] = "none" \/ c \in ToSet(bridgeQ) \/ c \in toVisit

\* A check of c is under way or to come.
Checked(c) == c \in ToSet(connQ) \/ \E t \in Tids : task[t].pc # "idle" /\ task[t].conn = c

\* A known connector that is enabled was added or will be.
KnownAreChecked ==
  \A c \in connectors :
    /\ conn[c] # "none"
    /\ conn[c] = "announced" => task[c].pc = "connector" /\ task[c].conn = c
    /\ LET k == world.target[c]
       IN  conn[c] = "enabled" /\ ends[k] = 0 /\ k \in world.served /\ ~Clashes(k)
             => k \in active \/ Checked(c)

IInv ==
  /\ TypeOK
  /\ EndsAreCurrent /\ KnownIsCurrent
  /\ UnsetIsZero /\ SnapshotHolds /\ AllHeardOf /\ KnownAreChecked

-----------------------------------------------------------------------------
(* Channels and additions                                                    *)

Notice == [cfg : Configs, end : Nat]

LEMMA AppendSet ==
  ASSUME NEW S, NEW q \in Seq(S), NEW e \in S
  PROVE  Append(q, e) \in Seq(S) /\ ToSet(Append(q, e)) = ToSet(q) \cup {e}
<1>1. /\ Append(q, e) \in Seq(S) /\ Len(Append(q, e)) = Len(q) + 1 /\ Len(q) \in Nat
      /\ Append(q, e)[Len(q) + 1] = e
      /\ \A i \in 1 .. Len(q) : Append(q, e)[i] = q[i]
  OBVIOUS
<1>2. DOMAIN q = 1 .. Len(q) /\ DOMAIN Append(q, e) = 1 .. Len(q) + 1
  BY <1>1
<1>3. 1 .. Len(q) + 1 = (1 .. Len(q)) \cup {Len(q) + 1}
  BY <1>1
<1> QED
  BY <1>1, <1>2, <1>3 DEF ToSet

LEMMA TailSet ==
  ASSUME NEW S, NEW q \in Seq(S), q # <<>>
  PROVE  /\ Head(q) \in S /\ Tail(q) \in Seq(S)
         /\ ToSet(q) = {Head(q)} \cup ToSet(Tail(q))
<1>1. /\ Head(q) \in S /\ Tail(q) \in Seq(S) /\ Head(q) = q[1]
      /\ Len(q) \in Nat /\ Len(q) > 0 /\ Len(Tail(q)) = Len(q) - 1
      /\ \A i \in 1 .. Len(q) - 1 : Tail(q)[i] = q[i + 1]
  OBVIOUS
<1>2. DOMAIN q = 1 .. Len(q) /\ DOMAIN Tail(q) = 1 .. Len(q) - 1
  BY <1>1
<1>3. \A i \in 1 .. Len(q) : i = 1 \/ (i - 1 \in 1 .. Len(q) - 1 /\ q[i] = Tail(q)[i - 1])
  <2> SUFFICES ASSUME NEW i \in 1 .. Len(q), i # 1
               PROVE  i - 1 \in 1 .. Len(q) - 1 /\ q[i] = Tail(q)[i - 1]
    OBVIOUS
  <2>1. i - 1 \in 1 .. Len(q) - 1 /\ (i - 1) + 1 = i
    BY <1>1
  <2> QED
    BY <1>1, <2>1
<1>4. \A i \in 1 .. Len(q) - 1 : i + 1 \in 1 .. Len(q)
  BY <1>1
<1>5. 1 \in 1 .. Len(q)
  BY <1>1
<1>6. ASSUME NEW x \in ToSet(q) PROVE x = q[1] \/ x \in ToSet(Tail(q))
  <2>1. PICK i \in 1 .. Len(q) : q[i] = x
    BY <1>2 DEF ToSet
  <2> QED
    BY <2>1, <1>2, <1>3 DEF ToSet
<1>7. ASSUME NEW x \in ToSet(Tail(q)) PROVE x \in ToSet(q)
  <2>1. PICK i \in 1 .. Len(q) - 1 : Tail(q)[i] = x
    BY <1>2 DEF ToSet
  <2> QED
    BY <2>1, <1>1, <1>2, <1>4 DEF ToSet
<1>8. q[1] \in ToSet(q)
  BY <1>2, <1>5 DEF ToSet
<1> QED
  BY <1>1, <1>6, <1>7, <1>8

LEMMA SeqSet == ASSUME NEW S, NEW q \in Seq(S) PROVE ToSet(q) \subseteq S
BY DEF ToSet

\* What adding a configuration does to the state.
LEMMA AddProperty ==
  ASSUME TypeOK, NEW k \in Configs, NEW e \in Nat, AddConfiguration(k, e)
  PROVE  /\ active \subseteq active' /\ active' \subseteq active \cup {k}
         /\ known' \in [Configs -> Nat]
         /\ \A j \in Configs : j # k \/ j \in active => known'[j] = known[j]
         /\ k \in active' \ active => known'[k] = e
         /\ known'[k] \in {known[k], e}
         /\ codes \subseteq codes' /\ codes' \subseteq [code : Codes, type : Types]
         /\ k \in world.served /\ ~Expired(k, e, now) /\ ~Clashes(k) => k \in active'
         /\ RegistryCovers /\ world' = world => RegistryCovers'
<1> DEFINE registers == k \in world.served /\ ~Expired(k, e, now) /\ ~Clashes(k)
           this == [code |-> world.code[k], type |-> Type[k]]
<1>1. this \in [code : Codes, type : Types]
  BY ConfigurationsAssumption DEF TypeOK
<1>2. /\ codes' = IF registers THEN codes \cup {this} ELSE codes
      /\ active' = IF registers /\ k \notin active THEN active \cup {k} ELSE active
      /\ known' = IF registers /\ k \notin active THEN [known EXCEPT ![k] = e] ELSE known
  BY DEF AddConfiguration
<1>3. active \subseteq Configs /\ known \in [Configs -> Nat]
      /\ codes \subseteq [code : Codes, type : Types]
  BY DEF TypeOK
<1>4. ASSUME RegistryCovers, world' = world PROVE RegistryCovers'
  <2>1. \A j \in active' : [code |-> world.code[j], type |-> Type[j]] \in codes'
    BY <1>2, <1>4 DEF RegistryCovers
  <2>2. \A a, b \in codes' : a.code = b.code => a = b
    <3>1. CASE registers
      <4>1. codes' = codes \cup {this}
        BY <3>1, <1>2
      <4>2. \A a \in codes : a.code = this.code => a.type = this.type
        BY <3>1 DEF Clashes
      <4>3. \A a \in codes : a.code = this.code => a = this
        BY <4>2, <1>3
      <4> QED
        BY <4>1, <4>3, <1>4 DEF RegistryCovers
    <3>2. CASE ~registers
      BY <3>2, <1>2, <1>4 DEF RegistryCovers
    <3> QED
      BY <3>1, <3>2
  <2> QED
    BY <2>1, <2>2, <1>4 DEF RegistryCovers
<1> HIDE DEF registers, this
<1>5. k \in world.served /\ ~Expired(k, e, now) /\ ~Clashes(k) => registers
  BY DEF registers
<1> QED
  BY <1>1, <1>2, <1>3, <1>4, <1>5

-----------------------------------------------------------------------------
(* Types                                                                     *)

LEMMA TypeInit == Init => TypeOK
<1> SUFFICES ASSUME Init PROVE TypeOK
  OBVIOUS
<1>1. Idle \in Task
  BY DEF Idle, Task
<1>2. Nothing \in Snapshot
  BY DEF Nothing, Snapshot, ConnStates
<1>3. \A t \in Tids : task[t].pc = "idle"
  BY DEF Init, Idle
<1>4. Connectors \subseteq Tids
  BY DEF Tids
<1> QED
  BY <1>1, <1>2, <1>3, <1>4 DEF Init, TypeOK, Gc, Phases, ConnStates

LEMMA TypeStep == TypeOK /\ [Next]_vars => TypeOK'
<1> SUFFICES ASSUME TypeOK, [Next]_vars PROVE TypeOK'
  OBVIOUS
<1>0. Connectors \subseteq Tids /\ Listener \notin Connectors
  BY ConfigurationsAssumption DEF Tids
<1>a. /\ \A u \in Tids : task[u].pc # "idle" => task[u].conn \in Connectors
      /\ \A c \in Connectors : task[c].pc # "idle" => task[c].conn = c
  BY DEF TypeOK
<1> USE DEF contractVars, stateVars, queueVars, startVars
<1>1. ASSUME NEW c \in Connectors, Announce(c) PROVE TypeOK'
  BY <1>1, AppendSet DEF Announce, TypeOK, ConnStates
<1>2. ASSUME NEW c \in Connectors, Create(c) PROVE TypeOK'
  BY <1>2 DEF Create, TypeOK, ConnStates
<1>3. ASSUME NEW c \in Connectors, Enable(c) PROVE TypeOK'
  BY <1>3, AppendSet DEF Enable, TypeOK, ConnStates
<1>4. ASSUME NEW c \in Connectors, Disable(c) PROVE TypeOK'
  BY <1>4 DEF Disable, TypeOK, ConnStates
<1>5. ASSUME NEW k \in Configs, DeployConfig(k) PROVE TypeOK'
  BY <1>5 DEF DeployConfig, TypeOK
<1>6. ASSUME NEW k \in Configs, NEW e \in 0 .. MaxTime, SetEnd(k, e) PROVE TypeOK'
  <2>1. e \in Nat
    BY ConfigurationsAssumption
  <2>2. cfgQ' \in Seq(Notice)
    BY <1>6, <2>1, AppendSet DEF SetEnd, TypeOK, Notice
  <2> QED
    BY <1>6, <2>1, <2>2 DEF SetEnd, TypeOK, Notice
<1>7. ASSUME NEW time \in {now, now + 1}, McBlock(time) PROVE TypeOK'
  <2>1. time \in Nat
    BY DEF TypeOK
  <2>2. [conn |-> conn, exists |-> exists, end |-> end] \in Snapshot
    BY DEF TypeOK, Snapshot
  <2>3. gc' \in Gc
    BY <1>7, <2>1 DEF McBlock, TypeOK, Gc
  <2>4. snap' \in Snapshot /\ phase' \in Phases /\ toVisit' \subseteq Connectors
        /\ (toVisit' # {} => phase' = "discovering")
    BY <1>7, <2>2 DEF McBlock, TypeOK, Phases
  <2> QED
    BY <1>7, <2>1, <2>3, <2>4 DEF McBlock, TypeOK
<1>8. CASE Lock
  BY <1>8 DEF Lock, TypeOK, Phases
<1>9. ASSUME NEW c \in Connectors, Discover(c) PROVE TypeOK'
  <2> DEFINE k == world.target[c]
  <2>1. k \in Configs /\ snap.end[k] \in Nat
    BY ConfigurationsAssumption DEF TypeOK, Snapshot
  <2>2. /\ active' \subseteq Configs /\ known' \in [Configs -> Nat]
        /\ codes' \subseteq [code : Codes, type : Types]
    <3>1. CASE snap.conn[c] = "enabled" /\ k \in snap.exists
      BY <1>9, <2>1, <3>1, AddProperty DEF Discover, TypeOK
    <3>2. CASE ~(snap.conn[c] = "enabled" /\ k \in snap.exists)
      BY <1>9, <3>2 DEF Discover, TypeOK
    <3> QED
      BY <3>1, <3>2
  <2> QED
    BY <1>9, <2>2 DEF Discover, TypeOK
<1>10. CASE Unlock
  <2>1. Nothing \in Snapshot
    BY DEF Nothing, Snapshot, ConnStates
  <2> QED
    BY <1>10, <2>1 DEF Unlock, AllVisited, TypeOK, Phases
<1>11. CASE StartScan
  BY <1>11 DEF StartScan, TypeOK, Phases
<1>12. CASE EndScan
  BY <1>12 DEF EndScan, TypeOK, Phases
<1>13. CASE HandleDeployed
  <2>1. Head(bridgeQ) \in Connectors /\ Tail(bridgeQ) \in Seq(Connectors)
    BY <1>13, TailSet DEF HandleDeployed, TypeOK
  <2>2. \A c \in Connectors : CheckOfNew(c) \in Task /\ CheckOfNew(c).conn = c
    BY DEF CheckOfNew, Idle, Task
  <2>3. PICK c \in Connectors : task' = task \/ task' = [task EXCEPT ![c] = CheckOfNew(c)]
    BY <1>13, <2>1 DEF HandleDeployed
  <2>4. /\ task' \in [Tids -> Task]
        /\ \A u \in Tids : task'[u].pc # "idle" => task'[u].conn \in Connectors
        /\ \A d \in Connectors : task'[d].pc # "idle" => task'[d].conn = d
    <3>1. CASE task' = task
      BY <3>1 DEF TypeOK
    <3>2. CASE task' = [task EXCEPT ![c] = CheckOfNew(c)]
      <4>1. task'[c] = CheckOfNew(c) /\ \A u \in Tids : u # c => task'[u] = task[u]
        BY <1>0, <3>2 DEF TypeOK
      <4>2. task' \in [Tids -> Task]
        BY <1>0, <2>2, <3>2 DEF TypeOK
      <4>3. \A u \in Tids : task[u].pc # "idle" => task[u].conn \in Connectors
        BY DEF TypeOK
      <4>4. \A d \in Connectors : d \in Tids /\ (task[d].pc # "idle" => task[d].conn = d)
        BY <1>0 DEF TypeOK
      <4> QED
        BY <2>2, <4>1, <4>2, <4>3, <4>4
    <3> QED
      BY <2>3, <3>1, <3>2
  <2> QED
    BY <1>13, <2>1, <2>4 DEF HandleDeployed, TypeOK
<1>14. CASE HandleEnable
  <2>1. Head(connQ) \in Connectors /\ Tail(connQ) \in Seq(Connectors)
    BY <1>14, TailSet DEF HandleEnable, TypeOK
  <2>2. \A c \in Connectors : CheckOfEnabled(c) \in Task /\ CheckOfEnabled(c).conn = c
    BY DEF CheckOfEnabled, Idle, Task
  <2> QED
    BY <1>0, <1>14, <2>1, <2>2 DEF HandleEnable, TypeOK
<1>15. CASE HandleSetEnd
  <2>1. Head(cfgQ) \in Notice /\ Tail(cfgQ) \in Seq(Notice)
    BY <1>15, TailSet DEF HandleSetEnd, TypeOK, Notice
  <2>2. known' \in [Configs -> Nat]
    BY <1>15, <2>1 DEF HandleSetEnd, TypeOK, Notice, NewEnd
  <2> QED
    BY <1>15, <2>1, <2>2 DEF HandleSetEnd, TypeOK, Notice
<1>16. ASSUME NEW t \in Tids, CheckConnector(t) PROVE TypeOK'
  <2>1. task[t] \in Task /\ task[t].conn \in Connectors /\ Idle \in Task /\ Idle.pc = "idle"
    BY <1>16 DEF CheckConnector, TypeOK, Idle, Task
  <2>2. task' = [task EXCEPT ![t].pc = "config"] \/ task' = [task EXCEPT ![t] = Idle]
    BY <1>16 DEF CheckConnector
  <2>3. /\ task' \in [Tids -> Task]
        /\ \A u \in Tids : task'[u].pc # "idle" => task'[u].conn \in Connectors
        /\ \A c \in Connectors : task'[c].pc # "idle" => task'[c].conn = c
    <3>1. CASE task' = [task EXCEPT ![t].pc = "config"]
      <4>1. task[t].pc = "connector"
        BY <1>16 DEF CheckConnector
      <4>2. /\ task' \in [Tids -> Task]
            /\ \A u \in Tids : /\ task'[u].conn = task[u].conn
                               /\ task'[u].pc # "idle" => task[u].pc # "idle"
        BY <2>1, <3>1, <4>1 DEF TypeOK, Task
      <4> QED
        BY <1>0, <1>a, <4>2
    <3>2. CASE task' = [task EXCEPT ![t] = Idle]
      BY <1>0, <2>1, <3>2 DEF TypeOK
    <3> QED
      BY <2>2, <3>1, <3>2
  <2> QED
    BY <1>16, <2>3 DEF CheckConnector, TypeOK
<1>17. ASSUME NEW t \in Tids, CheckConfig(t) PROVE TypeOK'
  <2>1. task[t] \in Task /\ task[t].conn \in Connectors
    BY <1>17 DEF CheckConfig, TypeOK
  <2>2. end[world.target[task[t].conn]] \in Nat
    BY <2>1, ConfigurationsAssumption DEF TypeOK
  <2>3. task' = [task EXCEPT ![t].pc = "add", ![t].end = end[world.target[task[t].conn]]]
    BY <1>17 DEF CheckConfig
  <2>4. /\ task' \in [Tids -> Task]
        /\ \A u \in Tids : task'[u].pc # "idle" => task'[u].conn \in Connectors
        /\ \A c \in Connectors : task'[c].pc # "idle" => task'[c].conn = c
    <3>1. task[t].pc = "config"
      BY <1>17 DEF CheckConfig
    <3>2. /\ task' \in [Tids -> Task]
          /\ \A u \in Tids : /\ task'[u].conn = task[u].conn
                             /\ task'[u].pc # "idle" => task[u].pc # "idle"
      BY <2>1, <2>2, <2>3, <3>1 DEF TypeOK, Task
    <3> QED
      BY <1>0, <1>a, <3>2
  <2> QED
    BY <1>17, <2>4 DEF CheckConfig, TypeOK
<1>18. ASSUME NEW t \in Tids, AddChecked(t) PROVE TypeOK'
  <2>1. task[t] \in Task /\ task[t].conn \in Connectors
    BY <1>18 DEF AddChecked, TypeOK
  <2>2. world.target[task[t].conn] \in Configs /\ task[t].end \in Nat
    BY <2>1, ConfigurationsAssumption DEF TypeOK, Task
  <2>3. /\ active' \subseteq Configs /\ known' \in [Configs -> Nat]
        /\ codes' \subseteq [code : Codes, type : Types]
    BY <1>18, <2>2, AddProperty DEF AddChecked, TypeOK
  <2>4. /\ task' \in [Tids -> Task]
        /\ \A u \in Tids : task'[u].pc # "idle" => task'[u].conn \in Connectors
        /\ \A c \in Connectors : task'[c].pc # "idle" => task'[c].conn = c
    BY <1>0, <1>18 DEF AddChecked, TypeOK, Idle, Task
  <2> QED
    BY <1>18, <2>3, <2>4 DEF AddChecked, TypeOK
<1>19. CASE GcCheck
  BY <1>19 DEF GcCheck, TypeOK, Gc
<1>20. CASE GcFails
  BY <1>20 DEF GcFails, AfterFailure, TypeOK, Gc
<1>21. CASE GcCollect
  BY <1>21 DEF GcCollect, TypeOK, Gc
<1>22. CASE UNCHANGED vars
  BY <1>22 DEF vars, TypeOK
<1> QED
  BY <1>1, <1>2, <1>3, <1>4, <1>5, <1>6, <1>7, <1>8, <1>9, <1>10, <1>11, <1>12, <1>13,
     <1>14, <1>15, <1>16, <1>17, <1>18, <1>19, <1>20, <1>21, <1>22
     DEF Next, NextBlock, Startup, CheckStep

\* The state always has its type.
THEOREM TypeCorrect == Spec => []TypeOK
<1> QED
  BY TypeInit, TypeStep, PTL DEF Spec

-----------------------------------------------------------------------------
(* The registry of event codes                                               *)

LEMMA RegistryStep == TypeOK /\ RegistryCovers /\ [Next]_vars => RegistryCovers'
<1> SUFFICES ASSUME TypeOK, RegistryCovers, [Next]_vars PROVE RegistryCovers'
  OBVIOUS
<1> USE DEF contractVars, stateVars, queueVars, startVars
<1>1. ASSUME NEW c \in Connectors, Discover(c) PROVE RegistryCovers'
  <2> DEFINE k == world.target[c]
  <2>1. k \in Configs /\ snap.end[k] \in Nat
    BY ConfigurationsAssumption DEF TypeOK, Snapshot
  <2>2. CASE snap.conn[c] = "enabled" /\ k \in snap.exists
    BY <1>1, <2>1, <2>2, AddProperty DEF Discover
  <2>3. CASE ~(snap.conn[c] = "enabled" /\ k \in snap.exists)
    BY <1>1, <2>3 DEF Discover, RegistryCovers
  <2> QED
    BY <2>2, <2>3
<1>2. ASSUME NEW t \in Tids, AddChecked(t) PROVE RegistryCovers'
  <2>1. world.target[task[t].conn] \in Configs /\ task[t].end \in Nat
    BY <1>2, ConfigurationsAssumption DEF AddChecked, TypeOK, Task
  <2> QED
    BY <1>2, <2>1, AddProperty DEF AddChecked
<1>3. CASE GcCollect
  BY <1>3 DEF GcCollect, RegistryCovers
<1>4. CASE UNCHANGED <<world, active, codes>>
  BY <1>4 DEF RegistryCovers
<1>5. ASSUME NEW c \in Connectors, Announce(c) \/ Create(c) \/ Enable(c) \/ Disable(c)
      PROVE  UNCHANGED <<world, active, codes>>
  BY <1>5 DEF Announce, Create, Enable, Disable
<1>6. ASSUME NEW k \in Configs, DeployConfig(k) \/ \E e \in 0 .. MaxTime : SetEnd(k, e)
      PROVE  UNCHANGED <<world, active, codes>>
  BY <1>6 DEF DeployConfig, SetEnd
<1>7. CASE NextBlock \/ Lock \/ Unlock \/ StartScan \/ EndScan
  BY <1>4, <1>7 DEF NextBlock, McBlock, Lock, Unlock, StartScan, EndScan
<1>8. CASE HandleDeployed \/ HandleEnable \/ HandleSetEnd
  BY <1>4, <1>8 DEF HandleDeployed, HandleEnable, HandleSetEnd
<1>9. ASSUME NEW t \in Tids, CheckConnector(t) \/ CheckConfig(t)
      PROVE  UNCHANGED <<world, active, codes>>
  BY <1>9 DEF CheckConnector, CheckConfig
<1>10. CASE GcCheck \/ GcFails \/ UNCHANGED vars
  BY <1>4, <1>10 DEF GcCheck, GcFails, vars
<1> QED
  BY <1>1, <1>2, <1>3, <1>4, <1>5, <1>6, <1>7, <1>8, <1>9, <1>10
     DEF Next, Startup, CheckStep

\* The startup scan, which looks for events by these hashes, misses no active
\* configuration and takes no event for one of another type.
THEOREM RegistryCorrect == Spec => []RegistryCovers
<1>1. Init => RegistryCovers
  BY DEF Init, RegistryCovers
<1> QED
  BY <1>1, TypeInit, TypeStep, RegistryStep, PTL DEF Spec

-----------------------------------------------------------------------------
(* End timestamps                                                            *)

\* A check that has read an end timestamp had it before these steps.
LEMMA TaskKept ==
  ASSUME TypeOK,
         \/ HandleDeployed \/ HandleEnable
         \/ \E t \in Tids : CheckConnector(t) \/ AddChecked(t)
  PROVE  \A u \in Tids : task'[u].pc = "add" => task'[u] = task[u]
<1>1. CASE HandleDeployed
  <2>1. PICK c : task' = task \/ task' = [task EXCEPT ![c] = CheckOfNew(c)]
    BY <1>1 DEF HandleDeployed
  <2>2. CheckOfNew(c).pc = "connector"
    BY DEF CheckOfNew, Idle
  <2> QED
    BY <2>1, <2>2 DEF TypeOK
<1>2. CASE HandleEnable
  BY <1>2 DEF HandleEnable, CheckOfEnabled, Idle, Tids, TypeOK
<1>3. ASSUME NEW t \in Tids, CheckConnector(t)
      PROVE  \A u \in Tids : task'[u].pc = "add" => task'[u] = task[u]
  <2>1. task[t] \in Task /\ Idle.pc = "idle"
    BY DEF TypeOK, Idle
  <2>2. CASE task' = [task EXCEPT ![t].pc = "config"]
    BY <2>1, <2>2 DEF TypeOK, Task
  <2>3. CASE task' = [task EXCEPT ![t] = Idle]
    BY <2>1, <2>3 DEF TypeOK
  <2> QED
    BY <1>3, <2>2, <2>3 DEF CheckConnector
<1>4. ASSUME NEW t \in Tids, AddChecked(t)
      PROVE  \A u \in Tids : task'[u].pc = "add" => task'[u] = task[u]
  BY <1>4 DEF AddChecked, TypeOK, Idle
<1> QED
  BY <1>1, <1>2, <1>3, <1>4

\* The variables that EndsAreCurrent and KnownIsCurrent depend on.
endVars == <<world, now, end, active, known, cfgQ, phase, snap, task, gc>>

LEMMA EndsStep ==
  ASSUME TypeOK, TypeOK', Quiet, EndsAreCurrent, KnownIsCurrent, [Next]_vars
  PROVE  EndsAreCurrent' /\ KnownIsCurrent'
<1> USE DEF contractVars, stateVars, queueVars, startVars
<1> DEFINE Goal == EndsAreCurrent' /\ KnownIsCurrent'
<1>0. /\ \A k \in active : k \in Configs
      /\ \A n \in ToSet(cfgQ) : n \in Notice
      /\ \A t \in Tids : task[t].pc # "idle" => world.target[task[t].conn] \in Configs
  <2>1. ToSet(cfgQ) \subseteq Notice
    BY SeqSet DEF TypeOK, Notice
  <2>2. world.target \in [Connectors -> Configs]
    BY ConfigurationsAssumption DEF TypeOK
  <2>3. \A t \in Tids : task[t].pc # "idle" => task[t].conn \in Connectors
    BY DEF TypeOK
  <2> QED
    BY <2>1, <2>2, <2>3 DEF TypeOK
<1>1. CASE UNCHANGED endVars
  BY <1>1 DEF endVars, EndsAreCurrent, KnownIsCurrent
<1>2. ASSUME NEW c \in Connectors, Announce(c) \/ Create(c) \/ Enable(c) \/ Disable(c)
      PROVE  Goal
  BY <1>1, <1>2 DEF Announce, Create, Enable, Disable, endVars
<1>3. ASSUME NEW k \in Configs, DeployConfig(k) PROVE Goal
  BY <1>1, <1>3 DEF DeployConfig, endVars
<1>4. ASSUME NEW k \in Configs, NEW e \in 0 .. MaxTime, SetEnd(k, e) PROVE Goal
  <2>0. e \in Nat
    BY ConfigurationsAssumption
  <2>1. /\ end' = [end EXCEPT ![k] = e]
        /\ UNCHANGED <<world, now, active, known, phase, snap, task, gc>>
        /\ phase # "discovering"
        /\ \A t \in Tids : task[t].pc = "add" => world.target[task[t].conn] # k
        /\ \A n \in ToSet(cfgQ) : n.cfg # k
    BY <1>4 DEF SetEnd, Undisturbed
  <2>2. /\ k \notin active => ToSet(cfgQ') = ToSet(cfgQ)
        /\ k \in active => ToSet(cfgQ') = ToSet(cfgQ) \cup {[cfg |-> k, end |-> e]}
    BY <1>4, <2>0, AppendSet DEF SetEnd, TypeOK, Notice
  <2>3. end \in [Configs -> Nat]
    BY DEF TypeOK
  <2>4. EndsAreCurrent'
    BY <1>0, <2>1, <2>2, <2>3 DEF EndsAreCurrent, Notice
  <2>5. KnownIsCurrent'
    BY <1>0, <2>1, <2>2, <2>3 DEF KnownIsCurrent
  <2> QED
    BY <2>4, <2>5
<1>5. ASSUME NEW time \in {now, now + 1}, McBlock(time) PROVE Goal
  <2>1. now \in Nat /\ time \in Nat /\ now <= time
    BY DEF TypeOK
  <2>2. gc'.pc = "collect" => gc'.time <= now'
    <3>1. CASE gc.pc = "wait"
      BY <1>5, <2>1, <3>1 DEF McBlock
    <3>2. CASE gc.pc # "wait"
      BY <1>5, <2>1, <3>2 DEF McBlock, EndsAreCurrent, TypeOK, Gc
    <3> QED
      BY <3>1, <3>2
  <2>3. phase' = "discovering" => snap'.end = end
    BY <1>5 DEF McBlock, EndsAreCurrent
  <2> QED
    BY <1>5, <2>2, <2>3 DEF McBlock, EndsAreCurrent, KnownIsCurrent
<1>6. CASE Lock \/ StartScan \/ EndScan
  BY <1>6 DEF Lock, StartScan, EndScan, EndsAreCurrent, KnownIsCurrent
<1>7. ASSUME NEW c \in Connectors, Discover(c) PROVE Goal
  <2> DEFINE k == world.target[c]
  <2>1. k \in Configs /\ snap.end[k] \in Nat /\ snap.end[k] = end[k]
    BY <1>7, ConfigurationsAssumption DEF Discover, TypeOK, Snapshot, EndsAreCurrent
  <2>2. EndsAreCurrent'
    BY <1>7 DEF Discover, EndsAreCurrent
  <2>3. CASE snap.conn[c] = "enabled" /\ k \in snap.exists
    <3>1. AddConfiguration(k, snap.end[k])
      BY <1>7, <2>3 DEF Discover
    <3>2. /\ active' \subseteq active \cup {k}
          /\ \A j \in active : known'[j] = known[j]
          /\ k \in active' \ active => known'[k] = end[k]
      BY <1>0, <2>1, <3>1, AddProperty
    <3> QED
      BY <1>7, <2>2, <3>2 DEF Discover, KnownIsCurrent
  <2>4. CASE ~(snap.conn[c] = "enabled" /\ k \in snap.exists)
    BY <1>7, <2>2, <2>4 DEF Discover, KnownIsCurrent
  <2> QED
    BY <2>3, <2>4
<1>8. CASE Unlock
  BY <1>8 DEF Unlock, EndsAreCurrent, KnownIsCurrent
<1>9. CASE HandleDeployed \/ HandleEnable
  BY <1>9, TaskKept DEF HandleDeployed, HandleEnable, EndsAreCurrent, KnownIsCurrent
<1>10. CASE HandleSetEnd
  <2> DEFINE n == Head(cfgQ)
  <2>1. n \in Notice /\ ToSet(cfgQ) = {n} \cup ToSet(cfgQ')
    BY <1>10, TailSet DEF HandleSetEnd, TypeOK, Notice
  <2>2. n.cfg \in Configs /\ n.end = end[n.cfg] /\ n = [cfg |-> n.cfg, end |-> n.end]
    BY <2>1 DEF EndsAreCurrent, Notice
  <2>3. known' = IF n.cfg \in active THEN [known EXCEPT ![n.cfg] = n.end] ELSE known
    BY <1>10 DEF HandleSetEnd, NewEnd
  <2>4. known \in [Configs -> Nat]
    BY DEF TypeOK
  <2>5. KnownIsCurrent'
    <3> SUFFICES ASSUME NEW k \in active
                 PROVE  known'[k] = end[k] \/ [cfg |-> k, end |-> end[k]] \in ToSet(cfgQ')
      BY <1>10 DEF HandleSetEnd, KnownIsCurrent
    <3>1. CASE k = n.cfg
      BY <1>0, <2>2, <2>3, <2>4, <3>1
    <3>2. CASE k # n.cfg
      <4>1. known'[k] = known[k]
        BY <1>0, <2>3, <2>4, <3>2
      <4>2. [cfg |-> k, end |-> end[k]] # n
        BY <3>2
      <4> QED
        BY <2>1, <4>1, <4>2 DEF KnownIsCurrent
    <3> QED
      BY <3>1, <3>2
  <2> QED
    BY <1>10, <2>1, <2>5 DEF HandleSetEnd, EndsAreCurrent
<1>11. ASSUME NEW t \in Tids, CheckConnector(t) PROVE Goal
  BY <1>11, TaskKept DEF CheckConnector, EndsAreCurrent, KnownIsCurrent
<1>12. ASSUME NEW t \in Tids, CheckConfig(t) PROVE Goal
  <2>1. task[t] \in Task
    BY DEF TypeOK
  <2>2. /\ task' = [task EXCEPT ![t].pc = "add", ![t].end = end[world.target[task[t].conn]]]
        /\ UNCHANGED <<world, now, end, active, known, cfgQ, phase, snap, gc>>
    BY <1>12 DEF CheckConfig
  <2>3. /\ task'[t].end = end[world.target[task[t].conn]] /\ task'[t].conn = task[t].conn
        /\ \A u \in Tids : u # t => task'[u] = task[u]
    BY <2>1, <2>2 DEF TypeOK, Task
  <2> QED
    BY <2>2, <2>3 DEF EndsAreCurrent, KnownIsCurrent
<1>13. ASSUME NEW t \in Tids, AddChecked(t) PROVE Goal
  <2> DEFINE k == world.target[task[t].conn]
  <2>1. k \in Configs /\ task[t].end \in Nat /\ task[t].end = end[k]
    BY <1>0, <1>13 DEF AddChecked, TypeOK, Task, EndsAreCurrent
  <2>2. AddConfiguration(k, task[t].end)
    BY <1>13 DEF AddChecked
  <2>3. /\ active' \subseteq active \cup {k}
        /\ \A j \in active : known'[j] = known[j]
        /\ k \in active' \ active => known'[k] = end[k]
    BY <1>0, <2>1, <2>2, AddProperty
  <2>4. KnownIsCurrent'
    BY <1>13, <2>3 DEF AddChecked, KnownIsCurrent
  <2> QED
    BY <1>13, <2>4, TaskKept DEF AddChecked, EndsAreCurrent
<1>14. CASE GcCheck \/ GcFails
  BY <1>14 DEF GcCheck, GcFails, AfterFailure, EndsAreCurrent, KnownIsCurrent, TypeOK, Gc
<1>15. CASE GcCollect
  BY <1>0, <1>15 DEF GcCollect, EndsAreCurrent, KnownIsCurrent
<1>16. CASE UNCHANGED vars
  BY <1>1, <1>16 DEF vars, endVars
<1> QED
  BY <1>2, <1>3, <1>4, <1>5, <1>6, <1>7, <1>8, <1>9, <1>10, <1>11, <1>12, <1>13, <1>14,
     <1>15, <1>16 DEF Next, NextBlock, Startup, CheckStep

EInv == TypeOK /\ EndsAreCurrent /\ KnownIsCurrent

LEMMA EndsInit == Init => EndsAreCurrent /\ KnownIsCurrent
BY DEF Init, EndsAreCurrent, KnownIsCurrent, Idle, ToSet

\* Nothing is removed but what has ended, or is told to end later.
LEMMA RemovalStep ==
  ASSUME EInv, Next, NEW k \in active \ active'
  PROVE  end[k] \in 1 .. now - 1 \/ \E n \in ToSet(cfgQ) : n.cfg = k
<1> USE DEF contractVars, stateVars, queueVars, startVars
<1>1. CASE GcCollect
  <2>1. k \in Configs /\ Expired(k, known[k], gc.time) /\ gc.time <= now
    BY <1>1 DEF GcCollect, Doomed, EInv, TypeOK, EndsAreCurrent
  <2>2. known[k] \in 1 .. now - 1
    BY <2>1 DEF Expired, EInv, TypeOK, Gc
  <2>3. CASE known[k] = end[k]
    BY <2>2, <2>3
  <2>4. CASE [cfg |-> k, end |-> end[k]] \in ToSet(cfgQ)
    BY <2>4
  <2> QED
    BY <2>3, <2>4 DEF EInv, KnownIsCurrent
<1>2. ASSUME NEW c \in Connectors, Discover(c) PROVE active \subseteq active'
  <2>1. world.target[c] \in Configs /\ snap.end[world.target[c]] \in Nat
    BY ConfigurationsAssumption DEF EInv, TypeOK, Snapshot
  <2> QED
    BY <1>2, <2>1, AddProperty DEF Discover, EInv
<1>3. ASSUME NEW t \in Tids, AddChecked(t) PROVE active \subseteq active'
  <2>1. world.target[task[t].conn] \in Configs /\ task[t].end \in Nat
    BY <1>3, ConfigurationsAssumption DEF AddChecked, EInv, TypeOK, Task
  <2> QED
    BY <1>3, <2>1, AddProperty DEF AddChecked, EInv
<1>4. GcCollect \/ (\E c \in Connectors : Discover(c)) \/ (\E t \in Tids : AddChecked(t))
      \/ active' = active
  BY DEF Next, NextBlock, Startup, CheckStep, Announce, Create, Enable, Disable,
         DeployConfig, SetEnd, McBlock, Lock, Unlock, StartScan, EndScan, HandleDeployed,
         HandleEnable, HandleSetEnd, CheckConnector, CheckConfig, GcCheck, GcFails
<1> QED
  BY <1>1, <1>2, <1>3, <1>4

\* While the contracts are quiet, the relay knows when each configuration ends, up
\* to what waits in the channel.
THEOREM EndsCorrect == Quiet => (Spec => []KnownIsCurrent)
<1> SUFFICES ASSUME Quiet PROVE Spec => []KnownIsCurrent
  OBVIOUS
<1>1. Init => EInv
  BY TypeInit, EndsInit DEF EInv
<1>2. EInv /\ [Next]_vars => EInv'
  BY TypeStep, EndsStep DEF EInv
<1> QED
  BY <1>1, <1>2, PTL DEF Spec, EInv

\* And it drops none before its end, unless the news of a later one still waits.
THEOREM RemovalCorrect == Quiet => (Spec => NoEarlyRemoval)
<1> SUFFICES ASSUME Quiet PROVE Spec => NoEarlyRemoval
  OBVIOUS
<1>1. Init => EInv
  BY TypeInit, EndsInit DEF EInv
<1>2. EInv /\ [Next]_vars => EInv'
  BY TypeStep, EndsStep DEF EInv
<1>3. EInv /\ [Next]_vars =>
        [\A k \in active \ active' :
           end[k] \in 1 .. now - 1 \/ \E n \in ToSet(cfgQ) : n.cfg = k]_vars
  BY RemovalStep
<1> QED
  BY <1>1, <1>2, <1>3, PTL DEF Spec, NoEarlyRemoval

-----------------------------------------------------------------------------
(* Ends that were never set                                                  *)

UInv == TypeOK /\ UnsetIsZero

LEMMA UnsetStep == TypeOK /\ TypeOK' /\ UnsetIsZero /\ [Next]_vars => UnsetIsZero'
<1> SUFFICES ASSUME TypeOK, TypeOK', UnsetIsZero, [Next]_vars PROVE UnsetIsZero'
  OBVIOUS
<1> USE DEF contractVars, stateVars, queueVars, startVars
<1>0. /\ ToSet(cfgQ) \subseteq Notice
      /\ \A t \in Tids : task[t].pc # "idle" => world.target[task[t].conn] \in Configs
      /\ \A c \in Connectors : world.target[c] \in Configs
  <2>1. ToSet(cfgQ) \subseteq Notice
    BY SeqSet DEF TypeOK, Notice
  <2>2. world.target \in [Connectors -> Configs]
    BY ConfigurationsAssumption DEF TypeOK
  <2> QED
    BY <2>1, <2>2 DEF TypeOK
<1>1. CASE UNCHANGED <<world, end, ends, known, cfgQ, phase, snap, task>>
  BY <1>1 DEF UnsetIsZero
<1>2. ASSUME NEW c \in Connectors, Announce(c) \/ Create(c) \/ Enable(c) \/ Disable(c)
      PROVE  UnsetIsZero'
  BY <1>1, <1>2 DEF Announce, Create, Enable, Disable
<1>3. ASSUME NEW k \in Configs, DeployConfig(k) PROVE UnsetIsZero'
  BY <1>1, <1>3 DEF DeployConfig
<1>4. ASSUME NEW k \in Configs, NEW e \in 0 .. MaxTime, SetEnd(k, e) PROVE UnsetIsZero'
  <2>0. e \in Nat
    BY ConfigurationsAssumption
  <2>1. /\ end' = [end EXCEPT ![k] = e] /\ ends' = [ends EXCEPT ![k] = @ + 1]
        /\ UNCHANGED <<world, known, phase, snap, task>>
    BY <1>4 DEF SetEnd
  <2>2. ToSet(cfgQ') \subseteq ToSet(cfgQ) \cup {[cfg |-> k, end |-> e]}
    BY <1>4, <2>0, AppendSet DEF SetEnd, TypeOK, Notice
  <2>3. ends[k] + 1 # 0 /\ ends'[k] = ends[k] + 1
        /\ \A j \in Configs : j # k => ends'[j] = ends[j] /\ end'[j] = end[j]
    BY <2>1 DEF TypeOK
  <2> QED
    BY <2>1, <2>2, <2>3 DEF UnsetIsZero
<1>5. ASSUME NEW time \in {now, now + 1}, McBlock(time) PROVE UnsetIsZero'
  BY <1>5 DEF McBlock, UnsetIsZero
<1>6. CASE Lock \/ StartScan \/ EndScan \/ Unlock
  BY <1>6 DEF Lock, StartScan, EndScan, Unlock, UnsetIsZero
<1>7. ASSUME NEW c \in Connectors, Discover(c) PROVE UnsetIsZero'
  <2> DEFINE k == world.target[c]
  <2>1. k \in Configs /\ snap.end[k] \in Nat
    BY <1>0 DEF TypeOK, Snapshot
  <2>2. CASE snap.conn[c] = "enabled" /\ k \in snap.exists
    <3>1. AddConfiguration(k, snap.end[k])
      BY <1>7, <2>2 DEF Discover
    <3>2. \A j \in Configs : known'[j] = known[j] \/ (j = k /\ known'[j] = snap.end[k])
      BY <2>1, <3>1, AddProperty
    <3> QED
      BY <1>7, <3>2 DEF Discover, UnsetIsZero
  <2>3. CASE ~(snap.conn[c] = "enabled" /\ k \in snap.exists)
    BY <1>7, <2>3 DEF Discover, UnsetIsZero
  <2> QED
    BY <2>2, <2>3
<1>8. CASE HandleDeployed \/ HandleEnable
  BY <1>8, TaskKept DEF HandleDeployed, HandleEnable, UnsetIsZero
<1>9. CASE HandleSetEnd
  <2>1. ToSet(cfgQ) = {Head(cfgQ)} \cup ToSet(cfgQ')
    BY <1>9, TailSet DEF HandleSetEnd, TypeOK
  <2>2. \A j \in Configs : j # Head(cfgQ).cfg => known'[j] = known[j]
    BY <1>9 DEF HandleSetEnd, TypeOK
  <2>3. UNCHANGED <<world, end, ends, phase, snap, task>>
    BY <1>9 DEF HandleSetEnd
  <2> QED
    BY <2>1, <2>2, <2>3 DEF UnsetIsZero
<1>10. ASSUME NEW t \in Tids, CheckConnector(t) PROVE UnsetIsZero'
  BY <1>10, TaskKept DEF CheckConnector, UnsetIsZero
<1>11. ASSUME NEW t \in Tids, CheckConfig(t) PROVE UnsetIsZero'
  <2>1. task[t] \in Task
    BY DEF TypeOK
  <2>2. /\ task' = [task EXCEPT ![t].pc = "add", ![t].end = end[world.target[task[t].conn]]]
        /\ UNCHANGED <<world, end, ends, known, cfgQ, phase, snap>>
    BY <1>11 DEF CheckConfig
  <2>3. /\ task'[t].end = end[world.target[task[t].conn]] /\ task'[t].conn = task[t].conn
        /\ \A u \in Tids : u # t => task'[u] = task[u]
    BY <2>1, <2>2 DEF TypeOK, Task
  <2>4. \A k \in Configs, u \in Tids :
          ends[k] = 0 /\ task'[u].pc = "add" /\ world.target[task'[u].conn] = k
            => task'[u].end = 0
    BY <2>3 DEF UnsetIsZero
  <2> QED
    BY <2>2, <2>4 DEF UnsetIsZero
<1>12. ASSUME NEW t \in Tids, AddChecked(t) PROVE UnsetIsZero'
  <2> DEFINE k == world.target[task[t].conn]
  <2>1. k \in Configs /\ task[t].end \in Nat /\ task[t].pc = "add"
    BY <1>0, <1>12 DEF AddChecked, TypeOK, Task
  <2>2. AddConfiguration(k, task[t].end)
    BY <1>12 DEF AddChecked
  <2>3. \A j \in Configs : known'[j] = known[j] \/ (j = k /\ known'[j] = task[t].end)
    BY <2>1, <2>2, AddProperty
  <2>4. UNCHANGED <<world, end, ends, cfgQ, phase, snap>>
        /\ \A u \in Tids : task'[u].pc = "add" => task'[u] = task[u]
    BY <1>12, TaskKept DEF AddChecked
  <2>5. \A j \in Configs : ends[j] = 0 => known'[j] = 0
    BY <2>1, <2>3 DEF UnsetIsZero
  <2> QED
    BY <2>4, <2>5 DEF UnsetIsZero
<1>13. CASE GcCheck \/ GcFails
  BY <1>1, <1>13 DEF GcCheck, GcFails
<1>14. CASE GcCollect
  BY <1>14 DEF GcCollect, UnsetIsZero
<1>15. CASE UNCHANGED vars
  BY <1>1, <1>15 DEF vars
<1> QED
  BY <1>2, <1>3, <1>4, <1>5, <1>6, <1>7, <1>8, <1>9, <1>10, <1>11, <1>12, <1>13, <1>14,
     <1>15 DEF Next, NextBlock, Startup, CheckStep

-----------------------------------------------------------------------------
(* Connectors                                                                *)

\* The connectors that a step of the contracts moves.
LEMMA SnapshotStep ==
  ASSUME TypeOK, Quiet, SnapshotHolds, [Next]_vars PROVE SnapshotHolds'
<1> USE DEF contractVars, stateVars, queueVars, startVars
<1>1. CASE UNCHANGED <<world, conn, phase, snap, toVisit, connectors, bridgeQ>>
  BY <1>1 DEF SnapshotHolds
<1>2. ASSUME NEW c \in Connectors, Announce(c) PROVE SnapshotHolds'
  <2>1. ToSet(bridgeQ') = ToSet(bridgeQ) \cup {c}
    BY <1>2, AppendSet DEF Announce, TypeOK
  <2>2. \A d \in Connectors : d # c => conn'[d] = conn[d]
    BY <1>2 DEF Announce, TypeOK
  <2>3. phase = "discovering" => c \notin toVisit
    BY <1>2 DEF Announce, SnapshotHolds
  <2> QED
    BY <1>2, <2>1, <2>2, <2>3 DEF Announce, SnapshotHolds, TypeOK
<1>3. ASSUME NEW c \in Connectors, Create(c) \/ Enable(c) \/ Disable(c)
      PROVE  SnapshotHolds'
  BY <1>3 DEF Create, Enable, Disable, Undisturbed, SnapshotHolds
<1>4. ASSUME NEW k \in Configs, DeployConfig(k) \/ \E e \in 0 .. MaxTime : SetEnd(k, e)
      PROVE  SnapshotHolds'
  BY <1>1, <1>4 DEF DeployConfig, SetEnd
<1>5. ASSUME NEW time \in {now, now + 1}, McBlock(time) PROVE SnapshotHolds'
  <2>1. CASE phase = "locked"
    BY <1>5, <2>1 DEF McBlock, Settled, SnapshotHolds
  <2>2. CASE phase # "locked"
    BY <1>1, <1>5, <2>2 DEF McBlock
  <2> QED
    BY <2>1, <2>2
<1>6. CASE Lock \/ StartScan \/ EndScan \/ Unlock
  BY <1>6 DEF Lock, StartScan, EndScan, Unlock, SnapshotHolds
<1>7. ASSUME NEW c \in Connectors, Discover(c) PROVE SnapshotHolds'
  BY <1>7 DEF Discover, SnapshotHolds
<1>8. CASE HandleDeployed
  BY <1>8 DEF HandleDeployed, MayWrite, SnapshotHolds
<1>9. CASE HandleEnable \/ HandleSetEnd \/ GcCheck \/ GcFails \/ GcCollect
           \/ (\E t \in Tids : CheckStep(t)) \/ UNCHANGED vars
  BY <1>1, <1>9 DEF HandleEnable, HandleSetEnd, GcCheck, GcFails, GcCollect, CheckStep,
     CheckConnector, CheckConfig, AddChecked, vars
<1> QED
  BY <1>2, <1>3, <1>4, <1>5, <1>6, <1>7, <1>8, <1>9 DEF Next, NextBlock, Startup

LEMMA HeardOfStep ==
  ASSUME TypeOK, Quiet, SnapshotHolds, AllHeardOf, [Next]_vars PROVE AllHeardOf'
<1> USE DEF contractVars, stateVars, queueVars, startVars
<1>1. CASE UNCHANGED <<conn, phase, toVisit, connectors, bridgeQ>>
  BY <1>1 DEF AllHeardOf
<1>2. ASSUME NEW c \in Connectors, Announce(c) PROVE AllHeardOf'
  <2>1. ToSet(bridgeQ') = ToSet(bridgeQ) \cup {c}
    BY <1>2, AppendSet DEF Announce, TypeOK
  <2>2. conn'[c] = "announced" /\ \A d \in Connectors : d # c => conn'[d] = conn[d]
    BY <1>2 DEF Announce, TypeOK
  <2>3. ToSet(bridgeQ) \subseteq Connectors
    BY SeqSet DEF TypeOK
  <2> QED
    BY <1>2, <2>1, <2>2, <2>3 DEF Announce, AllHeardOf
<1>3. ASSUME NEW c \in Connectors, Create(c) \/ Enable(c) \/ Disable(c) PROVE AllHeardOf'
  <2>1. conn[c] # "none" /\ conn'[c] # "none"
        /\ \A d \in Connectors : d # c => conn'[d] = conn[d]
    BY <1>3 DEF Create, Enable, Disable, TypeOK
  <2>2. UNCHANGED <<phase, toVisit, connectors, bridgeQ>>
    BY <1>3 DEF Create, Enable, Disable
  <2>3. ToSet(bridgeQ) \subseteq Connectors
    BY SeqSet DEF TypeOK
  <2> QED
    BY <2>1, <2>2, <2>3 DEF AllHeardOf
<1>4. ASSUME NEW k \in Configs, DeployConfig(k) \/ \E e \in 0 .. MaxTime : SetEnd(k, e)
      PROVE  AllHeardOf'
  BY <1>1, <1>4 DEF DeployConfig, SetEnd
<1>5. ASSUME NEW time \in {now, now + 1}, McBlock(time) PROVE AllHeardOf'
  BY <1>5 DEF McBlock, AllHeardOf
<1>6. CASE Lock \/ StartScan \/ EndScan
  BY <1>6 DEF Lock, StartScan, EndScan, AllHeardOf
<1>7. CASE Unlock
  BY <1>7 DEF Unlock, AllHeardOf
<1>8. ASSUME NEW c \in Connectors, Discover(c) PROVE AllHeardOf'
  BY <1>8 DEF Discover, AllHeardOf, SnapshotHolds
<1>9. CASE HandleDeployed
  <2>1. Head(bridgeQ) \in Connectors /\ ToSet(bridgeQ) = {Head(bridgeQ)} \cup ToSet(bridgeQ')
    BY <1>9, TailSet DEF HandleDeployed, TypeOK
  <2>2. connectors' = connectors \cup {Head(bridgeQ)}
    BY <1>9 DEF HandleDeployed
  <2> QED
    BY <1>9, <2>1, <2>2 DEF HandleDeployed, AllHeardOf
<1>10. CASE HandleEnable \/ HandleSetEnd \/ GcCheck \/ GcFails \/ GcCollect
            \/ (\E t \in Tids : CheckStep(t)) \/ UNCHANGED vars
  BY <1>1, <1>10 DEF HandleEnable, HandleSetEnd, GcCheck, GcFails, GcCollect, CheckStep,
     CheckConnector, CheckConfig, AddChecked, vars
<1> QED
  BY <1>2, <1>3, <1>4, <1>5, <1>6, <1>7, <1>8, <1>9, <1>10 DEF Next, NextBlock, Startup

\* The configuration of a connector, if its end was never set, is added when it is
\* read and its code does not clash.
LEMMA AddsUnset ==
  ASSUME UInv, NEW k \in Configs, AddConfiguration(k, 0), world' = world,
         k \in world.served, ~Clashes(k)'
  PROVE  k \in active'
<1>1. 0 \in Nat /\ ~Expired(k, 0, now)
  BY DEF Expired
<1>2. codes \subseteq codes'
  BY <1>1, AddProperty DEF UInv
<1>3. ~Clashes(k)
  BY <1>2 DEF Clashes
<1> QED
  BY <1>1, <1>3, AddProperty DEF UInv

\* What a step may do to a connector that was checked, or to the set of codes.
LEMMA KnownStep ==
  ASSUME TypeOK, TypeOK', Quiet, UnsetIsZero, SnapshotHolds, AllHeardOf, KnownAreChecked,
         [Next]_vars
  PROVE  KnownAreChecked'
<1> USE DEF contractVars, stateVars, queueVars, startVars
<1> DEFINE Sought(c) == LET k == world.target[c]
                        IN  conn[c] = "enabled" /\ ends[k] = 0 /\ k \in world.served
                              /\ ~Clashes(k)
           Has(c) == world.target[c] \in active \/ Checked(c)
<1>0. /\ world.target \in [Connectors -> Configs]
      /\ connectors \subseteq Connectors /\ ToSet(bridgeQ) \subseteq Connectors
      /\ ToSet(connQ) \subseteq Connectors
  BY SeqSet, ConfigurationsAssumption DEF TypeOK
<1>a. KnownAreChecked <=>
        \A c \in connectors :
          /\ conn[c] # "none"
          /\ conn[c] = "announced" => task[c].pc = "connector" /\ task[c].conn = c
          /\ Sought(c) => Has(c)
  BY DEF KnownAreChecked
<1>b. KnownAreChecked' <=>
        \A c \in connectors' :
          /\ conn'[c] # "none"
          /\ conn'[c] = "announced" => task'[c].pc = "connector" /\ task'[c].conn = c
          /\ Sought(c)' => Has(c)'
  BY DEF KnownAreChecked
<1>1. CASE UNCHANGED <<world, conn, ends, connectors, active, codes, connQ, task>>
  BY <1>1 DEF KnownAreChecked, Clashes, Checked
<1>2. ASSUME NEW c \in Connectors, Announce(c) PROVE KnownAreChecked'
  <2>1. c \notin connectors /\ \A d \in Connectors : d # c => conn'[d] = conn[d]
    BY <1>2 DEF Announce, TypeOK, KnownAreChecked
  <2>2. UNCHANGED <<world, ends, connectors, active, codes, connQ, task>>
    BY <1>2 DEF Announce
  <2> QED
    BY <1>0, <2>1, <2>2 DEF KnownAreChecked, Clashes, Checked
<1>3. ASSUME NEW c \in Connectors, Create(c) \/ Disable(c) PROVE KnownAreChecked'
  <2>1. conn'[c] = "disabled" /\ \A d \in Connectors : d # c => conn'[d] = conn[d]
    BY <1>3 DEF Create, Disable, TypeOK
  <2>2. UNCHANGED <<world, ends, connectors, active, codes, connQ, task>>
    BY <1>3 DEF Create, Disable
  <2> QED
    BY <1>0, <2>1, <2>2 DEF KnownAreChecked, Clashes, Checked
<1>4. ASSUME NEW c \in Connectors, Enable(c) PROVE KnownAreChecked'
  <2>1. conn'[c] = "enabled" /\ \A d \in Connectors : d # c => conn'[d] = conn[d]
    BY <1>4 DEF Enable, TypeOK
  <2>2. UNCHANGED <<world, ends, connectors, active, codes, task>>
    BY <1>4 DEF Enable
  <2>3. ToSet(connQ) \subseteq ToSet(connQ') /\ (c \in connectors => c \in ToSet(connQ'))
    BY <1>4, AppendSet DEF Enable, TypeOK
  <2> QED
    BY <1>0, <2>1, <2>2, <2>3 DEF KnownAreChecked, Clashes, Checked
<1>5. ASSUME NEW k \in Configs, DeployConfig(k) PROVE KnownAreChecked'
  BY <1>1, <1>5 DEF DeployConfig
<1>6. ASSUME NEW k \in Configs, NEW e \in 0 .. MaxTime, SetEnd(k, e) PROVE KnownAreChecked'
  <2>1. \A j \in Configs : ends'[j] = 0 => ends[j] = 0
    BY <1>6 DEF SetEnd, TypeOK
  <2>2. UNCHANGED <<world, conn, connectors, active, codes, connQ, task>>
    BY <1>6 DEF SetEnd
  <2> QED
    BY <1>0, <2>1, <2>2 DEF KnownAreChecked, Clashes, Checked
<1>7. ASSUME NEW c \in Connectors, Discover(c) PROVE KnownAreChecked'
  <2> DEFINE k == world.target[c]
             found == snap.conn[c] = "enabled" /\ k \in snap.exists
  <2>0. /\ phase = "discovering" /\ c \in toVisit /\ snap.conn[c] = conn[c]
        /\ conn[c] # "none" /\ (conn[c] = "enabled" => k \in snap.exists)
        /\ k \in Configs /\ snap.end[k] \in Nat
    BY <1>0, <1>7 DEF Discover, SnapshotHolds, TypeOK, Snapshot
  <2>1. UNCHANGED <<world, conn, ends, connQ, task>>
        /\ connectors' = IF conn[c] = "announced" THEN connectors ELSE connectors \cup {c}
    BY <1>7, <2>0 DEF Discover
  <2>2. active \subseteq active' /\ codes \subseteq codes'
    <3>1. CASE found
      BY <1>7, <2>0, <3>1, AddProperty DEF Discover
    <3>2. CASE ~found
      BY <1>7, <3>2 DEF Discover
    <3> QED
      BY <3>1, <3>2
  <2>3. Sought(c)' => k \in active'
    <3> SUFFICES ASSUME Sought(c)' PROVE k \in active'
      OBVIOUS
    <3>1. conn[c] = "enabled" /\ ends[k] = 0 /\ k \in world.served /\ ~Clashes(k)'
      BY <2>1
    <3>2. AddConfiguration(k, 0)
      BY <1>7, <2>0, <3>1 DEF Discover, UnsetIsZero
    <3> QED
      BY <2>0, <2>1, <3>1, <3>2, AddsUnset DEF UInv
  <2>4. \A d : Sought(d)' => Sought(d)
    BY <2>1, <2>2 DEF Clashes
  <2>5. \A d : Has(d) => Has(d)'
    BY <2>1, <2>2 DEF Checked
  <2>6. ASSUME NEW d \in connectors'
        PROVE  /\ conn'[d] # "none"
               /\ conn'[d] = "announced" => task'[d].pc = "connector" /\ task'[d].conn = d
               /\ Sought(d)' => Has(d)'
    <3>1. CASE d \in connectors
      BY <1>a, <2>1, <2>4, <2>5, <3>1
    <3>2. CASE d \notin connectors
      <4>1. d = c /\ conn[c] # "announced"
        BY <2>1, <3>2
      <4> QED
        BY <2>0, <2>1, <2>3, <4>1
    <3> QED
      BY <3>1, <3>2
  <2> QED
    BY <1>b, <2>6
<1>8. CASE HandleDeployed
  <2> DEFINE c == Head(bridgeQ)
  <2>1. c \in Connectors /\ c \in ToSet(bridgeQ) /\ conn[c] # "none"
    BY <1>8, TailSet DEF HandleDeployed, TypeOK, AllHeardOf
  <2>2. UNCHANGED <<world, conn, ends, active, codes, connQ>>
    BY <1>8 DEF HandleDeployed
  <2>3. CASE c \in connectors
    BY <1>1, <1>8, <2>2, <2>3 DEF HandleDeployed
  <2>4. CASE c \notin connectors
    <3>1. connectors' = connectors \cup {c} /\ task' = [task EXCEPT ![c] = CheckOfNew(c)]
      BY <1>8, <2>4 DEF HandleDeployed
    <3>2. c \in Tids /\ task'[c].pc = "connector" /\ task'[c].conn = c
          /\ \A t \in Tids : t # c => task'[t] = task[t]
      BY <2>1, <3>1 DEF Tids, TypeOK, CheckOfNew, Idle
    <3>3. task[c].pc # "idle" => task[c].conn = c
      BY <2>1 DEF TypeOK
    <3>4. \A d \in connectors : Checked(d) => Checked(d)'
      BY <2>2, <2>4, <3>2, <3>3 DEF Checked
    <3>5. ASSUME NEW d, d = c PROVE Checked(d)'
      BY <3>2, <3>5 DEF Checked
    <3> QED
      BY <1>0, <1>a, <1>b, <2>1, <2>2, <2>4, <3>1, <3>2, <3>4, <3>5 DEF Clashes
  <2> QED
    BY <2>3, <2>4
<1>9. CASE HandleEnable
  <2> DEFINE c == Head(connQ)
  <2>1. c \in Connectors /\ ToSet(connQ) = {c} \cup ToSet(connQ')
    BY <1>9, TailSet DEF HandleEnable, TypeOK
  <2>2. /\ UNCHANGED <<world, conn, ends, connectors, active, codes>>
        /\ task[Listener].pc = "idle"
        /\ task' = [task EXCEPT ![Listener] = CheckOfEnabled(c)]
    BY <1>9 DEF HandleEnable
  <2>3. /\ Listener \in Tids /\ task'[Listener].pc = "connector" /\ task'[Listener].conn = c
        /\ \A t \in Connectors : task'[t] = task[t]
        /\ Tids = Connectors \cup {Listener}
    BY <2>2, ConfigurationsAssumption DEF Tids, TypeOK, CheckOfEnabled, Idle
  <2>4. \A d : Checked(d) => Checked(d)'
    BY <2>1, <2>2, <2>3 DEF Checked
  <2> QED
    BY <1>0, <1>a, <1>b, <2>2, <2>3, <2>4 DEF Clashes
<1>10. ASSUME NEW t \in Tids, CheckConnector(t) PROVE KnownAreChecked'
  <2>1. UNCHANGED <<world, conn, ends, connectors, active, codes, connQ>>
    BY <1>10 DEF CheckConnector
  <2>2. task[t] \in Task /\ Idle.pc = "idle" /\ task[t].pc = "connector"
    BY <1>10 DEF CheckConnector, TypeOK, Idle
  <2>3. CASE conn[task[t].conn] = "enabled" /\ task' = [task EXCEPT ![t].pc = "config"]
    <3>1. task'[t].pc = "config" /\ task'[t].conn = task[t].conn
          /\ \A u \in Tids : u # t => task'[u] = task[u]
      BY <2>2, <2>3 DEF TypeOK, Task
    <3>2. \A d : Checked(d) => Checked(d)'
      BY <2>1, <3>1 DEF Checked
    <3>3. \A d \in connectors : conn[d] = "announced" => d # t
      BY <2>3 DEF KnownAreChecked
    <3>4. (\A d : Sought(d)' => Sought(d)) /\ (\A d : Has(d) => Has(d)')
      BY <2>1, <3>2 DEF Clashes
    <3>5. \A d \in connectors : d \in Tids
      BY <1>0 DEF Tids
    <3> QED
      BY <1>a, <1>b, <2>1, <3>1, <3>3, <3>4, <3>5
  <2>4. CASE conn[task[t].conn] = "disabled" /\ task' = [task EXCEPT ![t] = Idle]
    <3>1. \A u \in Tids : u # t => task'[u] = task[u]
      BY <2>4 DEF TypeOK
    <3>2. \A d : conn[d] = "enabled" /\ Checked(d) => Checked(d)'
      BY <2>1, <2>4, <3>1 DEF Checked
    <3>3. \A d \in connectors : conn[d] = "announced" => d # t
      BY <2>4 DEF KnownAreChecked
    <3> QED
      BY <1>0, <1>a, <1>b, <2>1, <3>1, <3>2, <3>3 DEF Clashes, Tids
  <2> QED
    BY <1>10, <2>3, <2>4 DEF CheckConnector
<1>11. ASSUME NEW t \in Tids, CheckConfig(t) PROVE KnownAreChecked'
  <2>1. UNCHANGED <<world, conn, ends, connectors, active, codes, connQ>>
        /\ task' = [task EXCEPT ![t].pc = "add", ![t].end = end[world.target[task[t].conn]]]
        /\ task[t].pc = "config" /\ task[t] \in Task
    BY <1>11 DEF CheckConfig, TypeOK
  <2>2. task'[t].pc = "add" /\ task'[t].conn = task[t].conn
        /\ \A u \in Tids : u # t => task'[u] = task[u]
    BY <2>1 DEF TypeOK, Task
  <2>3. \A d : Checked(d) => Checked(d)'
    BY <2>1, <2>2 DEF Checked
  <2>4. \A d \in connectors : conn[d] = "announced" => d # t
    BY <2>1 DEF KnownAreChecked
  <2>5. \A d : Sought(d)' => Sought(d)
    BY <2>1 DEF Clashes
  <2>6. \A d : Has(d) => Has(d)'
    BY <2>1, <2>3
  <2>7. \A d \in connectors : d \in Tids
    BY <1>0 DEF Tids
  <2>8. ASSUME NEW d \in connectors'
        PROVE  /\ conn'[d] # "none"
               /\ conn'[d] = "announced" => task'[d].pc = "connector" /\ task'[d].conn = d
               /\ Sought(d)' => Has(d)'
    <3>1. d \in connectors /\ conn'[d] = conn[d]
      BY <2>1
    <3>2. conn[d] = "announced" => task'[d] = task[d]
      BY <2>2, <2>4, <2>7, <3>1
    <3> QED
      BY <1>a, <2>5, <2>6, <3>1, <3>2
  <2> QED
    BY <1>b, <2>8
<1>12. ASSUME NEW t \in Tids, AddChecked(t) PROVE KnownAreChecked'
  <2>0. PICK k : k = world.target[task[t].conn]
    OBVIOUS
  <2>1. /\ UNCHANGED <<world, conn, ends, connectors, connQ>>
        /\ task' = [task EXCEPT ![t] = Idle] /\ task[t].pc = "add"
        /\ AddConfiguration(k, task[t].end)
    BY <1>12, <2>0 DEF AddChecked
  <2>2. task[t].conn \in Connectors /\ task[t].end \in Nat /\ k \in Configs
    BY <1>0, <2>0, <2>1 DEF TypeOK, Task
  <2>3. active \subseteq active' /\ codes \subseteq codes'
    BY <2>1, <2>2, AddProperty
  <2>4. \A u \in Tids : u # t => task'[u] = task[u]
    BY <2>1 DEF TypeOK
  <2>5. ASSUME NEW d \in Connectors, Sought(d)', Has(d) PROVE Has(d)'
    <3>1. CASE world.target[d] \in active
      BY <2>1, <2>3, <3>1
    <3>2. CASE d \in ToSet(connQ)
      BY <2>1, <3>2 DEF Checked
    <3>3. ASSUME NEW u \in Tids, u # t, task[u].pc # "idle", task[u].conn = d
          PROVE  Has(d)'
      BY <2>4, <3>3 DEF Checked
    <3>4. CASE task[t].conn = d
      <4>1. ends[k] = 0 /\ k \in world.served /\ ~Clashes(k)'
        BY <2>0, <2>1, <2>5, <3>4
      <4>2. task[t].end = 0
        BY <2>0, <2>1, <2>2, <4>1 DEF UnsetIsZero
      <4>3. k \in active'
        BY <2>1, <2>2, <4>1, <4>2, AddsUnset DEF UInv
      <4> QED
        BY <2>0, <2>1, <3>4, <4>3
    <3> QED
      BY <2>5, <3>1, <3>2, <3>3, <3>4 DEF Checked
  <2>6. \A d : Sought(d)' => Sought(d)
    BY <2>1, <2>3 DEF Clashes
  <2>7. \A d \in connectors : conn[d] = "announced" => d # t
    BY <2>1 DEF KnownAreChecked
  <2> QED
    BY <1>0, <1>a, <1>b, <2>1, <2>4, <2>5, <2>6, <2>7 DEF Tids
<1>13. CASE GcCollect
  <2>1. UNCHANGED <<world, conn, ends, connectors, codes, connQ, task>>
    BY <1>13 DEF GcCollect
  <2>2. \A k \in active : ends[k] = 0 => k \in active'
    BY <1>13 DEF GcCollect, Doomed, Expired, UnsetIsZero, TypeOK
  <2> QED
    BY <1>0, <2>1, <2>2 DEF KnownAreChecked, Clashes, Checked
<1>14. CASE NextBlock \/ Lock \/ Unlock \/ StartScan \/ EndScan \/ HandleSetEnd \/ GcCheck
            \/ GcFails \/ UNCHANGED vars
  BY <1>1, <1>14 DEF NextBlock, McBlock, Lock, Unlock, StartScan, EndScan, HandleSetEnd,
     GcCheck, GcFails, vars
<1> QED
  BY <1>2, <1>3, <1>4, <1>5, <1>6, <1>7, <1>8, <1>9, <1>10, <1>11, <1>12, <1>13, <1>14
     DEF Next, Startup, CheckStep

CInv == TypeOK /\ UnsetIsZero /\ SnapshotHolds /\ AllHeardOf /\ KnownAreChecked

LEMMA ConnectorsInit == Init => UnsetIsZero /\ SnapshotHolds /\ AllHeardOf /\ KnownAreChecked
BY DEF Init, UnsetIsZero, SnapshotHolds, AllHeardOf, KnownAreChecked, Idle, ToSet

LEMMA CInvTracked == CInv => Tracked
<1> SUFFICES ASSUME CInv, phase \in {"discovered", "scanning", "running"},
                    NEW c \in Connectors, conn[c] = "enabled", Wanted(world.target[c])
             PROVE  Follows(c)
  BY DEF Tracked
<1>1. toVisit = {}
  BY DEF CInv, TypeOK
<1>2. CASE c \in connectors
  BY <1>2 DEF CInv, KnownAreChecked, Wanted, Checked, Follows
<1>3. CASE c \notin connectors
  BY <1>1, <1>3 DEF CInv, AllHeardOf, Follows
<1> QED
  BY <1>2, <1>3

\* While the contracts are quiet, no enabled connector is overlooked: not by the
\* startup, whatever is announced, created or enabled around it, and not later.
THEOREM ConnectorsTracked == Quiet => (Spec => []Tracked)
<1> SUFFICES ASSUME Quiet PROVE Spec => []Tracked
  OBVIOUS
<1>1. Init => CInv
  BY TypeInit, ConnectorsInit DEF CInv
<1>2. CInv /\ [Next]_vars => CInv'
  BY TypeStep, UnsetStep, SnapshotStep, HeardOfStep, KnownStep DEF CInv
<1> QED
  BY <1>1, <1>2, CInvTracked, PTL DEF Spec
===============================================================================
