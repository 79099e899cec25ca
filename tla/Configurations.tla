----------------------------- MODULE Configurations -----------------------------
(***************************************************************************)
(* The connectors and event configurations that a relay follows:           *)
(* BridgeState in src/src/engine/bridge/mod.rs, from the startup, which    *)
(* reads them all from one masterchain block, over the handlers that       *)
(* follow their contracts, to the collection of expired configurations.    *)
(*                                                                         *)
(* The state is under one asynchronous RwLock, which the startup holds     *)
(* over awaits.  The families differ here in whether their configurations  *)
(* expire (all but those of ETH->TON do).                                  *)
(***************************************************************************)
EXTENDS Naturals, Sequences, FiniteSets, SequencesExt

CONSTANTS
  Connectors,  \* accounts of connector contracts
  Listener,    \* the listener of connector events, which checks connectors itself
  Configs,     \* accounts of event configuration contracts
  Codes,       \* hashes of event contract codes
  Type,        \* Type[k]: the event type of configuration k
  Worlds,      \* what the contracts may be: see world
  Quiet,       \* environment: nothing changes between being read and being observed
  MaxTime,     \* bound: masterchain time
  MaxToggles,  \* bound: times that connectors are enabled or disabled
  MaxEnds      \* bound: MaxEnds[k] changes of the end timestamp of k

Types == {"EthTon", "TonEth", "SolTon", "TonSol"}

ASSUME ConfigurationsAssumption ==
  /\ Listener \notin Connectors
  /\ Type \in [Configs -> Types]
  /\ Worlds \subseteq [target : [Connectors -> Configs], code : [Configs -> Codes],
                      served : SUBSET Configs]
  /\ \A w \in Worlds : {k \in Configs : Type[k] = "TonEth"} \subseteq w.served
  /\ Quiet \in BOOLEAN
  /\ {MaxTime, MaxToggles} \subseteq Nat /\ MaxEnds \in [Configs -> Nat]

VARIABLES
  (* the contracts *)
  world,       \* what never changes: the configuration that a connector targets,
               \* the event code of a configuration, and the configurations that are
               \* served: those whose network the relay is set up for
  now,         \* time of the last masterchain block
  conn,        \* conn[c]: state of connector c
  exists,      \* configurations that are deployed
  end,         \* end[k]: end timestamp of configuration k, 0 for none
  toggles,     \* times that connectors were enabled or disabled
  ends,        \* ends[k]: changes of the end timestamp of k
  (* the relay *)
  phase,       \* how far Bridge::new is
  snap,        \* the contracts as of the block that get_all_shard_accounts waited for
  toVisit,     \* connectors of the snapshot that are yet to be visited
  connectors,  \* BridgeState::connectors; their observers are subscribed
  active,      \* the keys of the four maps of configurations; so are theirs
  known,       \* known[k]: end timestamp in the details of an active k
  codes,       \* BridgeState::event_code_hashes
  bridgeQ, connQ, cfgQ,  \* channels: ConnectorDeployed, Enable, SetEndTimestamp
  task,        \* task[t]: check_connector_contract, spawned for a connector or inline
  gc           \* the collection of expired configurations

contractVars == <<world, now, conn, exists, end, toggles, ends>>
stateVars == <<connectors, active, known, codes>>
queueVars == <<bridgeQ, connQ, cfgQ>>
startVars == <<phase, snap, toVisit>>
vars == <<contractVars, stateVars, queueVars, startVars, task, gc>>

\* A connector is announced by the bridge before its account exists.
ConnStates == {"none", "announced", "disabled", "enabled"}

Phases == {"observing", "locked", "discovering", "discovered", "scanning", "running"}

\* No snapshot is held.
Nothing == [conn |-> [c \in Connectors |-> "none"], exists |-> {},
            end |-> [k \in Configs |-> 0]]

Tids == Connectors \cup {Listener}
Task == [pc : {"idle", "connector", "config", "add"}, conn : Connectors \cup {Listener},
         end : Nat]
Idle == [pc |-> "idle", conn |-> Listener, end |-> 0]
Gc == [pc : {"sleep", "wait", "collect"}, time : Nat]

\* The lock: get_all_configurations has it for writing over an await, and
\* get_all_events for reading; everybody else needs it for one step.
MayWrite == phase \notin {"locked", "discovering", "scanning"}

\* is_expired (mutant: 0 is a time like any other).
Expired_ZeroToo(k, e, t) == Type[k] # "EthTon" /\ e < t
Expired(k, e, t) == Type[k] # "EthTon" /\ 0 < e /\ e < t

-----------------------------------------------------------------------------
(* The contracts                                                             *)

\* What the startup has read, and has yet to observe, does not change.
Undisturbed == Quiet => phase # "discovering"

Announce(c) ==
  /\ conn[c] = "none"
  /\ conn' = [conn EXCEPT ![c] = "announced"]
  /\ bridgeQ' = Append(bridgeQ, c)
  /\ UNCHANGED <<world, now, exists, end, toggles, ends, stateVars, connQ, cfgQ,
                 startVars, task, gc>>

Create(c) ==
  /\ conn[c] = "announced" /\ Undisturbed
  /\ conn' = [conn EXCEPT ![c] = "disabled"]
  /\ UNCHANGED <<world, now, exists, end, toggles, ends, stateVars, queueVars,
                 startVars, task, gc>>

\* Its observer, if it is subscribed, tells of the transaction that enables c.
Enable(c) ==
  /\ conn[c] = "disabled" /\ toggles < MaxToggles /\ Undisturbed
  /\ conn' = [conn EXCEPT ![c] = "enabled"]
  /\ toggles' = toggles + 1
  /\ connQ' = IF c \in connectors THEN Append(connQ, c) ELSE connQ
  /\ UNCHANGED <<world, now, exists, end, ends, stateVars, bridgeQ, cfgQ, startVars,
                 task, gc>>

Disable(c) ==
  /\ conn[c] = "enabled" /\ toggles < MaxToggles /\ Undisturbed
  /\ conn' = [conn EXCEPT ![c] = "disabled"]
  /\ toggles' = toggles + 1
  /\ UNCHANGED <<world, now, exists, end, ends, stateVars, queueVars, startVars, task, gc>>

DeployConfig(k) ==
  /\ k \notin exists /\ Undisturbed
  /\ exists' = exists \cup {k}
  /\ UNCHANGED <<world, now, conn, end, toggles, ends, stateVars, queueVars, startVars,
                 task, gc>>

\* setEndTimestamp; the observer of an active configuration tells of it.
SetEnd(k, e) ==
  /\ k \in exists /\ ends[k] < MaxEnds[k] /\ e # end[k] /\ Undisturbed
  /\ Quiet => /\ \A t \in Tids : task[t].pc = "add" => world.target[task[t].conn] # k
              /\ \A n \in ToSet(cfgQ) : n.cfg # k
  /\ end' = [end EXCEPT ![k] = e]
  /\ ends' = [ends EXCEPT ![k] = @ + 1]
  /\ cfgQ' = IF k \in active THEN Append(cfgQ, [cfg |-> k, end |-> e]) ELSE cfgQ
  /\ UNCHANGED <<world, now, conn, exists, toggles, stateVars, bridgeQ, connQ,
                 startVars, task, gc>>

\* What a quiet environment leaves to be read by the startup: who is announced
\* will be heard of, and no enabled connector names a missing configuration.
Settled ==
  \A c \in Connectors : /\ conn[c] = "announced" => c \in connectors \cup ToSet(bridgeQ)
                        /\ conn[c] = "enabled" => world.target[c] \in exists

\* A masterchain block, of the same or of a later second, for which
\* wait_shards may be waiting.
McBlock(time) ==
  /\ Quiet /\ phase = "locked" => Settled
  /\ now' = time
  /\ IF phase = "locked"
     THEN /\ phase' = "discovering"
          /\ snap' = [conn |-> conn, exists |-> exists, end |-> end]
          /\ toVisit' = {c \in Connectors : conn[c] # "none"}
     ELSE UNCHANGED startVars
  /\ gc' = IF gc.pc = "wait" THEN [pc |-> "collect", time |-> time] ELSE gc
  /\ UNCHANGED <<world, conn, exists, end, toggles, ends, stateVars, queueVars, task>>

-----------------------------------------------------------------------------
(* Adding a configuration                                                    *)

\* add_event_code_hash fails (mutant: it does not look at the type).
Clashes_Never(k) == FALSE
Clashes(k) == \E x \in codes : x.code = world.code[k] /\ x.type # Type[k]

\* process_event_configuration, add_*_event_configuration: k, with the end
\* timestamp e that its contract had when it was read.
AddConfiguration(k, e) ==
  LET registers == k \in world.served /\ ~Expired(k, e, now) /\ ~Clashes(k)
      isNew == registers /\ k \notin active
  IN  /\ codes' = IF registers THEN codes \cup {[code |-> world.code[k], type |-> Type[k]]}
                               ELSE codes
      /\ active' = IF isNew THEN active \cup {k} ELSE active
      /\ known' = IF isNew THEN [known EXCEPT ![k] = e] ELSE known

-----------------------------------------------------------------------------
(* Startup                                                                   *)

\* get_all_configurations takes the lock and asks for the accounts.
Lock ==
  /\ phase = "observing"
  /\ phase' = "locked"
  /\ UNCHANGED <<contractVars, stateVars, queueVars, snap, toVisit, task, gc>>

\* One connector of the snapshot.  It is not added if its account is missing.
Discover(c) ==
  /\ phase = "discovering" /\ c \in toVisit
  /\ toVisit' = toVisit \ {c}
  /\ connectors' = IF snap.conn[c] = "announced" THEN connectors ELSE connectors \cup {c}
  /\ LET k == world.target[c]
     IN  IF snap.conn[c] = "enabled" /\ k \in snap.exists
         THEN AddConfiguration(k, snap.end[k])
         ELSE UNCHANGED <<active, known, codes>>
  /\ UNCHANGED <<contractVars, queueVars, phase, snap, task, gc>>

AllVisited == toVisit = {}

Unlock ==
  /\ phase = "discovering" /\ AllVisited
  /\ phase' = "discovered"
  /\ snap' = Nothing
  /\ UNCHANGED <<contractVars, stateVars, queueVars, toVisit, task, gc>>

\* get_all_events holds the lock for reading (see EventVoting); then the
\* collection of expired configurations is started.
StartScan ==
  /\ phase = "discovered"
  /\ phase' = "scanning"
  /\ UNCHANGED <<contractVars, stateVars, queueVars, snap, toVisit, task, gc>>

EndScan ==
  /\ phase = "scanning"
  /\ phase' = "running"
  /\ UNCHANGED <<contractVars, stateVars, queueVars, snap, toVisit, task, gc>>

-----------------------------------------------------------------------------
(* Handlers                                                                  *)

\* The check of a connector that was just deployed (mutant: it is left to the
\* transaction that enables it).
CheckOfNew_Later(c) == Idle
CheckOfNew(c) == [Idle EXCEPT !.pc = "connector", !.conn = c]

\* process_bridge_event.
HandleDeployed ==
  /\ bridgeQ # <<>> /\ MayWrite
  /\ bridgeQ' = Tail(bridgeQ)
  /\ LET c == Head(bridgeQ)
     IN  IF c \in connectors
         THEN UNCHANGED <<connectors, task>>
         ELSE /\ connectors' = connectors \cup {c}
              /\ task' = [task EXCEPT ![c] = CheckOfNew(c)]
  /\ UNCHANGED <<contractVars, active, known, codes, connQ, cfgQ, startVars, gc>>

\* process_connector_event: the listener waits for the check (mutant: an enabled
\* connector is taken to have been checked).
CheckOfEnabled_Never(c) == Idle
CheckOfEnabled(c) == [Idle EXCEPT !.pc = "connector", !.conn = c]

HandleEnable ==
  /\ connQ # <<>> /\ task[Listener].pc = "idle"
  /\ connQ' = Tail(connQ)
  /\ task' = [task EXCEPT ![Listener] = CheckOfEnabled(Head(connQ))]
  /\ UNCHANGED <<contractVars, stateVars, bridgeQ, cfgQ, startVars, gc>>

\* The end timestamp after SetEndTimestamp.
NewEnd(k, e) == e

\* process_*_event_configuration_event.
HandleSetEnd ==
  /\ cfgQ # <<>> /\ MayWrite
  /\ cfgQ' = Tail(cfgQ)
  /\ LET n == Head(cfgQ)
     IN  known' = IF n.cfg \in active THEN [known EXCEPT ![n.cfg] = NewEnd(n.cfg, n.end)]
                                      ELSE known
  /\ UNCHANGED <<contractVars, connectors, active, codes, bridgeQ, connQ, startVars,
                 task, gc>>

-----------------------------------------------------------------------------
(* check_connector_contract                                                  *)

\* The state of the connector is found.
CheckConnector(t) ==
  /\ task[t].pc = "connector"
  /\ LET state == conn[task[t].conn]
     IN  \/ state = "enabled" /\ task' = [task EXCEPT ![t].pc = "config"]
         \/ state = "disabled" /\ task' = [task EXCEPT ![t] = Idle]
  /\ UNCHANGED <<contractVars, stateVars, queueVars, startVars, gc>>

\* The state of its configuration is found.
CheckConfig(t) ==
  /\ task[t].pc = "config"
  /\ LET k == world.target[task[t].conn]
     IN  k \in exists /\ task' = [task EXCEPT ![t].pc = "add", ![t].end = end[k]]
  /\ UNCHANGED <<contractVars, stateVars, queueVars, startVars, gc>>

\* The lock is taken.
AddChecked(t) ==
  /\ task[t].pc = "add" /\ MayWrite
  /\ AddConfiguration(world.target[task[t].conn], task[t].end)
  /\ task' = [task EXCEPT ![t] = Idle]
  /\ UNCHANGED <<contractVars, connectors, queueVars, startVars, gc>>

-----------------------------------------------------------------------------
(* start_event_configurations_gc                                             *)

Doomed(t) == {k \in active : Expired(k, known[k], t)}

\* Something has expired: wait for a block.
GcCheck ==
  /\ phase = "running" /\ gc.pc = "sleep" /\ Doomed(now) # {}
  /\ gc' = [gc EXCEPT !.pc = "wait"]
  /\ UNCHANGED <<contractVars, stateVars, queueVars, startVars, task>>

\* After a shard state of the block was not to be had (mutant: the loop ends).
AfterFailure_Off == [pc |-> "off", time |-> 0]
AfterFailure == [pc |-> "sleep", time |-> 0]

GcFails ==
  /\ gc.pc = "collect"
  /\ gc' = AfterFailure
  /\ UNCHANGED <<contractVars, stateVars, queueVars, startVars, task>>

GcCollect ==
  /\ gc.pc = "collect" /\ MayWrite
  /\ active' = active \ Doomed(gc.time)
  /\ known' = [k \in Configs |-> IF k \in active' THEN known[k] ELSE 0]
  /\ gc' = [pc |-> "sleep", time |-> 0]
  /\ UNCHANGED <<contractVars, connectors, codes, queueVars, startVars, task>>

-----------------------------------------------------------------------------
Init ==
  /\ world \in Worlds
  /\ now = 1
  /\ conn \in [Connectors -> ConnStates]
  /\ exists \in SUBSET Configs
  /\ end = [k \in Configs |-> 0]
  /\ toggles = 0 /\ ends = [k \in Configs |-> 0]
  /\ phase = "observing" /\ toVisit = {}
  /\ snap = Nothing
  /\ connectors = {} /\ active = {} /\ codes = {}
  /\ known = [k \in Configs |-> 0]
  /\ bridgeQ = <<>> /\ connQ = <<>> /\ cfgQ = <<>>
  /\ task = [t \in Tids |-> Idle]
  /\ gc = [pc |-> "sleep", time |-> 0]

NextBlock == \E time \in {now, now + 1} : time <= MaxTime /\ McBlock(time)
Startup == Lock \/ (\E c \in Connectors : Discover(c)) \/ Unlock \/ StartScan \/ EndScan
CheckStep(t) == CheckConnector(t) \/ CheckConfig(t) \/ AddChecked(t)

Next ==
  \/ \E c \in Connectors : Announce(c) \/ Create(c) \/ Enable(c) \/ Disable(c)
  \/ \E k \in Configs : DeployConfig(k) \/ \E e \in 0 .. MaxTime : SetEnd(k, e)
  \/ NextBlock \/ Startup
  \/ HandleDeployed \/ HandleEnable \/ HandleSetEnd
  \/ \E t \in Tids : CheckStep(t)
  \/ GcCheck \/ GcFails \/ GcCollect

Spec == Init /\ [][Next]_vars

\* The runtime polls listeners and tasks; there are always further blocks; an
\* announced connector and a configuration that is named by one are deployed in
\* the end; and the node does not always fail to give a shard state.
FairSpec ==
  /\ Spec
  /\ WF_vars(NextBlock) /\ WF_vars(Startup)
  /\ WF_vars(HandleDeployed) /\ WF_vars(HandleEnable) /\ WF_vars(HandleSetEnd)
  /\ \A t \in Tids : WF_vars(CheckStep(t))
  /\ WF_vars(GcCheck) /\ SF_vars(GcCollect)
  /\ \A c \in Connectors : WF_vars(Create(c))
  /\ \A k \in Configs : WF_vars(DeployConfig(k))

-----------------------------------------------------------------------------
(* Properties                                                                *)

Snapshot == [conn : [Connectors -> ConnStates], exists : SUBSET Configs, end : [Configs -> Nat]]

TypeOK ==
  /\ world \in Worlds
  /\ now \in Nat /\ toggles \in Nat /\ ends \in [Configs -> Nat]
  /\ conn \in [Connectors -> ConnStates]
  /\ exists \subseteq Configs
  /\ end \in [Configs -> Nat]
  /\ phase \in Phases
  /\ snap \in Snapshot
  /\ toVisit \subseteq Connectors
  /\ toVisit # {} => phase = "discovering"
  /\ connectors \subseteq Connectors
  /\ active \subseteq Configs
  /\ known \in [Configs -> Nat]
  /\ codes \subseteq [code : Codes, type : Types]
  /\ bridgeQ \in Seq(Connectors) /\ connQ \in Seq(Connectors)
  /\ cfgQ \in Seq([cfg : Configs, end : Nat])
  /\ task \in [Tids -> Task]
  /\ \A t \in Tids : task[t].pc # "idle" => task[t].conn \in Connectors
  /\ \A c \in Connectors : task[c].pc # "idle" => task[c].conn = c
  /\ gc \in Gc

\* A configuration that this relay should follow: its end was never set, its network is
\* served, and its event code is not in use for another type.
Wanted(k) == k \in exists /\ ends[k] = 0 /\ k \in world.served /\ ~Clashes(k)

Follows(c) ==
  \/ world.target[c] \in active
  \/ c \in ToSet(bridgeQ) \/ c \in ToSet(connQ)
  \/ \E t \in Tids : task[t].pc # "idle" /\ task[t].conn = c

\* "Lock state before other logic to make sure that all events will be queued in
\* their handlers": once the configurations are read, no enabled connector is
\* overlooked, however it was announced, created, disabled and enabled.
Tracked ==
  phase \in {"discovered", "scanning", "running"} =>
    \A c \in Connectors : conn[c] = "enabled" /\ Wanted(world.target[c]) => Follows(c)

\* The registry that the startup scan goes by has the event code of every active
\* configuration, and one type for each code.
RegistryCovers ==
  /\ \A k \in active : [code |-> world.code[k], type |-> Type[k]] \in codes
  /\ \A x, y \in codes : x.code = y.code => x = y

\* The relay knows when a configuration ends, up to what is in the channel.
KnownIsCurrent ==
  \A k \in active : \/ known[k] = end[k]
                   \/ [cfg |-> k, end |-> end[k]] \in ToSet(cfgQ)

\* A configuration is dropped only after its end, unless its end was put off and
\* the relay has yet to read so.
NoEarlyRemoval ==
  [][\A k \in active \ active' :
       end[k] \in 1 .. now - 1 \/ \E n \in ToSet(cfgQ) : n.cfg = k]_vars

\* A configuration that has ended is dropped.
EndedIsDropped ==
  \A k \in {j \in Configs : Type[j] # "EthTon"} :
    (k \in active /\ Expired(k, end[k], now)) ~> (k \notin active \/ ~Expired(k, end[k], now))

\* A connector that is enabled has its configuration followed in the end.
EnabledIsFollowed ==
  \A c \in Connectors :
    (phase = "running" /\ conn[c] = "enabled" /\ Wanted(world.target[c]))
      ~> (world.target[c] \in active \/ conn[c] # "enabled" \/ ~Wanted(world.target[c]))
================================================================================
