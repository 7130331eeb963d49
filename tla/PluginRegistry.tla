--------------------------- MODULE PluginRegistry ---------------------------
(***************************************************************************)
(* openframe/core/plugins/registry.py: the registration list and the       *)
(* lifecycle calls of one PluginRegistry.                                  *)
(*                                                                         *)
(* A lifecycle call runs in an asyncio task and can be interleaved with    *)
(* others only where it awaits a port's initialize() or shutdown(): what   *)
(* the code does from one await to the next is one step here.  Both loops  *)
(* keep an index into a list: initialize_all goes up the live `_plugins`,  *)
(* rollback and shutdown_all go down the list object that `_initialized`   *)
(* named when the loop began.                                              *)
(*                                                                         *)
(* The ports are external.  A port holds resources (`held`) from the end   *)
(* of a successful initialize() until its shutdown() has returned or       *)
(* raised; a shutdown() that is cancelled may not have released them.      *)
(***************************************************************************)
EXTENDS Naturals, SequencesExt

CONSTANTS
  Clients,         \* tasks that make lifecycle calls
  Ports,           \* port objects
  PortName,        \* the name of each port; two ports may bear the same
  CapabilityOf,    \* the capability of each port
  OwnInitTimeout,  \* ports registered with an init_timeout of their own
  DefaultTimeout,  \* whether the registry has a default_init_timeout
  CalledOnce,      \* the application initializes only while nothing is up
  MayCancel        \* whether a running lifecycle call may be cancelled

ASSUME RegistryAssumption ==
  /\ {"KeyError", "AmbiguousCapabilityError"} \cap Ports = {}
  /\ OwnInitTimeout \subseteq Ports
  /\ {DefaultTimeout, CalledOnce, MayCancel} \subseteq BOOLEAN

VARIABLES
  plugins,      \* _plugins, in registration order
  initialized,  \* _initialized
  pc,           \* where each client's lifecycle call is suspended
  pos,          \* its index into the list it iterates over
  batch,        \* the list that a reversed() loop goes down
  outcome,      \* how its last lifecycle call ended
  held          \* the ports that hold resources

calls == <<pc, pos, batch, outcome>>
registryVars == <<plugins, initialized, pc, pos, batch, outcome, held>>

Capabilities == {CapabilityOf[p] : p \in Ports}

Idle == {t \in Clients : pc[t] = "idle"}

-----------------------------------------------------------------------------
(***************************************************************************)
(* Registration and lookup.                                                *)
(***************************************************************************)
NameTaken(n) == \E i \in DOMAIN plugins : PortName[plugins[i]] = n

Register(p) ==
  /\ ~NameTaken(PortName[p])    \* DuplicatePluginError otherwise
  /\ plugins' = Append(plugins, p)
  /\ UNCHANGED <<initialized, calls, held>>

\* The ports that get_all lists, by their position in the registration order.
GetAll(c) == {i \in DOMAIN plugins : CapabilityOf[plugins[i]] = c}

\* Fault: ports kept in a map by capability, where the last one wins.
GetLast(c) == IF GetAll(c) = {} THEN "KeyError" ELSE plugins[Max(GetAll(c))]

\* get: KeyError, AmbiguousCapabilityError, or the one port.
Get(c) ==
  CASE GetAll(c) = {} -> "KeyError"
    [] \E i, j \in GetAll(c) : i # j -> "AmbiguousCapabilityError"
    [] OTHER -> plugins[CHOOSE i \in GetAll(c) : TRUE]

\* list_plugins reports a port by name, INITIALIZED or REGISTERED.
ReportedInitialized(p) ==
  \E i \in DOMAIN initialized : PortName[initialized[i]] = PortName[p]

\* Fault: the registry's default is not consulted.
HasTimeoutOwnOnly(p) == p \in OwnInitTimeout

\* The timeout around plugin.initialize(): the port's own or the default.
HasTimeout(p) == p \in OwnInitTimeout \/ DefaultTimeout

-----------------------------------------------------------------------------
(***************************************************************************)
(* Lifecycle calls.                                                        *)
(***************************************************************************)
Suspend(t, where, i, list) ==
  /\ pc' = [pc EXCEPT ![t] = where]
  /\ pos' = [pos EXCEPT ![t] = i]
  /\ batch' = [batch EXCEPT ![t] = list]
  /\ outcome' = [outcome EXCEPT ![t] = "none"]

End(t, how) ==
  /\ pc' = [pc EXCEPT ![t] = "idle"]
  /\ pos' = [pos EXCEPT ![t] = 0]
  /\ batch' = [batch EXCEPT ![t] = <<>>]
  /\ outcome' = [outcome EXCEPT ![t] = how]

\* initialize_all, called while `list` is registered.
BeginInitialize(t, list) ==
  /\ pc[t] = "idle"
  /\ CalledOnce => held = {}
  /\ initialized' = <<>>
  /\ IF list = <<>>
     THEN End(t, "returned")
     ELSE Suspend(t, "initializing", 1, <<>>)
  /\ UNCHANGED held

InitializeAll(t) ==
  /\ BeginInitialize(t, plugins)
  /\ UNCHANGED plugins

InitOk(t) ==
  /\ pc[t] = "initializing"
  /\ held' = held \cup {plugins[pos[t]]}
  /\ initialized' = Append(initialized, plugins[pos[t]])
  /\ IF pos[t] < Len(plugins)
     THEN Suspend(t, "initializing", pos[t] + 1, <<>>)
     ELSE End(t, "returned")
  /\ UNCHANGED plugins

\* Fault: a failed start is recorded and then taken for a complete one.
RollBackSwallows(t) ==
  /\ pc[t] = "initializing"
  /\ End(t, "returned")
  /\ UNCHANGED <<plugins, initialized, held>>

\* Fault: a failed start is only reported.
RollBackOmitted(t) ==
  /\ pc[t] = "initializing"
  /\ End(t, "raised")
  /\ UNCHANGED <<plugins, initialized, held>>

\* Fault: the rollback walks the list forwards.
RollBackForwards(t) ==
  /\ pc[t] = "initializing"
  /\ IF initialized = <<>>
     THEN End(t, "raised")
     ELSE Suspend(t, "rollingBack", Len(initialized), Reverse(initialized))
  /\ UNCHANGED <<plugins, initialized, held>>

\* Fault: the rollback begins at the port that failed.
RollBackOffByOne(t) ==
  /\ pc[t] = "initializing"
  /\ IF initialized = <<>>
     THEN End(t, "raised")
     ELSE Suspend(t, "rollingBack", pos[t], initialized)
  /\ UNCHANGED <<plugins, initialized, held>>

\* The except branch of initialize_all: roll back what _initialized lists,
\* then raise.  _initialized itself keeps its entries.
RollBack(t) ==
  /\ pc[t] = "initializing"
  /\ IF initialized = <<>>
     THEN End(t, "raised")
     ELSE Suspend(t, "rollingBack", Len(initialized), initialized)
  /\ UNCHANGED <<plugins, initialized, held>>

InitRaises(t) == RollBack(t)

InitTimesOut(t) ==
  /\ pc[t] = "initializing"
  /\ HasTimeout(plugins[pos[t]])
  /\ RollBack(t)

\* Fault: _initialized is emptied before the ports are awaited.
ShutdownAllClearsFirst(t) ==
  /\ pc[t] = "idle"
  /\ IF initialized = <<>>
     THEN End(t, "returned")
     ELSE Suspend(t, "shuttingDown", Len(initialized), initialized)
  /\ initialized' = <<>>
  /\ UNCHANGED <<plugins, held>>

ShutdownAll(t) ==
  /\ pc[t] = "idle"
  /\ IF initialized = <<>>
     THEN End(t, "returned")
     ELSE Suspend(t, "shuttingDown", Len(initialized), initialized)
  /\ UNCHANGED <<plugins, initialized, held>>

\* A shutdown() ends, by returning or by an Exception that is recorded and
\* swallowed; only shutdown_all empties _initialized after its last port.
PortDown(t) ==
  /\ pc[t] \in {"rollingBack", "shuttingDown"}
  /\ held' = held \ {batch[t][pos[t]]}
  /\ IF pos[t] > 1
     THEN /\ Suspend(t, pc[t], pos[t] - 1, batch[t])
          /\ UNCHANGED initialized
     ELSE \/ /\ pc[t] = "rollingBack"
             /\ End(t, "raised")
             /\ UNCHANGED initialized
          \/ /\ pc[t] = "shuttingDown"
             /\ End(t, "returned")
             /\ initialized' = <<>>
  /\ UNCHANGED plugins

\* CancelledError is not an Exception: it leaves the loops at once.
Cancelled(t) ==
  /\ MayCancel
  /\ pc[t] # "idle"
  /\ End(t, "cancelled")
  /\ UNCHANGED <<plugins, initialized, held>>

-----------------------------------------------------------------------------
NothingStarted ==
  /\ initialized = <<>>
  /\ pc = [t \in Clients |-> "idle"]
  /\ pos = [t \in Clients |-> 0]
  /\ batch = [t \in Clients |-> <<>>]
  /\ outcome = [t \in Clients |-> "none"]
  /\ held = {}

Init == plugins = <<>> /\ NothingStarted

ClientStep(t) ==
  \/ InitializeAll(t)
  \/ InitOk(t)
  \/ InitRaises(t)
  \/ InitTimesOut(t)
  \/ ShutdownAll(t)
  \/ PortDown(t)
  \/ Cancelled(t)

Next ==
  \/ \E p \in Ports : Register(p)
  \/ \E t \in Clients : ClientStep(t)

Spec == Init /\ [][Next]_registryVars

\* A timeout that is set fires, and shutdown() comes back; an initialize()
\* without a timeout may hang for ever.
FairSpec ==
  /\ Spec
  /\ \A t \in Clients : WF_registryVars(InitTimesOut(t)) /\ WF_registryVars(PortDown(t))

-----------------------------------------------------------------------------
\* The last conjunct: no loop ever indexes outside the list it walks.
TypeOK ==
  /\ plugins \in Seq(Ports)
  /\ initialized \in Seq(Ports)
  /\ pc \in [Clients -> {"idle", "initializing", "rollingBack", "shuttingDown"}]
  /\ pos \in [Clients -> Nat]
  /\ batch \in [Clients -> Seq(Ports)]
  /\ outcome \in [Clients -> {"none", "returned", "raised", "cancelled"}]
  /\ held \subseteq Ports
  /\ \A t \in Clients :
       /\ pc[t] = "initializing" => pos[t] \in 1..Len(plugins)
       /\ pc[t] \in {"rollingBack", "shuttingDown"} => pos[t] \in 1..Len(batch[t])

\* No two registered ports share a name, so that the maps keyed by name
\* (configs, timeouts, health snapshots) never mix two ports up.
UniqueNames ==
  \A i, j \in DOMAIN plugins :
    PortName[plugins[i]] = PortName[plugins[j]] => i = j

\* A lookup that has once resolved to a port never silently resolves to
\* another: it can only become ambiguous (PluginRegistry.get).
LookupIsStable ==
  [][\A c \in Capabilities :
       Get(c) \in Ports => Get(c)' \in {Get(c), "AmbiguousCapabilityError"}]_registryVars

\* Every port that holds resources is one the next shutdown_all will reach,
\* through failures, rollbacks and cancellations of a single client's calls.
NothingForgotten == held \subseteq Range(initialized)

\* initialize_all is all or nothing: when it has raised, no port that it had
\* brought up is left up.
RollbackLeavesNothing ==
  (\A t \in Clients : pc[t] = "idle" /\ outcome[t] = "raised") => held = {}

\* With a timeout on every port no initialize_all hangs: it returns, or the
\* rollback of what came up before the port that hung comes to its end.
StartEnds == \A t \in Clients : (pc[t] = "initializing") ~> (pc[t] = "idle")

-----------------------------------------------------------------------------
\* What registry.py says and the code does not keep.

\* list_plugins reports "the registry's last known lifecycle state": between
\* calls a port it reports INITIALIZED is one that is up.
StatusIsTruthful ==
  (Idle = Clients) =>
    \A i \in DOMAIN plugins : ReportedInitialized(plugins[i]) => plugins[i] \in held
=============================================================================
