--------------------------- MODULE RegistryService ---------------------------
(***************************************************************************)
(* openframe/core/plugins/registry.py, next to the lifecycle calls: the    *)
(* context that set_context puts in place and initialize_all hands to each *)
(* port, and a monitor that calls health_all in a task of its own, while   *)
(* ports are registered, come up, fail and go down.                        *)
(*                                                                         *)
(* health_all awaits a port per iteration over the live list of ports.     *)
(* Of what a port answers the status is kept, not its message and details. *)
(* That it answers at all is not assumed.                                  *)
(***************************************************************************)
EXTENDS PluginRegistryRefinement

CONSTANTS
  Principals,  \* the callers that set_context may be given
  Tenants,     \* the tenants
  Answers      \* the statuses that the ports answer health() with

PluginStatus ==
  {"DISCOVERED", "REGISTERED", "CONFIGURED", "INITIALIZED", "READY",
   "STOPPING", "STOPPED", "FAILED"}

ASSUME ContextAssumption == "None" \notin Principals \cup Tenants

ASSUME AnswersAssumption == Answers \subseteq PluginStatus

VARIABLES
  context,  \* _principal and _tenant
  given,    \* the PluginContext each port was given when it was last initialized
  settled,  \* history: set_context was not called during the last start
  asked,    \* health_all: the position of the port it awaits, 0 when idle
  report    \* its result so far: the status under each name

health == <<asked, report>>
serviceVars == <<registryVars, context, given, settled, health>>

\* The half of a PluginContext that names the principal and the tenant.
PluginContext ==
  [principal : Principals \cup {"None"}, tenant : Tenants \cup {"None"}]

NoContext == [principal |-> "None", tenant |-> "None"]

NameOf(i) == PortName[plugins[i]]

Starting == {t \in Clients : pc[t] = "initializing"}

ServiceInit ==
  /\ Init
  /\ context = NoContext
  /\ given = [p \in Ports |-> NoContext]
  /\ settled = TRUE
  /\ asked = 0
  /\ report = <<>>

-----------------------------------------------------------------------------
(***************************************************************************)
(* Contexts.                                                               *)
(***************************************************************************)
\* set_context replaces both halves: one it is not given becomes None.
SetContext(c) ==
  /\ c # context
  /\ context' = c
  /\ settled' = (settled /\ Starting = {})
  /\ UNCHANGED <<registryVars, given, health>>

\* Fault: the context of a port is built for its first start and kept.
GiveContextOnce ==
  given' = [p \in Ports |->
    IF given[p] = NoContext /\ \E t \in Starting' : plugins[pos'[t]] = p
    THEN context ELSE given[p]]

\* The PluginContext that initialize_all builds for the port it awaits next.
GiveContext ==
  given' = [p \in Ports |->
    IF \E t \in Starting' : pos'[t] # pos[t] /\ plugins[pos'[t]] = p
    THEN context ELSE given[p]]

FollowStart ==
  settled' = (settled \/ \E t \in Starting' : pc[t] = "idle")

Lifecycle(t) ==
  /\ ClientStep(t)
  /\ GiveContext
  /\ FollowStart
  /\ UNCHANGED <<context, health>>

RegisterPort(p) ==
  /\ Register(p)
  /\ UNCHANGED <<context, given, settled, health>>

-----------------------------------------------------------------------------
(***************************************************************************)
(* health_all.                                                             *)
(***************************************************************************)
BeginHealthAll ==
  /\ asked = 0
  /\ report' = <<>>
  /\ asked' = IF plugins = <<>> THEN 0 ELSE 1
  /\ UNCHANGED <<registryVars, context, given, settled>>

Note(status) ==
  report' = [n \in DOMAIN report \cup {NameOf(asked)} |->
               IF n = NameOf(asked) THEN status ELSE report[n]]

\* Fault: the loop goes over the ports that are initialized.
PortAnswersIfInitialized(status) ==
  /\ asked # 0
  /\ Note(status)
  /\ asked' = IF asked < Len(initialized) THEN asked + 1 ELSE 0
  /\ UNCHANGED <<registryVars, context, given, settled>>

\* The port's health() returns, ...
PortAnswers(status) ==
  /\ asked # 0
  /\ Note(status)
  /\ asked' = IF asked < Len(plugins) THEN asked + 1 ELSE 0
  /\ UNCHANGED <<registryVars, context, given, settled>>

\* ... or raises, which it must not, and is FAILED.
HealthRaises == PortAnswers("FAILED")

\* The monitor is cancelled: there is no report.
HealthCancelled ==
  /\ asked # 0
  /\ asked' = 0
  /\ report' = <<>>
  /\ UNCHANGED <<registryVars, context, given, settled>>

-----------------------------------------------------------------------------
ServiceNext ==
  \/ \E p \in Ports : RegisterPort(p)
  \/ \E t \in Clients : Lifecycle(t)
  \/ \E c \in PluginContext : SetContext(c)
  \/ BeginHealthAll
  \/ \E status \in Answers : PortAnswers(status)
  \/ HealthRaises
  \/ HealthCancelled

ServiceSpec == ServiceInit /\ [][ServiceNext]_serviceVars

\* As in FairSpec of PluginRegistry; the monitor may stop, health() may hang.
FairServiceSpec ==
  /\ ServiceSpec
  /\ \A t \in Clients :
       /\ WF_serviceVars(Lifecycle(t) /\ InitTimesOut(t))
       /\ WF_serviceVars(Lifecycle(t) /\ PortDown(t))

-----------------------------------------------------------------------------
\* The ports of one start are given one context, and none keeps the principal
\* or tenant of an earlier start, unless set_context is called while the start
\* runs (initialize_all reads it anew for every port).
StartsUnderOneContext == settled => \A p, q \in held : given[p] = given[q]

\* The report of health_all covers every port that is registered when it
\* returns, those that were registered while it waited for others included.
ReportIsComplete ==
  [][(asked # 0 /\ asked' = 0 /\ report' # <<>>) =>
        DOMAIN report' = {PortName[p] : p \in Range(plugins)}]_serviceVars
=============================================================================
