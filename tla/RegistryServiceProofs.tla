------------------------ MODULE RegistryServiceProofs ------------------------
(***************************************************************************)
(* Theorems about RegistryService for every set of ports, principals,      *)
(* tenants and answers: what PluginRegistryProofs shows of the registry    *)
(* holds with contexts and a monitor around it, a start hands out one      *)
(* context, and a health report is complete.                               *)
(***************************************************************************)
EXTENDS RegistryService, PluginRegistryProofs

\* A step of the service is a step of the registry, or does not touch it.
LEMMA ServiceStep == [ServiceNext]_serviceVars => [Next]_registryVars
<1> SUFFICES ASSUME [ServiceNext]_serviceVars
             PROVE  [Next]_registryVars
  OBVIOUS
<1>1. ASSUME NEW p \in Ports, RegisterPort(p)
      PROVE  Next
  BY <1>1 DEF RegisterPort, Next
<1>2. ASSUME NEW t \in Clients, Lifecycle(t)
      PROVE  Next
  BY <1>2 DEF Lifecycle, Next
<1>3. CASE \/ \E c \in PluginContext : SetContext(c)
           \/ BeginHealthAll
           \/ \E status \in Answers : PortAnswers(status)
           \/ HealthRaises
           \/ HealthCancelled
           \/ UNCHANGED serviceVars
  BY <1>3
     DEF SetContext, BeginHealthAll, PortAnswers, HealthRaises, HealthCancelled, serviceVars
<1> QED
  BY <1>1, <1>2, <1>3 DEF ServiceNext

LEMMA ServiceIsRegistry == ServiceSpec => Spec
<1>1. ServiceInit => Init
  BY DEF ServiceInit
<1> QED
  BY <1>1, ServiceStep, PTL DEF ServiceSpec, Spec

LEMMA ServiceTyped == ServiceSpec => []TypeOK
  BY ServiceIsRegistry, RegistryTypeCorrect, PTL

\* Every port that is up is one shutdown_all reaches, whatever contexts are set
\* and reports are made meanwhile (initialize_all, shutdown_all).
THEOREM ServiceForgetsNothing ==
  ASSUME CalledOnce
  PROVE  ServiceSpec /\ []NoOverlap => []NothingForgotten
  BY ServiceIsRegistry, NoPortIsForgotten, PTL

\* A start that raises leaves no port up (initialize_all).
THEOREM ServiceStartIsAllOrNothing ==
  ASSUME CalledOnce
  PROVE  ServiceSpec /\ []NoOverlap => []RollbackLeavesNothing
  BY ServiceIsRegistry, StartIsAllOrNothing, PTL

\* Ports come up in registration order and go down in the reverse order.
THEOREM ServiceIsAStack ==
  ASSUME CalledOnce
  PROVE  ServiceSpec /\ []NoOverlap => ImplementsStack
  BY ServiceIsRegistry, RegistryIsAStack, PTL

\* A lookup that has resolved to a port never resolves to another one.
THEOREM ServiceLookupsAreStable == ServiceSpec => LookupIsStable
  BY ServiceIsRegistry, LookupsAreStable, PTL

-----------------------------------------------------------------------------
(***************************************************************************)
(* One start, one context.  While a start runs that set_context has not    *)
(* disturbed, every port that is up, and the one it awaits, was given the  *)
(* context that is in place.                                               *)
(***************************************************************************)
ContextInv ==
  /\ settled \in BOOLEAN
  /\ \A t \in Clients : pc[t] = "idle" => pos[t] = 0
  /\ StartsUnderOneContext
  /\ settled =>
       \A t \in Starting : \A p \in held \cup {plugins[pos[t]]} : given[p] = context

LEMMA InitContextInv == ServiceInit => ContextInv
  BY DEF ServiceInit, Init, NothingStarted, ContextInv, StartsUnderOneContext, Starting

\* A lifecycle step after which its client does not await an initialize(): no
\* port is given a context, and what was given stays.
LEMMA NothingGiven ==
  ASSUME NoOverlap, TypeOK, ContextInv, NEW t \in Clients, ClientStep(t),
         pc'[t] # "initializing", pc'[t] = "idle" => pos'[t] = 0,
         plugins' = plugins,
         held' \subseteq held \/ (/\ pc[t] = "initializing"
                                  /\ held' \subseteq held \cup {plugins[pos[t]]}),
         held' \subseteq Ports,
         GiveContext, FollowStart, context' = context
  PROVE  ContextInv'
<1>1. \A u \in Clients : u # t => pc'[u] = pc[u] /\ pos'[u] = pos[u]
  BY OthersStay
<1>2. settled' = settled
  BY <1>1 DEF Starting, FollowStart, ContextInv
<1>3. \A p \in Ports : given'[p] = given[p]
  BY <1>1 DEF GiveContext, Starting
<1>4. \A u \in Clients : pc'[u] = "idle" => pos'[u] = 0
  BY <1>1 DEF ContextInv
<1>5. StartsUnderOneContext'
  <2> SUFFICES ASSUME settled, NEW p \in held', NEW q \in held'
               PROVE  given[p] = given[q]
    BY <1>2, <1>3 DEF StartsUnderOneContext
  <2>1. CASE held' \subseteq held
    BY <2>1 DEF ContextInv, StartsUnderOneContext
  <2>2. CASE pc[t] = "initializing" /\ held' \subseteq held \cup {plugins[pos[t]]}
    <3>1. t \in Starting
      BY <2>2 DEF Starting
    <3> QED
      BY <2>2, <3>1 DEF ContextInv
  <2> QED
    BY <2>1, <2>2
<1>6. ASSUME settled, NEW u \in Starting', NEW p \in held' \cup {plugins[pos[u]]}
      PROVE  given'[p] = context
  <2>1. u \in Starting /\ u # t /\ pos[u] \in 1..Len(plugins)
    BY <1>1, <1>6 DEF Starting, TypeOK
  <2>2. plugins[pos[u]] \in Ports
    BY <2>1 DEF TypeOK
  <2>3. pc[t] = "idle"
    BY <2>1 DEF Starting, NoOverlap
  <2>4. p \in Ports /\ p \in held \cup {plugins[pos[u]]}
    BY <1>6, <2>2, <2>3
  <2> QED
    BY <1>3, <1>6, <2>1, <2>4 DEF ContextInv
<1>7. settled' =>
        \A u \in Starting' : \A p \in held' \cup {plugins'[pos'[u]]} : given'[p] = context'
  <2>1. \A u \in Starting' : pos'[u] = pos[u]
    BY <1>1 DEF Starting
  <2> QED
    BY <1>2, <1>6, <2>1
<1> QED
  BY <1>2, <1>4, <1>5, <1>7 DEF ContextInv

LEMMA NextContextInv ==
  ASSUME CalledOnce, NoOverlap, NoOverlap', TypeOK, TypeOK', ContextInv,
         [ServiceNext]_serviceVars
  PROVE  ContextInv'
<1>1. ASSUME NEW p \in Ports, RegisterPort(p)
      PROVE  ContextInv'
  <2>1. /\ plugins' = Append(plugins, p) /\ plugins \in Seq(Ports)
        /\ UNCHANGED <<pc, pos, held, context, given, settled>>
    BY <1>1 DEF RegisterPort, Register, calls, TypeOK
  <2>2. \A t \in Starting : plugins'[pos[t]] = plugins[pos[t]]
    BY <2>1 DEF Starting, TypeOK
  <2> QED
    BY <2>1, <2>2 DEF ContextInv, StartsUnderOneContext, Starting
<1>2. ASSUME NEW t \in Clients, InitializeAll(t), GiveContext, FollowStart, context' = context
      PROVE  ContextInv'
  <2>1. /\ held = {} /\ held' = {} /\ plugins' = plugins /\ pc[t] = "idle" /\ pos[t] = 0
        /\ IF plugins = <<>> THEN End(t, "returned") ELSE Suspend(t, "initializing", 1, <<>>)
    BY <1>2 DEF InitializeAll, BeginInitialize, ContextInv
  <2>2. CASE plugins = <<>>
    <3>1. pc'[t] = "idle" /\ pos'[t] = 0
      BY <2>1, <2>2 DEF End, TypeOK
    <3> QED
      BY <1>2, <2>1, <3>1, NothingGiven DEF ClientStep
  <2>3. CASE plugins # <<>>
    <3>1. pc'[t] = "initializing" /\ pos'[t] = 1
      BY <2>1, <2>3 DEF Suspend, TypeOK
    <3>2. plugins[1] \in Ports
      BY <2>3 DEF TypeOK
    <3>3. given'[plugins[1]] = context
      BY <1>2, <2>1, <3>1, <3>2 DEF GiveContext, Starting
    <3>4. \A u \in Clients : u # t => pc'[u] = "idle" /\ pos'[u] = 0
      BY <1>2, <3>1, OthersStay DEF ClientStep, NoOverlap, ContextInv
    <3>5. Starting' = {t} /\ settled' \in BOOLEAN
      <4>1. Starting' = {t}
        BY <3>1, <3>4 DEF Starting
      <4>2. settled' = TRUE
        BY <1>2, <2>1, <4>1 DEF FollowStart
      <4> QED
        BY <4>1, <4>2
    <3>6. \A u \in Clients : pc'[u] = "idle" => pos'[u] = 0
      BY <3>1, <3>4
    <3>7. \A u \in Starting' : \A p \in held' \cup {plugins'[pos'[u]]} : given'[p] = context'
      BY <1>2, <2>1, <3>1, <3>3, <3>5
    <3>8. StartsUnderOneContext'
      BY <2>1 DEF StartsUnderOneContext
    <3> QED
      BY <3>5, <3>6, <3>7, <3>8 DEF ContextInv
  <2> QED
    BY <2>2, <2>3
<1>3. ASSUME NEW t \in Clients, InitOk(t), GiveContext, FollowStart, context' = context
      PROVE  ContextInv'
  <2> DEFINE k == pos[t]
  <2>1. /\ pc[t] = "initializing" /\ held' = held \cup {plugins[k]} /\ plugins' = plugins
        /\ IF k < Len(plugins) THEN Suspend(t, "initializing", k + 1, <<>>)
                               ELSE End(t, "returned")
        /\ k \in 1..Len(plugins) /\ plugins \in Seq(Ports) /\ held' \subseteq Ports
    BY <1>3 DEF InitOk, TypeOK
  <2>2. CASE k < Len(plugins)
    <3>1. pc'[t] = "initializing" /\ pos'[t] = k + 1 /\ pos'[t] # pos[t]
      BY <2>1, <2>2 DEF Suspend, TypeOK
    <3>2. \A u \in Clients : u # t => pc[u] = "idle" /\ pc'[u] = "idle" /\ pos'[u] = 0
      BY <1>3, <2>1, OthersIdle, OthersStay DEF ClientStep, ContextInv
    <3>3. Starting = {t} /\ Starting' = {t} /\ settled' = settled
      BY <1>3, <2>1, <3>1, <3>2 DEF Starting, FollowStart, ContextInv
    <3>4. plugins[k + 1] \in Ports
      BY <2>1, <2>2
    <3>5. \A p \in Ports : given'[p] = IF p = plugins[k + 1] THEN context ELSE given[p]
      BY <1>3, <2>1, <3>1, <3>3 DEF GiveContext
    <3>6. settled => \A p \in held' \cup {plugins[k + 1]} : given'[p] = context
      BY <2>1, <3>3, <3>4, <3>5 DEF ContextInv
    <3> QED
      BY <1>3, <2>1, <3>1, <3>2, <3>3, <3>6 DEF ContextInv, StartsUnderOneContext
  <2>3. CASE ~(k < Len(plugins))
    <3>1. pc'[t] = "idle" /\ pos'[t] = 0
      BY <2>1, <2>3 DEF End, TypeOK
    <3> QED
      BY <1>3, <2>1, <3>1, NothingGiven DEF ClientStep
  <2> QED
    BY <2>2, <2>3
<1>4. ASSUME NEW t \in Clients, GiveContext, FollowStart, context' = context,
             \/ InitRaises(t) \/ InitTimesOut(t) \/ ShutdownAll(t) \/ PortDown(t)
             \/ Cancelled(t)
      PROVE  ContextInv'
  <2>1. /\ pc'[t] # "initializing" /\ (pc'[t] = "idle" => pos'[t] = 0)
        /\ held' \subseteq held /\ plugins' = plugins
    BY <1>4
       DEF InitRaises, InitTimesOut, RollBack, ShutdownAll, PortDown, Cancelled, End, Suspend,
           TypeOK
  <2> QED
    BY <1>4, <2>1, NothingGiven DEF ClientStep, TypeOK
<1>5. ASSUME NEW c \in PluginContext, SetContext(c)
      PROVE  ContextInv'
  <2>1. /\ settled' = (settled /\ Starting = {}) /\ given' = given
        /\ UNCHANGED <<plugins, pc, pos, held>>
    BY <1>5 DEF SetContext, registryVars
  <2> QED
    BY <2>1 DEF ContextInv, StartsUnderOneContext, Starting
<1>6. CASE \/ BeginHealthAll
           \/ \E status \in Answers : PortAnswers(status)
           \/ HealthRaises
           \/ HealthCancelled
           \/ UNCHANGED serviceVars
  <2>1. UNCHANGED <<plugins, pc, pos, held, context, given, settled>>
    BY <1>6
       DEF BeginHealthAll, PortAnswers, HealthRaises, HealthCancelled, serviceVars, registryVars
  <2> QED
    BY <2>1 DEF ContextInv, StartsUnderOneContext, Starting
<1>7. ASSUME NEW t \in Clients, Lifecycle(t)
      PROVE  ContextInv'
  BY <1>2, <1>3, <1>4, <1>7 DEF Lifecycle, ClientStep
<1> QED
  BY <1>1, <1>5, <1>6, <1>7 DEF ServiceNext

\* The ports of one start are given one context, and none keeps that of an
\* earlier start (initialize_all, set_context).
THEOREM OneContextPerStart ==
  ASSUME CalledOnce
  PROVE  ServiceSpec /\ []NoOverlap => []StartsUnderOneContext
<1>1. NoOverlap /\ NoOverlap' /\ TypeOK /\ TypeOK' /\ ContextInv /\ [ServiceNext]_serviceVars
        => ContextInv'
  BY NextContextInv
<1>2. ContextInv => StartsUnderOneContext
  BY DEF ContextInv
<1> QED
  BY <1>1, <1>2, InitContextInv, ServiceTyped, PTL DEF ServiceSpec

-----------------------------------------------------------------------------
(***************************************************************************)
(* Health reports, with any number of clients: while the monitor awaits    *)
(* the port at a position, the report bears the names before it.           *)
(***************************************************************************)
HealthInv ==
  /\ asked \in 0..Len(plugins)
  /\ asked # 0 => DOMAIN report = {NameOf(i) : i \in 1..(asked - 1)}

LEMMA NotedReport ==
  ASSUME NEW status, Note(status)
  PROVE  DOMAIN report' = {NameOf(asked)} \cup DOMAIN report
  BY DEF Note

LEMMA NextHealthInv ==
  TypeOK /\ HealthInv /\ [ServiceNext]_serviceVars => HealthInv'
<1> SUFFICES ASSUME TypeOK, HealthInv, [ServiceNext]_serviceVars
             PROVE  HealthInv'
  OBVIOUS
<1>1. plugins \in Seq(Ports) /\ Len(plugins) \in Nat
  BY DEF TypeOK
<1>2. ASSUME NEW p \in Ports, RegisterPort(p)
      PROVE  HealthInv'
  <2>1. plugins' = Append(plugins, p) /\ asked' = asked /\ report' = report
    BY <1>2 DEF RegisterPort, Register, health
  <2>2. Len(plugins') = Len(plugins) + 1 /\ \A i \in 1..Len(plugins) : NameOf(i)' = NameOf(i)
    BY <1>1, <2>1 DEF NameOf
  <2>3. \A i \in 1..(asked - 1) : NameOf(i)' = NameOf(i)
    BY <1>1, <2>2 DEF HealthInv
  <2>4. {NameOf(i)' : i \in 1..(asked - 1)} = {NameOf(i) : i \in 1..(asked - 1)}
    BY <2>3
  <2>5. asked' \in 0..Len(plugins')
    BY <1>1, <2>1, <2>2 DEF HealthInv
  <2>6. asked' # 0 => DOMAIN report' = {NameOf(i)' : i \in 1..(asked' - 1)}
    BY <2>1, <2>4 DEF HealthInv
  <2> QED
    BY <2>5, <2>6 DEF HealthInv
<1>3. ASSUME NEW status, PortAnswers(status)
      PROVE  HealthInv'
  <2>1. /\ asked \in 1..Len(plugins) /\ plugins' = plugins
        /\ asked' = IF asked < Len(plugins) THEN asked + 1 ELSE 0
    BY <1>1, <1>3 DEF PortAnswers, HealthInv, registryVars
  <2>2. DOMAIN report' = {NameOf(asked)} \cup {NameOf(i) : i \in 1..(asked - 1)}
    BY <1>3, <2>1, NotedReport DEF PortAnswers, HealthInv
  <2>3. 1..asked = 1..(asked - 1) \cup {asked}
    BY <1>1, <2>1
  <2>4. DOMAIN report' = {NameOf(i)' : i \in 1..asked}
    BY <2>1, <2>2, <2>3 DEF NameOf
  <2> QED
    BY <1>1, <2>1, <2>4 DEF HealthInv
<1>4. ASSUME BeginHealthAll
      PROVE  HealthInv'
  <2>1. /\ report' = <<>> /\ plugins' = plugins
        /\ asked' = IF plugins = <<>> THEN 0 ELSE 1
    BY <1>4 DEF BeginHealthAll, registryVars
  <2> QED
    BY <1>1, <2>1 DEF HealthInv
<1>5. ASSUME HealthCancelled
      PROVE  HealthInv'
  BY <1>1, <1>5 DEF HealthCancelled, HealthInv, registryVars
<1>6. ASSUME NEW t \in Clients, ClientStep(t)
      PROVE  plugins' = plugins
  BY <1>6
     DEF ClientStep, InitializeAll, InitOk, InitRaises, InitTimesOut, RollBack, ShutdownAll,
         PortDown, Cancelled
<1>7. CASE UNCHANGED <<plugins, health>>
  BY <1>7 DEF HealthInv, NameOf, health
<1>8. CASE \/ \E t \in Clients : Lifecycle(t)
           \/ \E c \in PluginContext : SetContext(c)
           \/ UNCHANGED serviceVars
  BY <1>6, <1>7, <1>8 DEF Lifecycle, SetContext, serviceVars, registryVars
<1> QED
  BY <1>2, <1>3, <1>4, <1>5, <1>8 DEF ServiceNext, HealthRaises

LEMMA StepReportsAll ==
  ASSUME TypeOK, HealthInv, [ServiceNext]_serviceVars,
         asked # 0, asked' = 0, report' # <<>>
  PROVE  DOMAIN report' = {PortName[p] : p \in Range(plugins)}
<1>1. plugins \in Seq(Ports) /\ Len(plugins) \in Nat /\ DOMAIN plugins = 1..Len(plugins)
  BY DEF TypeOK
<1>2. ASSUME NEW status, PortAnswers(status)
      PROVE  DOMAIN report' = {PortName[p] : p \in Range(plugins)}
  <2>1. asked = Len(plugins) /\ 1..asked = 1..(asked - 1) \cup {asked}
    <3>1. asked \in 1..Len(plugins) /\ Len(plugins) \in Nat
      BY <1>1 DEF HealthInv
    <3>2. ~(asked < Len(plugins))
      BY <1>2, <3>1 DEF PortAnswers
    <3>3. asked \in Nat /\ asked = Len(plugins)
      BY <3>1, <3>2
    <3>4. 1..asked = 1..(asked - 1) \cup {asked}
      BY <3>1, <3>3
    <3> QED
      BY <3>3, <3>4
  <2>2. DOMAIN report' = {NameOf(i) : i \in DOMAIN plugins}
    <3>1. DOMAIN report' = {NameOf(asked)} \cup {NameOf(i) : i \in 1..(asked - 1)}
      BY <1>2, NotedReport DEF PortAnswers, HealthInv
    <3> QED
      BY <1>1, <2>1, <3>1
  <2> QED
    BY <2>2 DEF NameOf, Range
<1>3. CASE \/ \E status \in Answers : PortAnswers(status)
           \/ HealthRaises
  BY <1>2, <1>3 DEF HealthRaises
<1>4. ASSUME NEW p \in Ports, RegisterPort(p)
      PROVE  FALSE
  BY <1>4 DEF RegisterPort, health
<1>5. ASSUME NEW t \in Clients, Lifecycle(t)
      PROVE  FALSE
  BY <1>5 DEF Lifecycle, health
<1>6. ASSUME NEW c \in PluginContext, SetContext(c)
      PROVE  FALSE
  BY <1>6 DEF SetContext, health
<1>7. ~BeginHealthAll /\ ~HealthCancelled
  BY DEF BeginHealthAll, HealthCancelled
<1>8. CASE UNCHANGED serviceVars
  BY <1>8 DEF serviceVars, health
<1> QED
  BY <1>3, <1>4, <1>5, <1>6, <1>7, <1>8 DEF ServiceNext

\* The report of health_all covers every port that is registered when it
\* returns, for any number of overlapping lifecycle calls (health_all).
THEOREM ReportsAreComplete == ServiceSpec => ReportIsComplete
<1>1. ServiceInit => HealthInv
  <2> SUFFICES ASSUME ServiceInit
               PROVE  HealthInv
    OBVIOUS
  <2>1. asked = 0 /\ plugins = <<>>
    BY DEF ServiceInit, Init
  <2> QED
    BY <2>1 DEF HealthInv
<1>2. TypeOK /\ HealthInv /\ [ServiceNext]_serviceVars
        => [(asked # 0 /\ asked' = 0 /\ report' # <<>>) =>
              DOMAIN report' = {PortName[p] : p \in Range(plugins)}]_serviceVars
  BY StepReportsAll
<1> QED
  BY <1>1, <1>2, NextHealthInv, ServiceTyped, PTL DEF ServiceSpec, ReportIsComplete
=============================================================================
