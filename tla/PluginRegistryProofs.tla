------------------------ MODULE PluginRegistryProofs ------------------------
(***************************************************************************)
(* Theorems about PluginRegistry for every set of ports and names: what    *)
(* holds however lifecycle calls overlap, and what holds of calls that do  *)
(* not overlap, started only while nothing is up.                          *)
(***************************************************************************)
EXTENDS PluginRegistryRefinement, TLAPS

(***************************************************************************)
(* Any number of clients.                                                  *)
(***************************************************************************)
LEMMA EndTyped ==
  ASSUME TypeOK,
         NEW t \in Clients, NEW how \in {"returned", "raised", "cancelled"},
         End(t, how),
         plugins' = plugins, initialized' \in Seq(Ports), held' \subseteq Ports
  PROVE  TypeOK'
<1> USE DEF TypeOK
<1>1. /\ pc' \in [Clients -> {"idle", "initializing", "rollingBack", "shuttingDown"}]
      /\ pos' \in [Clients -> Nat]
      /\ batch' \in [Clients -> Seq(Ports)]
      /\ outcome' \in [Clients -> {"none", "returned", "raised", "cancelled"}]
  BY DEF End
<1>2. ASSUME NEW u \in Clients
      PROVE  /\ pc'[u] = "initializing" => pos'[u] \in 1..Len(plugins')
             /\ pc'[u] \in {"rollingBack", "shuttingDown"} => pos'[u] \in 1..Len(batch'[u])
  <2>1. CASE u = t
    BY <2>1 DEF End
  <2>2. CASE u # t
    BY <2>2 DEF End
  <2>3. QED
    BY <2>1, <2>2
<1>3. QED
  BY <1>1, <1>2

LEMMA SuspendTyped ==
  ASSUME TypeOK,
         NEW t \in Clients, NEW i \in Nat, NEW list \in Seq(Ports),
         NEW where \in {"initializing", "rollingBack", "shuttingDown"},
         where = "initializing" => i \in 1..Len(plugins),
         where # "initializing" => i \in 1..Len(list),
         Suspend(t, where, i, list),
         plugins' = plugins, initialized' \in Seq(Ports), held' \subseteq Ports
  PROVE  TypeOK'
<1> USE DEF TypeOK
<1>1. /\ pc' \in [Clients -> {"idle", "initializing", "rollingBack", "shuttingDown"}]
      /\ pos' \in [Clients -> Nat]
      /\ batch' \in [Clients -> Seq(Ports)]
      /\ outcome' \in [Clients -> {"none", "returned", "raised", "cancelled"}]
  BY DEF Suspend
<1>2. ASSUME NEW u \in Clients
      PROVE  /\ pc'[u] = "initializing" => pos'[u] \in 1..Len(plugins')
             /\ pc'[u] \in {"rollingBack", "shuttingDown"} => pos'[u] \in 1..Len(batch'[u])
  <2>1. CASE u = t
    BY <2>1 DEF Suspend
  <2>2. CASE u # t
    BY <2>2 DEF Suspend
  <2>3. QED
    BY <2>1, <2>2
<1>3. QED
  BY <1>1, <1>2

LEMMA NextTypeOK == TypeOK /\ [Next]_registryVars => TypeOK'
<1> SUFFICES ASSUME TypeOK, [Next]_registryVars
             PROVE  TypeOK'
  OBVIOUS
<1>1. ASSUME NEW p \in Ports, Register(p)
      PROVE  TypeOK'
  BY <1>1 DEF Register, TypeOK, calls
<1>2. ASSUME NEW t \in Clients, InitializeAll(t)
      PROVE  TypeOK'
  <2>1. plugins' = plugins /\ initialized' \in Seq(Ports) /\ held' \subseteq Ports
    BY <1>2 DEF InitializeAll, BeginInitialize, TypeOK
  <2>2. CASE plugins = <<>>
    BY <1>2, <2>1, <2>2, EndTyped DEF InitializeAll, BeginInitialize
  <2>3. CASE plugins # <<>>
    <3>1. 1 \in 1..Len(plugins) /\ <<>> \in Seq(Ports)
      BY <2>3 DEF TypeOK
    <3>2. QED
      BY <1>2, <2>1, <2>3, <3>1, SuspendTyped DEF InitializeAll, BeginInitialize
  <2>4. QED
    BY <2>2, <2>3
<1>3. ASSUME NEW t \in Clients, InitOk(t)
      PROVE  TypeOK'
  <2>1. pos[t] \in 1..Len(plugins) /\ plugins[pos[t]] \in Ports
    BY <1>3 DEF InitOk, TypeOK
  <2>2. plugins' = plugins /\ initialized' \in Seq(Ports) /\ held' \subseteq Ports
    BY <1>3, <2>1 DEF InitOk, TypeOK
  <2>3. CASE pos[t] < Len(plugins)
    <3>1. /\ pos[t] + 1 \in Nat
          /\ pos[t] + 1 \in 1..Len(plugins)
          /\ <<>> \in Seq(Ports)
      BY <2>1, <2>3 DEF TypeOK
    <3>2. Suspend(t, "initializing", pos[t] + 1, <<>>)
      BY <1>3, <2>3 DEF InitOk
    <3>3. QED
      BY <2>2, <3>1, <3>2, SuspendTyped
  <2>4. CASE ~(pos[t] < Len(plugins))
    BY <1>3, <2>2, <2>4, EndTyped DEF InitOk
  <2>5. QED
    BY <2>3, <2>4
<1>4. ASSUME NEW t \in Clients, InitRaises(t) \/ InitTimesOut(t)
      PROVE  TypeOK'
  <2>1. RollBack(t)
    BY <1>4 DEF InitRaises, InitTimesOut
  <2>2. plugins' = plugins /\ initialized' \in Seq(Ports) /\ held' \subseteq Ports
    BY <2>1 DEF RollBack, TypeOK
  <2>3. CASE initialized = <<>>
    BY <2>1, <2>2, <2>3, EndTyped DEF RollBack
  <2>4. CASE initialized # <<>>
    <3>1. initialized \in Seq(Ports) /\ Len(initialized) \in 1..Len(initialized)
      BY <2>4 DEF TypeOK
    <3>2. QED
      BY <2>1, <2>2, <2>4, <3>1, SuspendTyped DEF RollBack
  <2>5. QED
    BY <2>3, <2>4
<1>5. ASSUME NEW t \in Clients, ShutdownAll(t)
      PROVE  TypeOK'
  <2>1. plugins' = plugins /\ initialized' \in Seq(Ports) /\ held' \subseteq Ports
    BY <1>5 DEF ShutdownAll, TypeOK
  <2>2. CASE initialized = <<>>
    BY <1>5, <2>1, <2>2, EndTyped DEF ShutdownAll
  <2>3. CASE initialized # <<>>
    <3>1. initialized \in Seq(Ports) /\ Len(initialized) \in 1..Len(initialized)
      BY <2>3 DEF TypeOK
    <3>2. QED
      BY <1>5, <2>1, <2>3, <3>1, SuspendTyped DEF ShutdownAll
  <2>4. QED
    BY <2>2, <2>3
<1>6. ASSUME NEW t \in Clients, PortDown(t)
      PROVE  TypeOK'
  <2>1. /\ pc[t] \in {"rollingBack", "shuttingDown"}
        /\ pos[t] \in 1..Len(batch[t])
        /\ batch[t] \in Seq(Ports)
    BY <1>6 DEF PortDown, TypeOK
  <2>2. plugins' = plugins /\ held' \subseteq Ports
    BY <1>6 DEF PortDown, TypeOK
  <2>3. CASE pos[t] > 1
    <3>1. pos[t] - 1 \in 1..Len(batch[t])
      BY <2>1, <2>3
    <3>2. Suspend(t, pc[t], pos[t] - 1, batch[t]) /\ initialized' = initialized
      BY <1>6, <2>3 DEF PortDown
    <3>3. initialized' \in Seq(Ports)
      BY <3>2 DEF TypeOK
    <3>4. QED
      BY <2>1, <2>2, <3>1, <3>2, <3>3, SuspendTyped
  <2>4. CASE ~(pos[t] > 1)
    <3>1. /\ End(t, "raised") \/ End(t, "returned")
          /\ initialized' = initialized \/ initialized' = <<>>
      BY <1>6, <2>4 DEF PortDown
    <3>2. <<>> \in Seq(Ports) /\ initialized \in Seq(Ports)
      BY DEF TypeOK
    <3>3. initialized' \in Seq(Ports)
      BY <3>1, <3>2
    <3>4. QED
      BY <2>2, <3>1, <3>3, EndTyped
  <2>5. QED
    BY <2>3, <2>4
<1>7. ASSUME NEW t \in Clients, Cancelled(t)
      PROVE  TypeOK'
  <2>1. plugins' = plugins /\ initialized' \in Seq(Ports) /\ held' \subseteq Ports
    BY <1>7 DEF Cancelled, TypeOK
  <2>2. QED
    BY <1>7, <2>1, EndTyped DEF Cancelled
<1>8. CASE UNCHANGED registryVars
  BY <1>8 DEF registryVars, TypeOK
<1>9. QED
  BY <1>1, <1>2, <1>3, <1>4, <1>5, <1>6, <1>7, <1>8 DEF Next, ClientStep

\* Every variable keeps its type and no loop indexes outside its list, however
\* lifecycle calls and registrations interleave.
THEOREM RegistryTypeCorrect == Spec => []TypeOK
<1>1. Init => TypeOK
  BY DEF Init, NothingStarted, TypeOK
<1>2. QED
  BY <1>1, NextTypeOK, PTL DEF Spec

LEMMA OnlyRegisterAddsPorts ==
  ASSUME [Next]_registryVars, \A p \in Ports : ~Register(p)
  PROVE  plugins' = plugins
  BY DEF Next, ClientStep, InitializeAll, BeginInitialize, InitOk, InitRaises, InitTimesOut,
         RollBack, ShutdownAll, PortDown, Cancelled, registryVars

LEMMA NextUniqueNames ==
  TypeOK /\ UniqueNames /\ [Next]_registryVars => UniqueNames'
<1> SUFFICES ASSUME TypeOK, UniqueNames, [Next]_registryVars
             PROVE  UniqueNames'
  OBVIOUS
<1>1. ASSUME NEW p \in Ports, Register(p)
      PROVE  UniqueNames'
  BY <1>1 DEF TypeOK, UniqueNames, Register, NameTaken
<1>2. CASE plugins' = plugins
  BY <1>2 DEF UniqueNames
<1>3. QED
  BY <1>1, <1>2, OnlyRegisterAddsPorts

\* Names are unique in every registry, however many tasks register ports.
THEOREM NamesStayUnique == Spec => []UniqueNames
<1>1. Init => UniqueNames
  BY DEF Init, NothingStarted, UniqueNames
<1>2. QED
  BY <1>1, NextUniqueNames, RegistryTypeCorrect, PTL DEF Spec

\* What get answers when it answers with a port: it is the only match.
LEMMA TheMatch ==
  ASSUME NEW c, Get(c) \in Ports
  PROVE  \E k : GetAll(c) = {k} /\ Get(c) = plugins[k]
<1>1. GetAll(c) # {} /\ ~ \E i, j \in GetAll(c) : i # j
  BY RegistryAssumption DEF Get
<1>2. PICK k : GetAll(c) = {k}
  BY <1>1
<1>3. (CHOOSE i \in GetAll(c) : TRUE) = k
  BY <1>2
<1>4. Get(c) = plugins[CHOOSE i \in GetAll(c) : TRUE]
  BY <1>1 DEF Get
<1>5. QED
  BY <1>2, <1>3, <1>4

\* Registering a port adds one position to the matches of its capability.
LEMMA RegisterMatches ==
  ASSUME TypeOK, NEW p \in Ports, Register(p), NEW c
  PROVE  /\ GetAll(c)' = GetAll(c) \/ GetAll(c)' = GetAll(c) \cup {Len(plugins) + 1}
         /\ GetAll(c) \subseteq 1..Len(plugins)
         /\ \A i \in GetAll(c) : plugins'[i] = plugins[i]
  BY DEF TypeOK, Register, GetAll

\* A lookup that has resolved to a port keeps that answer or becomes ambiguous,
\* whatever is registered and however calls overlap (PluginRegistry.get).
THEOREM LookupsAreStable == Spec => LookupIsStable
<1>1. TypeOK /\ [Next]_registryVars =>
        [\A c \in Capabilities :
           Get(c) \in Ports => Get(c)' \in {Get(c), "AmbiguousCapabilityError"}]_registryVars
  <2> SUFFICES ASSUME TypeOK, [Next]_registryVars, NEW c \in Capabilities, Get(c) \in Ports
               PROVE  Get(c)' \in {Get(c), "AmbiguousCapabilityError"}
    OBVIOUS
  <2>1. PICK k : GetAll(c) = {k} /\ Get(c) = plugins[k]
    BY TheMatch
  <2>2. CASE plugins' = plugins
    BY <2>2 DEF Get, GetAll
  <2>3. ASSUME NEW p \in Ports, Register(p)
        PROVE  Get(c)' \in {Get(c), "AmbiguousCapabilityError"}
    <3>1. /\ GetAll(c)' = {k} \/ GetAll(c)' = {k, Len(plugins) + 1}
          /\ k # Len(plugins) + 1
          /\ plugins'[k] = plugins[k]
      <4>1. /\ GetAll(c)' = GetAll(c) \/ GetAll(c)' = GetAll(c) \cup {Len(plugins) + 1}
            /\ GetAll(c) \subseteq 1..Len(plugins)
            /\ \A i \in GetAll(c) : plugins'[i] = plugins[i]
        BY <2>3, RegisterMatches
      <4>2. k \in 1..Len(plugins) /\ Len(plugins) \in Nat
        BY <2>1, <4>1 DEF TypeOK
      <4>3. k # Len(plugins) + 1
        BY <4>2
      <4>4. QED
        BY <2>1, <4>1, <4>3
    <3>2. CASE GetAll(c)' = {k}
      <4>1. (CHOOSE i \in GetAll(c)' : TRUE) = k
        BY <3>2
      <4>2. GetAll(c)' # {} /\ ~ \E i, j \in GetAll(c)' : i # j
        BY <3>2
      <4>3. Get(c)' = plugins'[CHOOSE i \in GetAll(c)' : TRUE]
        BY <4>2 DEF Get
      <4>4. QED
        BY <2>1, <3>1, <4>1, <4>3
    <3>3. CASE GetAll(c)' = {k, Len(plugins) + 1}
      <4>1. GetAll(c)' # {} /\ \E i, j \in GetAll(c)' : i # j
        BY <3>1, <3>3
      <4>2. Get(c)' = "AmbiguousCapabilityError"
        BY <4>1 DEF Get
      <4>3. QED
        BY <4>2
    <3>4. QED
      BY <3>1, <3>2, <3>3
  <2>4. QED
    BY <2>2, <2>3, OnlyRegisterAddsPorts
<1>2. QED
  BY <1>1, RegistryTypeCorrect, PTL DEF Spec, LookupIsStable

-----------------------------------------------------------------------------
(***************************************************************************)
(* Lifecycle calls that do not overlap, by any number of clients, of a     *)
(* registry that is started only while nothing is up.  Nothing in the code *)
(* keeps calls apart; the theorems say what it promises when its callers   *)
(* do.                                                                     *)
(***************************************************************************)
\* The calls of a single client satisfy it as it stands.
NoOverlap == \A t, u \in Clients : pc[t] # "idle" /\ pc[u] # "idle" => t = u

\* Where a call that is under way stands in its list tells which ports are up.
LoopInv(t) ==
  /\ pc[t] = "initializing" =>
       /\ Len(initialized) = pos[t] - 1
       /\ held = Stack!FirstPorts(pos[t] - 1)
  /\ pc[t] \in {"rollingBack", "shuttingDown"} => batch[t] = initialized
  /\ pc[t] = "rollingBack" => held = Stack!FirstPorts(pos[t])
  /\ pc[t] = "shuttingDown" => \E n \in 0..pos[t] : held = Stack!FirstPorts(n)

\* The ports that are up are the first ones of the registration order at every
\* moment; this is what ties `held` to the list each loop walks.
StackInv ==
  /\ TypeOK
  /\ UniqueNames
  /\ Len(initialized) <= Len(plugins)
  /\ \A i \in 1..Len(initialized) : initialized[i] = plugins[i]
  /\ \E n \in 0..Len(initialized) : held = Stack!FirstPorts(n)
  /\ RollbackLeavesNothing
  /\ \A t \in Clients : LoopInv(t)

LEMMA FirstPortsZero == Stack!FirstPorts(0) = {}
  BY DEF Stack!FirstPorts

LEMMA FirstPortsGrow ==
  ASSUME NEW n \in Nat \ {0}
  PROVE  Stack!FirstPorts(n) = Stack!FirstPorts(n - 1) \cup {plugins[n]}
<1>1. 1..n = 1..(n - 1) \cup {n}
  OBVIOUS
<1>2. QED
  BY <1>1 DEF Stack!FirstPorts

LEMMA FirstPortsWithout ==
  ASSUME UniqueNames, plugins \in Seq(Ports),
         NEW n \in 1..Len(plugins), NEW m \in 0..(n - 1)
  PROVE  Stack!FirstPorts(m) \ {plugins[n]} = Stack!FirstPorts(m)
<1>1. \A i \in 1..m : plugins[i] # plugins[n]
  BY DEF UniqueNames
<1>2. QED
  BY <1>1 DEF Stack!FirstPorts

LEMMA FirstPortsStable ==
  ASSUME plugins \in Seq(Ports), NEW p \in Ports, plugins' = Append(plugins, p),
         NEW n \in 0..Len(plugins)
  PROVE  Stack!FirstPorts(n)' = Stack!FirstPorts(n)
<1>1. \A i \in 1..n : plugins'[i] = plugins[i]
  OBVIOUS
<1>2. QED
  BY <1>1 DEF Stack!FirstPorts

\* The port a shutdown() has just ended for is the last one that was up, or
\* was down already.
LEMMA PortDownPops ==
  ASSUME StackInv, NEW t \in Clients, PortDown(t)
  PROVE  /\ pos[t] \in 1..Len(plugins)
         /\ \/ /\ held = Stack!FirstPorts(pos[t])
               /\ held' = Stack!FirstPorts(pos[t] - 1)
            \/ /\ pc[t] = "shuttingDown"
               /\ held' = held
               /\ \E n \in 0..(pos[t] - 1) : held = Stack!FirstPorts(n)
<1> DEFINE k == pos[t]
<1>1. /\ pc[t] \in {"rollingBack", "shuttingDown"}
      /\ batch[t] = initialized
      /\ k \in 1..Len(initialized)
      /\ k \in 1..Len(plugins)
      /\ initialized[k] = plugins[k]
      /\ held' = held \ {plugins[k]}
      /\ plugins \in Seq(Ports)
      /\ UniqueNames
  BY DEF PortDown, StackInv, LoopInv, TypeOK
<1>2. CASE held = Stack!FirstPorts(k)
  <2>1. held = Stack!FirstPorts(k - 1) \cup {plugins[k]}
    BY <1>1, <1>2, FirstPortsGrow
  <2>2. Stack!FirstPorts(k - 1) \ {plugins[k]} = Stack!FirstPorts(k - 1)
    BY <1>1, FirstPortsWithout
  <2>3. held' = Stack!FirstPorts(k - 1)
    BY <1>1, <2>1, <2>2
  <2>4. QED
    BY <1>1, <1>2, <2>3
<1>3. CASE held # Stack!FirstPorts(k)
  <2>1. pc[t] = "shuttingDown"
    BY <1>1, <1>3 DEF StackInv, LoopInv
  <2>2. PICK n \in 0..k : held = Stack!FirstPorts(n)
    BY <2>1 DEF StackInv, LoopInv
  <2>3. n \in 0..(k - 1)
    BY <1>1, <1>3, <2>2
  <2>4. held' = held
    BY <1>1, <2>2, <2>3, FirstPortsWithout
  <2>5. QED
    BY <1>1, <2>1, <2>2, <2>3, <2>4
<1>4. QED
  BY <1>2, <1>3

\* A step of one client suspends or ends no call of another one.
LEMMA OthersStay ==
  ASSUME TypeOK, NEW t \in Clients, ClientStep(t), NEW u \in Clients, u # t
  PROVE  pc'[u] = pc[u] /\ pos'[u] = pos[u] /\ batch'[u] = batch[u] /\ outcome'[u] = outcome[u]
<1> USE DEF TypeOK, Suspend, End
<1>1. CASE InitializeAll(t) \/ ShutdownAll(t) \/ Cancelled(t)
  BY <1>1 DEF InitializeAll, BeginInitialize, ShutdownAll, Cancelled
<1>2. CASE InitOk(t) \/ PortDown(t)
  BY <1>2 DEF InitOk, PortDown
<1>3. CASE InitRaises(t) \/ InitTimesOut(t)
  BY <1>3 DEF InitRaises, InitTimesOut, RollBack
<1>4. QED
  BY <1>1, <1>2, <1>3 DEF ClientStep

\* A call that is under way is the only one.
LEMMA OthersIdle ==
  ASSUME TypeOK, NoOverlap, NEW t \in Clients, pc[t] # "idle", ClientStep(t)
  PROVE  \A u \in Clients : u # t => pc[u] = "idle" /\ pc'[u] = "idle"
  BY OthersStay DEF NoOverlap

LEMMA NextStackInv ==
  ASSUME CalledOnce, NoOverlap, NoOverlap', StackInv, [Next]_registryVars
  PROVE  StackInv'
<1>1. TypeOK' /\ UniqueNames'
  BY NextTypeOK, NextUniqueNames DEF StackInv, LoopInv
<1>2. ASSUME NEW p \in Ports, Register(p)
      PROVE  StackInv'
  <2>1. /\ plugins \in Seq(Ports)
        /\ initialized \in Seq(Ports)
        /\ plugins' = Append(plugins, p)
        /\ UNCHANGED <<initialized, pc, pos, batch, outcome, held>>
    BY <1>2 DEF Register, calls, StackInv, LoopInv, TypeOK
  <2>2. \A n \in 0..Len(plugins) : Stack!FirstPorts(n)' = Stack!FirstPorts(n)
    BY <2>1, FirstPortsStable
  <2>3. /\ Len(initialized') <= Len(plugins')
        /\ \A i \in 1..Len(initialized') : initialized'[i] = plugins'[i]
    BY <2>1 DEF StackInv, LoopInv
  <2>4. \E n \in 0..Len(initialized') : held' = Stack!FirstPorts(n)'
    BY <2>1, <2>2 DEF StackInv, LoopInv
  <2>5. ASSUME NEW t \in Clients
        PROVE  LoopInv(t)'
    <3>1. /\ pc[t] = "initializing" => pos[t] - 1 \in 0..Len(plugins)
          /\ pc[t] \in {"rollingBack", "shuttingDown"} => pos[t] \in 0..Len(plugins)
      BY DEF StackInv, LoopInv, TypeOK
    <3>2. QED
      BY <2>1, <2>2, <3>1 DEF StackInv, LoopInv
  <2>6. RollbackLeavesNothing'
    BY <2>1 DEF StackInv, RollbackLeavesNothing
  <2>7. QED
    BY <1>1, <2>1, <2>3, <2>4, <2>5, <2>6 DEF StackInv
<1>3. ASSUME NEW t \in Clients, InitializeAll(t)
      PROVE  StackInv'
  <2>2. held = {} /\ held' = {} /\ plugins' = plugins /\ initialized' = <<>>
    BY <1>3 DEF InitializeAll, BeginInitialize
  <2>3. Stack!FirstPorts(0)' = {} /\ Stack!FirstPorts(1 - 1)' = {}
    BY DEF Stack!FirstPorts
  <2>4. \/ plugins = <<>> /\ pc'[t] = "idle"
        \/ pc'[t] = "initializing" /\ pos'[t] = 1
    BY <1>3 DEF InitializeAll, BeginInitialize, End, Suspend, StackInv, LoopInv, TypeOK
  <2>1. ASSUME NEW u \in Clients, u # t
        PROVE  pc'[u] = "idle"
    <3>1. pc'[u] = pc[u]
      BY <1>3, <2>1, OthersStay DEF ClientStep, StackInv, LoopInv
    <3>2. CASE plugins = <<>>
      BY <3>1, <3>2 DEF StackInv, LoopInv, TypeOK
    <3>3. CASE pc'[t] = "initializing"
      BY <2>1, <3>3 DEF NoOverlap
    <3>4. QED
      BY <2>4, <3>2, <3>3
  <2>5. LoopInv(t)'
    BY <1>1, <2>2, <2>3, <2>4 DEF LoopInv, TypeOK
  <2>6. \A u \in Clients : LoopInv(u)'
    BY <2>1, <2>5 DEF LoopInv
  <2>7. RollbackLeavesNothing'
    BY <2>2 DEF RollbackLeavesNothing
  <2>8. Len(initialized') = 0 /\ Len(plugins') \in Nat /\ held' = Stack!FirstPorts(0)'
    BY <1>1, <2>2, <2>3 DEF TypeOK
  <2>9. QED
    BY <1>1, <2>6, <2>7, <2>8 DEF StackInv
<1>4. ASSUME NEW t \in Clients, InitOk(t)
      PROVE  StackInv'
  <2>1. \A u \in Clients : u # t => pc'[u] = "idle"
    BY <1>4, OthersIdle DEF ClientStep, InitOk, StackInv, LoopInv
  <2>2. /\ pos[t] \in 1..Len(plugins)
        /\ Len(initialized) = pos[t] - 1
        /\ held = Stack!FirstPorts(pos[t] - 1)
        /\ initialized \in Seq(Ports)
        /\ plugins[pos[t]] \in Ports
    BY <1>4 DEF InitOk, StackInv, LoopInv, TypeOK
  <2>3. /\ plugins' = plugins
        /\ initialized' = Append(initialized, plugins[pos[t]])
        /\ held' = Stack!FirstPorts(pos[t])
    BY <1>4, <2>2, FirstPortsGrow DEF InitOk
  <2>4. /\ Len(initialized') = pos[t]
        /\ \A i \in 1..pos[t] : initialized'[i] = plugins[i]
    BY <2>2, <2>3 DEF StackInv, LoopInv
  <2>5. \A n : Stack!FirstPorts(n)' = Stack!FirstPorts(n)
    BY <2>3 DEF Stack!FirstPorts
  <2>6. \/ pc'[t] = "idle" /\ outcome'[t] = "returned"
        \/ pc'[t] = "initializing" /\ pos'[t] = pos[t] + 1
    BY <1>4 DEF InitOk, End, Suspend, StackInv, LoopInv, TypeOK
  <2>7. RollbackLeavesNothing'
    BY <2>6 DEF RollbackLeavesNothing
  <2>8. LoopInv(t)'
    BY <1>1, <2>2, <2>3, <2>4, <2>5, <2>6 DEF LoopInv
  <2>9. \A u \in Clients : LoopInv(u)'
    BY <2>1, <2>8 DEF LoopInv
  <2>10. QED
    BY <1>1, <2>2, <2>3, <2>4, <2>5, <2>7, <2>9 DEF StackInv
<1>5. ASSUME NEW t \in Clients, InitRaises(t) \/ InitTimesOut(t)
      PROVE  StackInv'
  <2>2. RollBack(t)
    BY <1>5 DEF InitRaises, InitTimesOut
  <2>1. \A u \in Clients : u # t => pc'[u] = "idle"
    BY <1>5, <2>2, OthersIdle DEF ClientStep, RollBack, StackInv, LoopInv
  <2>3. /\ UNCHANGED <<plugins, initialized, held>>
        /\ held = Stack!FirstPorts(Len(initialized))
        /\ initialized \in Seq(Ports)
    BY <2>2 DEF RollBack, StackInv, LoopInv, TypeOK
  <2>4. \A n : Stack!FirstPorts(n)' = Stack!FirstPorts(n)
    BY <2>3 DEF Stack!FirstPorts
  <2>5. \/ initialized = <<>> /\ pc'[t] = "idle"
        \/ /\ pc'[t] = "rollingBack"
           /\ pos'[t] = Len(initialized)
           /\ batch'[t] = initialized
    BY <2>2 DEF RollBack, End, Suspend, StackInv, LoopInv, TypeOK
  <2>6. initialized = <<>> => held = {}
    BY <2>3, FirstPortsZero
  <2>7. RollbackLeavesNothing'
    BY <2>3, <2>5, <2>6 DEF RollbackLeavesNothing
  <2>8. LoopInv(t)'
    BY <2>3, <2>4, <2>5 DEF LoopInv
  <2>9. \A u \in Clients : LoopInv(u)'
    BY <2>1, <2>8 DEF LoopInv
  <2>10. QED
    BY <1>1, <2>3, <2>4, <2>7, <2>9 DEF StackInv
<1>6. ASSUME NEW t \in Clients, ShutdownAll(t)
      PROVE  StackInv'
  <2>1. \A u \in Clients : u # t => pc'[u] = pc[u] /\ pos'[u] = pos[u] /\ batch'[u] = batch[u]
    BY <1>6, OthersStay DEF ClientStep, StackInv, LoopInv
  <2>2. UNCHANGED <<plugins, initialized, held>> /\ initialized \in Seq(Ports) /\ pc[t] = "idle"
    BY <1>6 DEF ShutdownAll, StackInv, LoopInv, TypeOK
  <2>3. \A n : Stack!FirstPorts(n)' = Stack!FirstPorts(n)
    BY <2>2 DEF Stack!FirstPorts
  <2>4. \/ pc'[t] = "idle" /\ outcome'[t] = "returned"
        \/ /\ pc'[t] = "shuttingDown"
           /\ pos'[t] = Len(initialized)
           /\ batch'[t] = initialized
    BY <1>6 DEF ShutdownAll, End, Suspend, StackInv, LoopInv, TypeOK
  <2>5. RollbackLeavesNothing'
    BY <2>4 DEF RollbackLeavesNothing
  <2>6. ASSUME NEW u \in Clients
        PROVE  LoopInv(u)'
    <3>1. CASE u = t
      BY <2>2, <2>3, <2>4, <3>1 DEF StackInv, LoopInv
    <3>2. CASE u # t
      BY <2>1, <2>2, <2>3, <3>2 DEF StackInv, LoopInv
    <3>3. QED
      BY <3>1, <3>2
  <2>7. QED
    BY <1>1, <2>2, <2>3, <2>5, <2>6 DEF StackInv
<1>7. ASSUME NEW t \in Clients, PortDown(t)
      PROVE  StackInv'
  <2>1. \A u \in Clients : u # t => pc'[u] = "idle"
    BY <1>7, OthersIdle DEF ClientStep, PortDown, StackInv, LoopInv
  <2>2. /\ plugins' = plugins
        /\ pc[t] \in {"rollingBack", "shuttingDown"}
        /\ batch[t] = initialized
        /\ initialized \in Seq(Ports)
        /\ pos[t] \in 1..Len(initialized)
    BY <1>7 DEF PortDown, StackInv, LoopInv, TypeOK
  <2>3. \A n : Stack!FirstPorts(n)' = Stack!FirstPorts(n)
    BY <2>2 DEF Stack!FirstPorts
  <2>4. /\ \E n \in 0..(pos[t] - 1) : held' = Stack!FirstPorts(n)
        /\ pc[t] = "rollingBack" => held' = Stack!FirstPorts(pos[t] - 1)
    BY <1>7, <2>2, PortDownPops
  <2>5. CASE pos[t] > 1
    <3>1. /\ pc'[t] = pc[t]
          /\ pos'[t] = pos[t] - 1
          /\ batch'[t] = batch[t]
          /\ initialized' = initialized
      BY <1>7, <2>5 DEF PortDown, Suspend, StackInv, LoopInv, TypeOK
    <3>2. LoopInv(t)'
      BY <2>2, <2>3, <2>4, <2>5, <3>1 DEF LoopInv
    <3>3. \A u \in Clients : LoopInv(u)'
      BY <2>1, <3>2 DEF LoopInv
    <3>4. RollbackLeavesNothing'
      BY <2>2, <3>1 DEF RollbackLeavesNothing
    <3>5. \E n \in 0..Len(initialized') : held' = Stack!FirstPorts(n)'
      BY <2>2, <2>3, <2>4, <3>1
    <3>6. QED
      BY <1>1, <2>2, <3>1, <3>3, <3>4, <3>5 DEF StackInv
  <2>6. CASE ~(pos[t] > 1)
    <3>1. held' = {}
      BY <2>2, <2>4, <2>6, FirstPortsZero
    <3>2. /\ pc'[t] = "idle"
          /\ initialized' = initialized \/ initialized' = <<>>
      BY <1>7, <2>6 DEF PortDown, End, StackInv, LoopInv, TypeOK
    <3>3. /\ Len(initialized') \in Nat
          /\ Len(initialized') <= Len(plugins')
          /\ \A i \in 1..Len(initialized') : initialized'[i] = plugins'[i]
      BY <2>2, <3>2 DEF StackInv, LoopInv, TypeOK
    <3>4. held' = Stack!FirstPorts(0)' /\ 0 \in 0..Len(initialized')
      BY <2>3, <3>1, <3>3, FirstPortsZero
    <3>5. QED
      BY <1>1, <2>1, <3>1, <3>2, <3>3, <3>4 DEF StackInv, LoopInv, RollbackLeavesNothing
  <2>7. QED
    BY <2>5, <2>6
<1>8. ASSUME NEW t \in Clients, Cancelled(t)
      PROVE  StackInv'
  <2>1. \A u \in Clients : u # t => pc'[u] = "idle"
    BY <1>8, OthersIdle DEF ClientStep, Cancelled, StackInv, LoopInv
  <2>2. /\ UNCHANGED <<plugins, initialized, held>>
        /\ pc'[t] = "idle"
        /\ outcome'[t] = "cancelled"
    BY <1>8 DEF Cancelled, End, StackInv, LoopInv, TypeOK
  <2>3. \A n : Stack!FirstPorts(n)' = Stack!FirstPorts(n)
    BY <2>2 DEF Stack!FirstPorts
  <2>4. QED
    BY <1>1, <2>1, <2>2, <2>3 DEF StackInv, LoopInv, RollbackLeavesNothing
<1>9. CASE UNCHANGED registryVars
  <2>1. \A n : Stack!FirstPorts(n)' = Stack!FirstPorts(n)
    BY <1>9 DEF Stack!FirstPorts, registryVars
  <2>2. QED
    BY <1>1, <1>9, <2>1 DEF StackInv, LoopInv, RollbackLeavesNothing, registryVars
<1>10. QED
  BY <1>2, <1>3, <1>4, <1>5, <1>6, <1>7, <1>8, <1>9 DEF Next, ClientStep

LEMMA InitStackInv == Init => StackInv
<1> SUFFICES ASSUME Init
             PROVE  StackInv
  OBVIOUS
<1>1. TypeOK /\ UniqueNames
  BY DEF Init, NothingStarted, TypeOK, UniqueNames
<1>2. held = Stack!FirstPorts(0)
  BY FirstPortsZero DEF Init, NothingStarted
<1>3. QED
  BY <1>1, <1>2 DEF Init, NothingStarted, StackInv, LoopInv, RollbackLeavesNothing

\* The inductive invariant of calls that do not overlap holds in every state.
THEOREM StackInvariant ==
  ASSUME CalledOnce
  PROVE  Spec /\ []NoOverlap => []StackInv
<1>1. NoOverlap /\ NoOverlap' /\ StackInv /\ [Next]_registryVars => StackInv'
  BY NextStackInv
<1>2. QED
  BY <1>1, InitStackInv, PTL DEF Spec

\* Every port that is up will be reached by the next shutdown_all, whichever
\* task calls it (initialize_all, shutdown_all).
THEOREM NoPortIsForgotten ==
  ASSUME CalledOnce
  PROVE  Spec /\ []NoOverlap => []NothingForgotten
<1>1. StackInv => NothingForgotten
  BY DEF StackInv, LoopInv, NothingForgotten, Stack!FirstPorts, Range
<1>2. QED
  BY <1>1, StackInvariant, PTL

\* After a start that has raised no port is up (initialize_all).
THEOREM StartIsAllOrNothing ==
  ASSUME CalledOnce
  PROVE  Spec /\ []NoOverlap => []RollbackLeavesNothing
<1>1. StackInv => RollbackLeavesNothing
  BY DEF StackInv, LoopInv
<1>2. QED
  BY <1>1, StackInvariant, PTL

\* The same of the moment a start raises, whatever other tasks have done before:
\* the step that ends it leaves nothing up (the except branch of initialize_all).
FailedStartIsClean ==
  [][\A t \in Clients :
       (pc[t] # "idle" /\ pc'[t] = "idle" /\ outcome'[t] = "raised") => held' = {}]_registryVars

THEOREM FailedStartsAreClean ==
  ASSUME CalledOnce
  PROVE  Spec /\ []NoOverlap => FailedStartIsClean
<1>1. NoOverlap /\ NoOverlap' /\ StackInv /\ StackInv' /\ [Next]_registryVars =>
        [\A t \in Clients :
           (pc[t] # "idle" /\ pc'[t] = "idle" /\ outcome'[t] = "raised") => held' = {}]_registryVars
  <2> SUFFICES ASSUME NoOverlap, StackInv, Next, NEW t \in Clients,
                      pc[t] # "idle", pc'[t] = "idle", outcome'[t] = "raised"
               PROVE  held' = {}
    OBVIOUS
  <2> USE DEF StackInv, LoopInv, TypeOK
  <2>1. ASSUME NEW u \in Clients, ClientStep(u), u # t
        PROVE  FALSE
    BY <2>1, OthersStay
  <2>2. ~ \E p \in Ports : Register(p)
    BY DEF Register, calls
  <2>3. ClientStep(t)
    BY <2>1, <2>2 DEF Next
  <2>4. CASE InitOk(t) \/ Cancelled(t)
    BY <2>4 DEF InitOk, Cancelled, End, Suspend
  <2>5. CASE InitRaises(t) \/ InitTimesOut(t)
    <3>1. RollBack(t)
      BY <2>5 DEF InitRaises, InitTimesOut
    <3>2. initialized = <<>> /\ held' = held
      BY <3>1 DEF RollBack, Suspend
    <3>3. held = Stack!FirstPorts(0)
      BY <3>2
    <3>4. QED
      BY <3>2, <3>3, FirstPortsZero
  <2>6. CASE PortDown(t)
    <3>1. ~(pos[t] > 1) /\ pc[t] = "rollingBack" /\ pos[t] = 1
      BY <2>6 DEF PortDown, Suspend, End
    <3>2. held' = Stack!FirstPorts(1 - 1)
      BY <2>6, <3>1, PortDownPops
    <3>3. QED
      BY <3>2, FirstPortsZero
  <2>7. CASE InitializeAll(t) \/ ShutdownAll(t)
    BY <2>7 DEF InitializeAll, BeginInitialize, ShutdownAll
  <2>8. QED
    BY <2>3, <2>4, <2>5, <2>6, <2>7 DEF ClientStep
<1>2. QED
  BY <1>1, StackInvariant, PTL DEF Spec, FailedStartIsClean

LEMMA StepRefinesStack ==
  ASSUME StackInv, [Next]_registryVars
  PROVE  [Stack!Next]_Stack!stack
<1>1. ASSUME NEW p \in Ports, Register(p)
      PROVE  [Stack!Next]_Stack!stack
  BY <1>1 DEF Register, Stack!Next, Stack!Add
<1>2. ASSUME NEW t \in Clients, InitOk(t)
      PROVE  [Stack!Next]_Stack!stack
  <2>1. /\ pos[t] \in 1..Len(plugins)
        /\ plugins \in Seq(Ports)
        /\ plugins' = plugins
        /\ held = Stack!FirstPorts(pos[t] - 1)
        /\ held' = held \cup {plugins[pos[t]]}
    BY <1>2 DEF InitOk, StackInv, LoopInv, TypeOK
  <2>2. held' = Stack!FirstPorts(pos[t])
    BY <2>1, FirstPortsGrow
  <2>3. pos[t] \in DOMAIN plugins
    BY <2>1
  <2>4. QED
    BY <2>1, <2>2, <2>3 DEF Stack!Next, Stack!Up
<1>3. ASSUME NEW t \in Clients, PortDown(t)
      PROVE  [Stack!Next]_Stack!stack
  <2>1. plugins' = plugins /\ plugins \in Seq(Ports)
    BY <1>3 DEF PortDown, StackInv, LoopInv, TypeOK
  <2>2. /\ pos[t] \in DOMAIN plugins
        /\ \/ held = Stack!FirstPorts(pos[t]) /\ held' = Stack!FirstPorts(pos[t] - 1)
           \/ held' = held
    BY <1>3, <2>1, PortDownPops
  <2>3. QED
    BY <2>1, <2>2 DEF Stack!Next, Stack!Down, Stack!stack
<1>4. ASSUME NEW t \in Clients,
             \/ InitializeAll(t) \/ InitRaises(t) \/ InitTimesOut(t)
             \/ ShutdownAll(t) \/ Cancelled(t)
      PROVE  [Stack!Next]_Stack!stack
  BY <1>4 DEF InitializeAll, BeginInitialize, InitRaises, InitTimesOut, RollBack, ShutdownAll,
              Cancelled, Stack!stack
<1>5. CASE UNCHANGED registryVars
  BY <1>5 DEF registryVars, Stack!stack
<1>6. QED
  BY <1>1, <1>2, <1>3, <1>4, <1>5 DEF Next, ClientStep

\* Ports come up in registration order and go down in reverse, one at a time,
\* whatever fails, times out or is cancelled and however often the registry
\* is restarted.
THEOREM RegistryIsAStack ==
  ASSUME CalledOnce
  PROVE  Spec /\ []NoOverlap => ImplementsStack
<1>1. Init => Stack!Init
  BY DEF Init, NothingStarted, Stack!Init
<1>2. StackInv /\ [Next]_registryVars => [Stack!Next]_Stack!stack
  BY StepRefinesStack
<1>3. QED
  BY <1>1, <1>2, StackInvariant, PTL DEF Spec, ImplementsStack, Stack!Spec

-----------------------------------------------------------------------------
(***************************************************************************)
(* When list_plugins tells the truth.  A start that fails or is cancelled  *)
(* leaves entries in _initialized of ports that are down; nothing else     *)
(* does.                                                                   *)
(***************************************************************************)
NoneFailed == \A t \in Clients : outcome[t] \notin {"raised", "cancelled"}

\* Between calls exactly the ports that _initialized lists are up.
ListIsHeld == (Idle = Clients) => held = Stack!FirstPorts(Len(initialized))

LEMMA NextListIsHeld ==
  ASSUME CalledOnce, NoOverlap, StackInv, StackInv', NoneFailed', ListIsHeld,
         [Next]_registryVars
  PROVE  ListIsHeld'
<1> SUFFICES ASSUME Idle' = Clients
             PROVE  held' = Stack!FirstPorts(Len(initialized))'
  BY DEF ListIsHeld
<1>1. ASSUME NEW p \in Ports, Register(p)
      PROVE  held' = Stack!FirstPorts(Len(initialized))'
  <2>1. /\ plugins \in Seq(Ports) /\ plugins' = Append(plugins, p)
        /\ Len(initialized) \in 0..Len(plugins)
        /\ held' = held /\ initialized' = initialized /\ pc' = pc
    BY <1>1 DEF Register, calls, StackInv, TypeOK
  <2>2. held = Stack!FirstPorts(Len(initialized))
    BY <2>1 DEF ListIsHeld, Idle
  <2>3. \A i \in 1..Len(initialized) : plugins'[i] = plugins[i]
    BY <2>1
  <2>4. QED
    BY <2>1, <2>2, <2>3 DEF Stack!FirstPorts
<1>2. ASSUME NEW t \in Clients, ClientStep(t)
      PROVE  held' = Stack!FirstPorts(Len(initialized))'
  <2>1. /\ plugins' = plugins
        /\ pc'[t] = "idle" /\ outcome'[t] \notin {"raised", "cancelled"}
    BY <1>2 DEF ClientStep, InitializeAll, BeginInitialize, InitOk, InitRaises, InitTimesOut,
                RollBack, ShutdownAll, PortDown, Cancelled, Idle, NoneFailed
  <2>2. \A n : Stack!FirstPorts(n)' = Stack!FirstPorts(n)
    BY <2>1 DEF Stack!FirstPorts
  <2>3. held' = {} /\ initialized' = <<>> => held' = Stack!FirstPorts(Len(initialized))'
    BY <2>2, FirstPortsZero
  <2>4. CASE InitializeAll(t)
    BY <2>3, <2>4 DEF InitializeAll, BeginInitialize
  <2>5. CASE InitOk(t)
    <3>1. /\ pos[t] \in 1..Len(plugins)
          /\ held' = Stack!FirstPorts(pos[t] - 1) \cup {plugins[pos[t]]}
          /\ Len(initialized') = pos[t]
      BY <2>5 DEF InitOk, StackInv, LoopInv, TypeOK
    <3>2. QED
      BY <2>2, <3>1, FirstPortsGrow
  <2>6. CASE InitRaises(t) \/ InitTimesOut(t)
    BY <2>1, <2>6
       DEF InitRaises, InitTimesOut, RollBack, End, Suspend, StackInv, TypeOK
  <2>7. CASE ShutdownAll(t)
    <3>1. initialized = <<>> /\ UNCHANGED <<initialized, held>>
      BY <2>1, <2>7 DEF ShutdownAll, Suspend, StackInv, TypeOK
    <3>2. held = Stack!FirstPorts(0)
      BY <3>1 DEF StackInv
    <3>3. QED
      BY <2>3, <3>1, <3>2, FirstPortsZero
  <2>8. CASE PortDown(t)
    <3>1. ~(pos[t] > 1) /\ initialized' = <<>> /\ pos[t] = 1
      BY <2>1, <2>8 DEF PortDown, Suspend, End, StackInv, TypeOK
    <3>2. \E n \in 0..(1 - 1) : held' = Stack!FirstPorts(n)
      BY <2>8, <3>1, PortDownPops
    <3>3. QED
      BY <2>3, <3>1, <3>2, FirstPortsZero
  <2>9. CASE Cancelled(t)
    BY <2>1, <2>9 DEF Cancelled, End, StackInv, TypeOK
  <2>10. QED
    BY <1>2, <2>4, <2>5, <2>6, <2>7, <2>8, <2>9 DEF ClientStep
<1>3. CASE UNCHANGED registryVars
  BY <1>3 DEF registryVars, ListIsHeld, Idle, Stack!FirstPorts
<1>4. QED
  BY <1>1, <1>2, <1>3 DEF Next

\* "The registry's last known lifecycle state" is the state of the ports as long
\* as no lifecycle call has failed or been cancelled (list_plugins).
THEOREM StatusIsTruthfulWithoutFailures ==
  ASSUME CalledOnce
  PROVE  Spec /\ []NoOverlap /\ []NoneFailed => []StatusIsTruthful
<1>1. Init => ListIsHeld
  BY FirstPortsZero DEF Init, NothingStarted, ListIsHeld
<1>2. NoOverlap /\ StackInv /\ StackInv' /\ NoneFailed' /\ ListIsHeld /\ [Next]_registryVars
        => ListIsHeld'
  BY NextListIsHeld
<1>3. StackInv /\ ListIsHeld => StatusIsTruthful
  <2> SUFFICES ASSUME StackInv, ListIsHeld, Idle = Clients, NEW i \in DOMAIN plugins,
                      NEW k \in DOMAIN initialized,
                      PortName[initialized[k]] = PortName[plugins[i]]
               PROVE  plugins[i] \in held
    BY DEF StatusIsTruthful, ReportedInitialized
  <2>1. /\ k \in 1..Len(initialized) /\ k \in DOMAIN plugins
        /\ initialized[k] = plugins[k]
    BY DEF StackInv, TypeOK
  <2>2. k = i
    BY <2>1 DEF StackInv, UniqueNames
  <2>3. QED
    BY <2>1, <2>2 DEF ListIsHeld, Stack!FirstPorts
<1>4. QED
  BY <1>1, <1>2, <1>3, StackInvariant, PTL DEF Spec
=============================================================================
