--------------------------- MODULE ModelCallsProofs ---------------------------
(***************************************************************************)
(* Proofs about ModelCalls: its types, by how much a budget can be         *)
(* overshot, that a kill is final, that a checked routing resolves, and    *)
(* that the router's choices are monotone.                                 *)
(***************************************************************************)
EXTENDS ModelCalls, FiniteSetTheorems, TLAPS

\* What the boot-time check established stays true: adapters are only added.
RoutedRegistered ==
  validated => CollectRoutedProviderIds(Routing, Overrides, Parsed) \subseteq Registered

\* Only registered guards are killed, and all of them once the pool is.
KillsKnown ==
  \A w \in Workers : /\ guards[w].killed => guards[w].known
                     /\ poolKilled /\ guards[w].known => guards[w].killed

IInv == TypeOK /\ OvershootBounded /\ RoutedRegistered /\ KillsKnown

-----------------------------------------------------------------------------
(* Arithmetic and cardinalities. *)

\* The budgets and the number of slots are natural numbers.
LEMMA Budgets ==
  /\ CallBudget \in Nat /\ TokenBudget \in Nat
  /\ Cardinality(Slots) \in Nat /\ Cardinality(Slots) > 0
<1>1. Cardinality(Slots) \in Nat /\ Cardinality(Slots) > 0
  BY SlotAssumption, FS_CardinalityType, FS_EmptySet
<1>2. CallBudget \in Nat /\ TokenBudget \in Nat
  BY BudgetAssumption DEF CallBudget, TokenBudget, Share
<1> QED BY <1>1, <1>2

\* A product grows with its factor.
LEMMA Monotone ==
  ASSUME NEW m \in Nat, NEW a \in Nat, NEW b \in Nat, a <= b
  PROVE  m * a \in Nat /\ m * b \in Nat /\ m * a <= m * b /\ m * (a + 1) = m * a + m
<1>1. m * b = m * a + m * (b - a) /\ m * (a + 1) = m * a + m
  BY SMT
<1>2. m * (b - a) \in Nat /\ m * a \in Nat /\ m * b \in Nat
  BY SMT
<1> QED BY <1>1, <1>2

\* At most every slot is in flight for a worker.
LEMMA InFlightCard ==
  ASSUME NEW w \in Workers
  PROVE  /\ IsFiniteSet(InFlight(w)) /\ Cardinality(InFlight(w)) \in Nat
         /\ Cardinality(InFlight(w)) <= Cardinality(Slots)
<1>1. InFlight(w) \subseteq Slots
  BY DEF InFlight
<1> QED BY <1>1, SlotAssumption, FS_Subset, FS_CardinalityType

-----------------------------------------------------------------------------
(* Types. *)

\* What a call of askModel is left to try are places of its route.
LEMMA CallableInRoute ==
  ASSUME NEW a \in Agents, NEW t \in TaskClasses
  PROVE  /\ Callable(a, t) \subseteq DOMAIN RefsOf(Routing, Overrides, a, t)
         /\ Callable(a, t) \in SUBSET Nat
<1>1. RefsOf(Routing, Overrides, a, t) \in Seq(DOMAIN Parsed)
  BY RoutingAssumption
<1>2. DOMAIN RefsOf(Routing, Overrides, a, t) \subseteq Nat
  BY <1>1, SMT
<1>3. Callable(a, t) \subseteq DOMAIN RefsOf(Routing, Overrides, a, t)
  BY DEF Callable, FirstMentions
<1> QED BY <1>2, <1>3

\* The job of a slot that ends is the empty one.
LEMMA NoJobTyped == NoJob \in Job
BY DEF NoJob, Job

\* The initial state is well typed.
LEMMA InitTypes == Init => TypeOK
<1> SUFFICES ASSUME Init PROVE TypeOK
  OBVIOUS
<1>1. adapters \in [Providers -> {"none", "live", "off", "scripted"}]
  BY DEF Init
<1>2. validated \in BOOLEAN /\ poolKilled \in BOOLEAN
  BY DEF Init
<1>3. guards \in [Workers -> Guard]
  BY DEF Init, Guard
<1>4. /\ pc \in [Slots -> {"idle", "asking", "guarded", "routed"}]
      /\ job \in [Slots -> Job] /\ DOMAIN pick = Slots
  BY NoJobTyped DEF Init
<1>5. \A s \in Slots : pc[s] = "idle"
  BY DEF Init
<1> QED BY <1>1, <1>2, <1>3, <1>4, <1>5 DEF TypeOK

\* A guard the pool hands out is a guard; only known and killed may differ.
LEMMA RegisteredTyped ==
  ASSUME TypeOK, NEW w \in Workers
  PROVE  /\ RegisteredWorker(w) \in Guard
         /\ RegisteredWorker(w).calls = guards[w].calls
         /\ RegisteredWorker(w).tokens = guards[w].tokens
         /\ guards[w].killed /\ guards[w].known => RegisteredWorker(w).killed
<1>1. guards[w] \in Guard /\ poolKilled \in BOOLEAN
  BY DEF TypeOK
<1>2. CASE guards[w].known
  BY <1>1, <1>2 DEF RegisteredWorker
<1>3. CASE ~guards[w].known
  BY <1>1, <1>3 DEF RegisteredWorker, Guard
<1> QED BY <1>2, <1>3

\* Every action keeps the types.
LEMMA NextTypes == TypeOK /\ [Next]_vars => TypeOK'
<1> SUFFICES ASSUME TypeOK, [Next]_vars PROVE TypeOK'
  OBVIOUS
<1> USE DEF TypeOK
<1>1. CASE BootstrapLiveProviders
  BY <1>1 DEF BootstrapLiveProviders, Refs
<1>2. ASSUME NEW p \in Providers, NEW kind \in {"scripted", "off"}, Register(p, kind)
      PROVE  TypeOK'
  BY <1>2 DEF Register, Refs
<1>3. CASE ValidateRoutingRegistered
  BY <1>3 DEF ValidateRoutingRegistered, Refs
<1>4. ASSUME NEW s \in Slots, NEW a \in Agents, NEW t \in TaskClasses, AskModel(s, a, t)
      PROVE  TypeOK'
  <2>1. /\ pc' \in [Slots -> {"idle", "asking", "guarded", "routed"}]
        /\ job' \in [Slots -> Job]
    <3>1. job' = [job EXCEPT ![s] = [job[s] EXCEPT !.agent = a, !.task = t, !.left = Callable(a, t)]]
      BY <1>4 DEF AskModel
    <3>2. [job[s] EXCEPT !.agent = a, !.task = t, !.left = Callable(a, t)] \in Job
      BY CallableInRoute DEF Job
    <3>3. pc' = [pc EXCEPT ![s] = "asking"]
      BY <1>4 DEF AskModel
    <3> QED BY <3>1, <3>2, <3>3
  <2>2. job'[s].left = Callable(a, t) /\ job'[s].agent = a /\ job'[s].task = t /\ pc'[s] = "asking"
    BY <1>4 DEF AskModel, Job
  <2>3. \A u \in Slots \ {s} : job'[u] = job[u] /\ pc'[u] = pc[u]
    BY <1>4 DEF AskModel
  <2>4. \A u \in Slots : /\ pc'[u] = "guarded" => job'[u].worker \in Workers
                         /\ pc'[u] = "asking" => /\ job'[u].left # {}
                                                 /\ job'[u].left \subseteq DOMAIN Refs(u)'
    BY <2>2, <2>3, <1>4, CallableInRoute DEF AskModel, Refs
  <2> QED BY <2>1, <2>4, <1>4 DEF AskModel
<1>5. ASSUME NEW s \in Slots, NEW ok \in BOOLEAN, ProviderAnswers(s, ok)
      PROVE  TypeOK'
  <2> DEFINE i == CHOOSE j \in job[s].left : \A k \in job[s].left : j <= k
  <2>1. CASE Ends(s)
    BY <1>5, <2>1, NoJobTyped DEF ProviderAnswers, Ends, Refs
  <2>2. CASE /\ job' = [job EXCEPT ![s].left = @ \ {i}] /\ pc' = pc
             /\ job[s].left # {i}
    <3>1. job'[s].left = job[s].left \ {i} /\ job'[s].agent = job[s].agent
          /\ job'[s].task = job[s].task /\ job'[s].worker = job[s].worker
      BY <2>2 DEF Job
    <3>2. \A u \in Slots \ {s} : job'[u] = job[u]
      BY <2>2
    <3>3. job' \in [Slots -> Job]
      BY <2>2 DEF Job
    <3> HIDE DEF i
    <3>4. job[s].left # {} /\ job[s].left # {i} /\ job'[s].left # {}
      <4>1. pc[s] = "asking"
        BY <1>5 DEF ProviderAnswers
      <4> QED BY <4>1, <3>1, <2>2
    <3>5. \A u \in Slots : /\ pc'[u] = "guarded" => job'[u].worker \in Workers
                           /\ pc'[u] = "asking" => /\ job'[u].left # {}
                                                   /\ job'[u].left \subseteq DOMAIN Refs(u)'
      BY <3>1, <3>2, <3>4, <2>2 DEF Refs
    <3> QED BY <3>3, <3>5, <2>2, <1>5 DEF ProviderAnswers
  <2> QED BY <1>5, <2>1, <2>2 DEF ProviderAnswers
<1>6. ASSUME NEW w \in Workers, RegisterWorker(w)
      PROVE  TypeOK'
  BY <1>6, RegisteredTyped DEF RegisterWorker, Refs
<1>7. ASSUME NEW s \in Slots, NEW w \in Workers, NEW p \in Providers, WorkerGuardedCall(s, w, p)
      PROVE  TypeOK'
  <2>1. guards' \in [Workers -> Guard]
    BY <1>7, RegisteredTyped DEF WorkerGuardedCall
  <2>2. CASE UNCHANGED <<pc, job>>
    BY <1>7, <2>1, <2>2 DEF WorkerGuardedCall, Refs
  <2>3. CASE pc' = [pc EXCEPT ![s] = "guarded"] /\ job' = [job EXCEPT ![s].worker = w]
    <3>1. job' \in [Slots -> Job] /\ job'[s].worker = w
      BY <2>3 DEF Job
    <3>2. \A u \in Slots \ {s} : job'[u] = job[u] /\ pc'[u] = pc[u]
      BY <2>3
    <3> QED BY <3>1, <3>2, <2>1, <2>3, <1>7 DEF WorkerGuardedCall, Refs
  <2> QED BY <1>7, <2>2, <2>3 DEF WorkerGuardedCall
<1>8. ASSUME NEW s \in Slots, NEW usage \in 0..MaxUsage, GuardedCallEnds(s, usage)
      PROVE  TypeOK'
  <2>1. guards' \in [Workers -> Guard]
    BY <1>8, BudgetAssumption DEF GuardedCallEnds, Guard
  <2>2. pc' = [pc EXCEPT ![s] = "idle"] /\ job' = [job EXCEPT ![s] = NoJob]
    BY <1>8 DEF GuardedCallEnds, Ends
  <2> QED BY <1>8, <2>1, <2>2, NoJobTyped DEF GuardedCallEnds, Refs
<1>9. ASSUME NEW w \in Workers, Kill(w)
      PROVE  TypeOK'
  BY <1>9 DEF Kill, Guard, Refs
<1>10. CASE KillAll
  BY <1>10 DEF KillAll, Guard, Refs
<1>11. ASSUME NEW s \in Slots, NEW by, NEW task, NEW arg, NEW got, Holds(s, by, task, arg, got)
       PROVE  TypeOK'
  BY <1>11 DEF Holds, Refs
<1>12. ASSUME NEW s \in Slots, Release(s)
       PROVE  TypeOK'
  BY <1>12, NoJobTyped DEF Release, Ends, Refs
<1>13. CASE UNCHANGED vars
  BY <1>13 DEF vars, Refs
<1> QED
  BY <1>1, <1>2, <1>3, <1>4, <1>5, <1>6, <1>7, <1>8, <1>9, <1>10, <1>11, <1>12, <1>13
  DEF Next, Boots, Asks, Guarded, Routes, ResolveModelWithRouter, ResolveModelMultiDim, SelectTier

-----------------------------------------------------------------------------
(* Budgets. *)

\* A slot that starts a call of w, in a state where w's guard allows it,
\* keeps the bound, and a slot that ends one does.
LEMMA StartKeepsBound ==
  ASSUME TypeOK, OvershootBounded, NEW s \in Slots, NEW w \in Workers, NEW p \in Providers,
         WorkerGuardedCall(s, w, p)
  PROVE  OvershootBounded'
<1> USE DEF TypeOK
<1>1. /\ guards' = [guards EXCEPT ![w] = RegisteredWorker(w)]
      /\ pc[s] = "idle"
  BY DEF WorkerGuardedCall
<1>2. \A v \in Workers : guards'[v].calls = guards[v].calls /\ guards'[v].tokens = guards[v].tokens
  BY <1>1, RegisteredTyped
<1>3. CASE UNCHANGED <<pc, job>>
  <2>1. \A v \in Workers : InFlight(v)' = InFlight(v)
    BY <1>3 DEF InFlight
  <2> QED BY <1>2, <2>1 DEF OvershootBounded
<1>4. CASE /\ Verdict(RegisteredWorker(w))
           /\ pc' = [pc EXCEPT ![s] = "guarded"] /\ job' = [job EXCEPT ![s].worker = w]
  <2>1. /\ pc'[s] = "guarded" /\ job'[s].worker = w
        /\ \A u \in Slots \ {s} : pc'[u] = pc[u] /\ job'[u] = job[u]
    BY <1>4 DEF Job
  <2>2. \A v \in Workers \ {w} : InFlight(v)' = InFlight(v)
    BY <1>1, <2>1 DEF InFlight
  <2>3. InFlight(w)' = InFlight(w) \cup {s}
    BY <2>1 DEF InFlight
  <2>4. InFlight(w)' \subseteq Slots
    BY DEF InFlight
  <2>5. /\ Cardinality(InFlight(w)') <= Cardinality(Slots)
        /\ Cardinality(InFlight(w)') \in Nat
    BY <2>4, SlotAssumption, FS_Subset, FS_CardinalityType
  <2>6. guards[w].calls < CallBudget /\ guards[w].tokens < TokenBudget
    BY <1>4, RegisteredTyped DEF Verdict
  <2>7. guards[w].calls \in Nat /\ guards[w].tokens \in Nat
    BY DEF Guard
  <2>8. MaxUsage * Cardinality(InFlight(w)') <= MaxUsage * Cardinality(Slots)
        /\ MaxUsage * Cardinality(InFlight(w)') \in Nat /\ MaxUsage * Cardinality(Slots) \in Nat
    BY <2>5, Monotone, Budgets, BudgetAssumption
  <2>9. guards'[w].calls + Cardinality(InFlight(w)') < CallBudget + Cardinality(Slots)
    BY <2>5, <2>6, <2>7, <1>2, Budgets
  <2>10. guards'[w].tokens + MaxUsage * Cardinality(InFlight(w)')
           < TokenBudget + MaxUsage * Cardinality(Slots)
    <3> DEFINE x == MaxUsage * Cardinality(InFlight(w)')
               y == MaxUsage * Cardinality(Slots)
    <3>1. x \in Nat /\ y \in Nat /\ x <= y /\ guards'[w].tokens = guards[w].tokens
      BY <2>8, <1>2
    <3> HIDE DEF x, y
    <3>2. guards'[w].tokens + x < TokenBudget + y
      BY <3>1, <2>6, <2>7, Budgets
    <3> QED BY <3>2 DEF x, y
  <2> QED BY <1>2, <2>2, <2>9, <2>10 DEF OvershootBounded
<1> QED BY <1>3, <1>4 DEF WorkerGuardedCall

LEMMA EndKeepsBound ==
  ASSUME TypeOK, OvershootBounded, NEW s \in Slots, NEW usage \in 0..MaxUsage,
         GuardedCallEnds(s, usage)
  PROVE  OvershootBounded'
<1> USE DEF TypeOK
<1>1. PICK w \in Workers : pc[s] = "guarded" /\ w = job[s].worker
  BY DEF GuardedCallEnds
<1>2. /\ pc' = [pc EXCEPT ![s] = "idle"]
      /\ \A u \in Slots \ {s} : job'[u] = job[u]
  BY DEF GuardedCallEnds, Ends
<1>3. /\ guards'[w].calls <= guards[w].calls + 1 /\ guards'[w].tokens <= guards[w].tokens + usage
      /\ guards'[w].calls \in Nat /\ guards'[w].tokens \in Nat
      /\ \A v \in Workers \ {w} : guards'[v] = guards[v]
  <2>1. guards[w] \in Guard /\ usage \in Nat
    BY <1>1, BudgetAssumption
  <2>2. CASE usage = 0
    BY <2>1, <2>2 DEF GuardedCallEnds, Guard
  <2>3. CASE usage # 0
    <3>1. guards' = [guards EXCEPT ![w] = [guards[w] EXCEPT !.calls = @ + 1, !.tokens = @ + usage]]
      BY <2>3, <1>1 DEF GuardedCallEnds
    <3> QED BY <3>1, <2>1, <1>1 DEF Guard
  <2> QED BY <2>2, <2>3
<1>4. InFlight(w)' = InFlight(w) \ {s} /\ s \in InFlight(w)
  BY <1>1, <1>2 DEF InFlight
<1>5. \A v \in Workers \ {w} : InFlight(v)' = InFlight(v)
  BY <1>1, <1>2 DEF InFlight
<1>6. /\ Cardinality(InFlight(w)') \in Nat
      /\ Cardinality(InFlight(w)) = Cardinality(InFlight(w)') + 1
  <2>1. IsFiniteSet(InFlight(w)) /\ Cardinality(InFlight(w)) \in Nat
    BY InFlightCard
  <2>2. /\ IsFiniteSet(InFlight(w) \ {s})
        /\ Cardinality(InFlight(w) \ {s}) = Cardinality(InFlight(w)) - 1
    BY <2>1, <1>4, FS_RemoveElement
  <2>3. Cardinality(InFlight(w) \ {s}) \in Nat
    BY <2>2, FS_CardinalityType
  <2> QED BY <2>1, <2>2, <2>3, <1>4
<1>7. /\ MaxUsage * Cardinality(InFlight(w)) = MaxUsage * Cardinality(InFlight(w)') + MaxUsage
      /\ MaxUsage * Cardinality(InFlight(w)') \in Nat
  BY <1>6, Monotone, BudgetAssumption
<1>8. guards'[w].calls + Cardinality(InFlight(w)') < CallBudget + Cardinality(Slots)
  <2>1. /\ guards[w].calls + Cardinality(InFlight(w)) < CallBudget + Cardinality(Slots)
        /\ guards[w].calls \in Nat
    BY <1>1 DEF OvershootBounded, Guard
  <2> QED BY <2>1, <1>3, <1>6, Budgets
<1>9. guards'[w].tokens + MaxUsage * Cardinality(InFlight(w)')
        < TokenBudget + MaxUsage * Cardinality(Slots)
  <2> DEFINE x == MaxUsage * Cardinality(InFlight(w)')
             z == MaxUsage * Cardinality(InFlight(w))
             y == MaxUsage * Cardinality(Slots)
  <2>1. guards[w].tokens + z < TokenBudget + y /\ guards[w].tokens \in Nat
    BY <1>1 DEF OvershootBounded, Guard
  <2>2. z = x + MaxUsage /\ x \in Nat /\ y \in Nat
    BY <1>7, Monotone, Budgets, BudgetAssumption
  <2> HIDE DEF x, y, z
  <2>3. guards'[w].tokens + x < TokenBudget + y
    BY <2>1, <2>2, <1>3, Budgets, BudgetAssumption
  <2> QED BY <2>3 DEF x, y
<1> QED BY <1>3, <1>5, <1>8, <1>9 DEF OvershootBounded

\* Every action keeps the bound.
LEMMA NextBound == TypeOK /\ OvershootBounded /\ [Next]_vars => OvershootBounded'
<1> SUFFICES ASSUME TypeOK, OvershootBounded, [Next]_vars PROVE OvershootBounded'
  OBVIOUS
<1> DEFINE Same == /\ \A v \in Workers : InFlight(v)' = InFlight(v)
                   /\ \A v \in Workers : /\ guards'[v].calls = guards[v].calls
                                         /\ guards'[v].tokens = guards[v].tokens
<1>1. Same => OvershootBounded'
  BY DEF OvershootBounded
<1> USE DEF TypeOK
<1>2. ASSUME UNCHANGED <<guards, pc, job>> PROVE Same
  BY <1>2 DEF InFlight
<1>3. ASSUME NEW s \in Slots, UNCHANGED guards, pc[s] # "guarded", pc'[s] # "guarded",
             \A u \in Slots \ {s} : pc'[u] = pc[u] /\ job'[u] = job[u]
      PROVE  Same
  BY <1>3 DEF InFlight
<1>4. CASE Boots
  BY <1>1, <1>2, <1>4 DEF Boots, BootstrapLiveProviders, Register, ValidateRoutingRegistered
<1>5. ASSUME NEW s \in Slots, Asks(s)
      PROVE  OvershootBounded'
  <2>1. /\ UNCHANGED guards /\ pc[s] # "guarded" /\ pc'[s] # "guarded"
        /\ \A u \in Slots \ {s} : pc'[u] = pc[u] /\ job'[u] = job[u]
    BY <1>5 DEF Asks, AskModel, ProviderAnswers, Ends
  <2> QED BY <2>1, <1>1, <1>3
<1>6. ASSUME NEW s \in Slots, Routes(s)
      PROVE  OvershootBounded'
  <2>1. /\ UNCHANGED guards /\ pc[s] # "guarded" /\ pc'[s] # "guarded"
        /\ \A u \in Slots \ {s} : pc'[u] = pc[u] /\ job'[u] = job[u]
    BY <1>6 DEF Routes, ResolveModelWithRouter, ResolveModelMultiDim, SelectTier, Holds, Release, Ends
  <2> QED BY <2>1, <1>1, <1>3
<1>7. ASSUME NEW s \in Slots, Guarded(s)
      PROVE  OvershootBounded'
  BY <1>7, StartKeepsBound, EndKeepsBound DEF Guarded
<1>8. ASSUME NEW w \in Workers, RegisterWorker(w) \/ Kill(w)
      PROVE  OvershootBounded'
  <2>1. CASE RegisterWorker(w)
    BY <2>1, <1>1, RegisteredTyped DEF RegisterWorker, InFlight
  <2>2. CASE Kill(w)
    BY <2>2, <1>1 DEF Kill, InFlight, Guard
  <2> QED BY <1>8, <2>1, <2>2
<1>9. CASE KillAll
  BY <1>9, <1>1 DEF KillAll, InFlight, Guard
<1>10. CASE UNCHANGED vars
  BY <1>10, <1>1, <1>2 DEF vars
<1> QED BY <1>4, <1>5, <1>6, <1>7, <1>8, <1>9, <1>10 DEF Next

-----------------------------------------------------------------------------
(* Routes. *)

\* Adapters are only added, so what the boot-time check saw stays true.
LEMMA NextRouted == TypeOK /\ RoutedRegistered /\ [Next]_vars => RoutedRegistered'
<1> SUFFICES ASSUME TypeOK, RoutedRegistered, [Next]_vars PROVE RoutedRegistered'
  OBVIOUS
<1>1. CASE BootstrapLiveProviders
  <2>1. Registered \subseteq Registered' /\ validated' = validated
    BY <1>1 DEF BootstrapLiveProviders, Registered
  <2> QED BY <2>1 DEF RoutedRegistered
<1>2. ASSUME NEW p \in Providers, NEW kind \in {"scripted", "off"}, Register(p, kind)
      PROVE  RoutedRegistered'
  <2>1. Registered \subseteq Registered' /\ validated' = validated
    BY <1>2 DEF Register, Registered, TypeOK
  <2> QED BY <2>1 DEF RoutedRegistered
<1>3. CASE ValidateRoutingRegistered
  BY <1>3 DEF ValidateRoutingRegistered, RoutedRegistered, Registered
<1>4. CASE UNCHANGED <<adapters, validated>>
  BY <1>4 DEF RoutedRegistered, Registered
<1>5. Next /\ ~Boots => UNCHANGED <<adapters, validated>>
  BY DEF Next, Asks, Guarded, Routes, AskModel, ProviderAnswers, WorkerGuardedCall, GuardedCallEnds,
         ResolveModelWithRouter, ResolveModelMultiDim, SelectTier, Holds, Release, RegisterWorker,
         Kill, KillAll
<1>6. UNCHANGED vars => UNCHANGED <<adapters, validated>>
  BY DEF vars
<1> QED BY <1>1, <1>2, <1>3, <1>4, <1>5, <1>6 DEF Boots

\* A route names only providers the check collected.
LEMMA RoutesFollow == RoutedRegistered => RoutesResolve
<1> SUFFICES ASSUME RoutedRegistered, validated, NEW a \in Agents, NEW t \in TaskClasses,
                    NEW i \in DOMAIN RefsOf(Routing, Overrides, a, t)
             PROVE  Parsed[RefsOf(Routing, Overrides, a, t)[i]] \in Registered
  BY DEF RoutesResolve, Callable, FirstMentions
<1> DEFINE refs == RefsOf(Routing, Overrides, a, t)
<1>1. refs[i] \in RoutedRefs(Routing, Overrides)
  <2>1. CASE <<t, a>> \in DOMAIN Overrides
    <3>1. refs = <<Overrides[<<t, a>>]>>
      BY <2>1 DEF RefsOf
    <3>2. i = 1 /\ refs[i] = Overrides[<<t, a>>]
      BY <3>1
    <3>3. Overrides[<<t, a>>] \in RoutedRefs(Routing, Overrides)
      BY <2>1 DEF RoutedRefs
    <3> HIDE DEF refs
    <3> QED BY <3>2, <3>3
  <2>2. CASE <<t, a>> \notin DOMAIN Overrides /\ a \in DOMAIN Routing
    <3>1. refs = Routing[a]
      BY <2>2 DEF RefsOf
    <3>2. i \in DOMAIN Routing[a] /\ refs[i] = Routing[a][i]
      BY <3>1
    <3>3. Routing[a][i] \in RoutedRefs(Routing, Overrides)
      BY <3>2, <2>2 DEF RoutedRefs, AgentRefs
    <3> HIDE DEF refs
    <3> QED BY <3>2, <3>3
  <2>3. CASE <<t, a>> \notin DOMAIN Overrides /\ a \notin DOMAIN Routing
    <3>1. refs = << >>
      BY <2>3 DEF RefsOf
    <3>2. i \in {}
      BY <3>1
    <3> QED BY <3>2
  <2> QED BY <2>1, <2>2, <2>3
<1> HIDE DEF refs
<1>2. Parsed[refs[i]] \in CollectRoutedProviderIds(Routing, Overrides, Parsed)
  BY <1>1 DEF CollectRoutedProviderIds
<1> QED BY <1>2 DEF RoutedRegistered, refs

-----------------------------------------------------------------------------
(* Kills. *)

\* Registering a worker keeps kills where they belong.
LEMMA RegisterKeepsKills ==
  ASSUME TypeOK, KillsKnown, NEW w \in Workers,
         guards' = [guards EXCEPT ![w] = RegisteredWorker(w)], poolKilled' = poolKilled
  PROVE  /\ KillsKnown'
         /\ \A v \in Workers : guards[v].killed => guards'[v].killed
         /\ (poolKilled \/ guards[w].killed) => RegisteredWorker(w).killed
<1>1. /\ RegisteredWorker(w).known
      /\ RegisteredWorker(w).killed = IF guards[w].known THEN guards[w].killed ELSE poolKilled
  BY DEF TypeOK, RegisteredWorker, Guard
<1>2. guards'[w] = RegisteredWorker(w) /\ \A v \in Workers \ {w} : guards'[v] = guards[v]
  BY DEF TypeOK
<1> QED BY <1>1, <1>2 DEF KillsKnown

\* What a step may not do once a worker or the pool is killed.
Silent ==
  /\ \A w \in Workers : (poolKilled \/ guards[w].killed) =>
       /\ InFlight(w)' \subseteq InFlight(w)
       /\ guards[w].killed => guards'[w].killed
  /\ poolKilled => poolKilled'

LEMMA NextSilent == TypeOK /\ KillsKnown /\ [Next]_vars => KillsKnown' /\ Silent
<1> SUFFICES ASSUME TypeOK, KillsKnown, [Next]_vars PROVE KillsKnown' /\ Silent
  OBVIOUS
<1>1. ASSUME UNCHANGED <<guards, poolKilled>>,
             NEW s \in Slots, pc'[s] # "guarded", \A u \in Slots \ {s} : pc'[u] = pc[u] /\ job'[u] = job[u]
      PROVE  KillsKnown' /\ Silent
  BY <1>1 DEF KillsKnown, Silent, InFlight
<1>2. ASSUME UNCHANGED <<guards, poolKilled, pc, job>> PROVE KillsKnown' /\ Silent
  BY <1>2 DEF KillsKnown, Silent, InFlight
<1>3. CASE Boots
  BY <1>2, <1>3 DEF Boots, BootstrapLiveProviders, Register, ValidateRoutingRegistered
<1>4. ASSUME NEW s \in Slots, Asks(s) \/ Routes(s)
      PROVE  KillsKnown' /\ Silent
  <2>1. UNCHANGED <<guards, poolKilled>> /\ pc'[s] # "guarded"
    BY <1>4 DEF Asks, AskModel, ProviderAnswers, Ends, Routes, ResolveModelWithRouter,
                ResolveModelMultiDim, SelectTier, Holds, Release, TypeOK
  <2>2. \A u \in Slots \ {s} : pc'[u] = pc[u] /\ job'[u] = job[u]
    BY <1>4 DEF Asks, AskModel, ProviderAnswers, Ends, Routes, ResolveModelWithRouter,
                ResolveModelMultiDim, SelectTier, Holds, Release, TypeOK
  <2> QED BY <1>1, <2>1, <2>2
<1>5. ASSUME NEW s \in Slots, NEW w \in Workers, NEW p \in Providers, WorkerGuardedCall(s, w, p)
      PROVE  KillsKnown' /\ Silent
  <2>1. /\ guards' = [guards EXCEPT ![w] = RegisteredWorker(w)] /\ poolKilled' = poolKilled
        /\ \/ Verdict(RegisteredWorker(w))
              /\ pc' = [pc EXCEPT ![s] = "guarded"] /\ job' = [job EXCEPT ![s].worker = w]
           \/ UNCHANGED <<pc, job>>
    BY <1>5 DEF WorkerGuardedCall
  <2>2. \A v \in Workers : (poolKilled \/ guards[v].killed) => InFlight(v)' \subseteq InFlight(v)
    <3>1. CASE UNCHANGED <<pc, job>>
      BY <3>1 DEF InFlight
    <3>2. CASE /\ Verdict(RegisteredWorker(w))
               /\ pc' = [pc EXCEPT ![s] = "guarded"] /\ job' = [job EXCEPT ![s].worker = w]
      <4>1. ~RegisteredWorker(w).killed
        BY <3>2 DEF Verdict
      <4>2. ~(poolKilled \/ guards[w].killed)
        BY <4>1, <2>1, RegisterKeepsKills
      <4>3. job'[s].worker = w /\ \A u \in Slots \ {s} : pc'[u] = pc[u] /\ job'[u] = job[u]
        BY <3>2 DEF TypeOK, Job
      <4>4. \A v \in Workers \ {w} : InFlight(v)' \subseteq InFlight(v)
        BY <4>3 DEF InFlight
      <4> QED BY <4>2, <4>4
    <3> QED BY <2>1, <3>1, <3>2
  <2> QED BY <2>1, <2>2, RegisterKeepsKills DEF Silent
<1>6. ASSUME NEW s \in Slots, NEW usage \in 0..MaxUsage, GuardedCallEnds(s, usage)
      PROVE  KillsKnown' /\ Silent
  <2>1. /\ \A v \in Workers : guards'[v].known = guards[v].known /\ guards'[v].killed = guards[v].killed
        /\ poolKilled' = poolKilled
    BY <1>6 DEF GuardedCallEnds, TypeOK, Guard
  <2>2. pc'[s] # "guarded" /\ \A u \in Slots \ {s} : pc'[u] = pc[u] /\ job'[u] = job[u]
    BY <1>6 DEF GuardedCallEnds, Ends, TypeOK
  <2> QED BY <2>1, <2>2 DEF KillsKnown, Silent, InFlight
<1>7. ASSUME NEW w \in Workers, RegisterWorker(w)
      PROVE  KillsKnown' /\ Silent
  BY <1>7, RegisterKeepsKills DEF RegisterWorker, Silent, InFlight
<1>8. ASSUME NEW w \in Workers, Kill(w)
      PROVE  KillsKnown' /\ Silent
  BY <1>8 DEF Kill, KillsKnown, Silent, InFlight, TypeOK, Guard
<1>9. CASE KillAll
  BY <1>9 DEF KillAll, KillsKnown, Silent, InFlight, TypeOK, Guard
<1>10. CASE UNCHANGED vars
  BY <1>10, <1>2 DEF vars
<1> QED BY <1>3, <1>4, <1>5, <1>6, <1>7, <1>8, <1>9, <1>10 DEF Next, Guarded

-----------------------------------------------------------------------------
(* Least and greatest elements of finite sets. *)

\* A nonempty set of naturals has a least element.
LEMMA LeastNatural ==
  ASSUME NEW T \in SUBSET Nat, T # {}
  PROVE  \E x \in T : \A y \in T : x <= y
<1> DEFINE less == {ss \in Nat \X Nat : ss[1] < ss[2]}
<1>1. IsWellFoundedOn(less, Nat)
  BY NatLessThanWellFounded DEF OpToRel
<1>2. \A x, y \in Nat : x < y => <<x, y>> \in less
  OBVIOUS
<1>3. T \subseteq Nat
  OBVIOUS
<1> HIDE DEF less
<1>4. PICK x \in T : \A y \in T : ~(<<y, x>> \in less)
  BY <1>1, <1>3, WFMin, Zenon
<1>5. \A y \in T : ~(y < x)
  BY <1>2, <1>3, <1>4
<1> QED BY <1>3, <1>5

\* In a finite set with a strict total order one comes before all others.
LEMMA FirstExists ==
  ASSUME NEW S, IsFiniteSet(S), S # {}, NEW R,
         \A a, b \in S : a # b => <<a, b>> \in R \/ <<b, a>> \in R,
         \A a, b, c \in S : <<a, b>> \in R /\ <<b, c>> \in R => <<a, c>> \in R
  PROVE  \E m \in S : \A n \in S \ {m} : <<m, n>> \in R
<1> DEFINE HasFirst(U) == \E m \in U : \A n \in U \ {m} : <<m, n>> \in R
           Headless == {U \in SUBSET S : U # {} /\ ~HasFirst(U)}
           T == {Cardinality(U) : U \in Headless}
<1>1. SUFFICES ASSUME S \in Headless PROVE FALSE
  OBVIOUS
<1>2. \A U \in SUBSET S : IsFiniteSet(U) /\ Cardinality(U) \in Nat
  BY FS_Subset, FS_CardinalityType
<1>3. T \subseteq Nat /\ T # {}
  BY <1>1, <1>2
<1>4. PICK k \in T : \A y \in T : k <= y
  <2> HIDE DEF T
  <2> QED BY <1>3, LeastNatural
<1>5. PICK U \in Headless : Cardinality(U) = k
  OBVIOUS
<1>6. PICK x \in U : TRUE
  OBVIOUS
<1>7. /\ U \in SUBSET S /\ U \ {x} \in SUBSET S /\ x \in S
      /\ Cardinality(U \ {x}) = Cardinality(U) - 1
  <2>1. U \in SUBSET S /\ IsFiniteSet(U)
    BY <1>2
  <2> QED BY <2>1, <1>6, FS_RemoveElement
<1>8. U \ {x} \notin Headless
  <2> SUFFICES ASSUME U \ {x} \in Headless PROVE FALSE
    OBVIOUS
  <2>1. Cardinality(U) \in Nat /\ ~(Cardinality(U) <= Cardinality(U \ {x}))
    <3>1. Cardinality(U) \in Nat
      BY <1>2, <1>7
    <3> QED BY <1>7, <3>1
  <2>2. Cardinality(U \ {x}) \in T
    OBVIOUS
  <2> HIDE DEF T
  <2> QED BY <1>4, <1>5, <2>1, <2>2
<1>9. U \ {x} # {}
  <2>1. ~HasFirst(U)
    OBVIOUS
  <2> QED BY <1>6, <2>1
<1>10. PICK m \in U \ {x} : \A n \in (U \ {x}) \ {m} : <<m, n>> \in R
  BY <1>7, <1>8, <1>9
<1>11. HasFirst(U)
  <2>1. CASE <<m, x>> \in R
    <3>1. \A n \in U \ {m} : <<m, n>> \in R
      BY <1>10, <2>1
    <3> QED BY <3>1
  <2>2. CASE <<x, m>> \in R
    <3>1. \A n \in U \ {x} : <<x, n>> \in R
      BY <1>7, <1>10, <2>2
    <3> QED BY <1>6, <3>1
  <2> QED BY <1>7, <2>1, <2>2
<1> QED BY <1>11

\* A finite nonempty set of integers has a greatest and a least element.
LEMMA Extremes ==
  ASSUME NEW S \in SUBSET Int, IsFiniteSet(S), S # {}
  PROVE  /\ Max(S) \in S /\ \A x \in S : x <= Max(S)
         /\ Min(S) \in S /\ \A x \in S : Min(S) <= x
<1>1. PICK m \in S : \A n \in S \ {m} : m > n
  <2> DEFINE R == {ss \in Int \X Int : ss[1] > ss[2]}
  <2>1. \A a, b \in Int : <<a, b>> \in R <=> a > b
    OBVIOUS
  <2> HIDE DEF R
  <2>2. /\ \A a, b \in S : a # b => <<a, b>> \in R \/ <<b, a>> \in R
        /\ \A a, b, c \in S : <<a, b>> \in R /\ <<b, c>> \in R => <<a, c>> \in R
    BY <2>1
  <2>3. \E m \in S : \A n \in S \ {m} : <<m, n>> \in R
    BY <2>2, FirstExists
  <2> QED BY <2>1, <2>3
<1>2. PICK least \in S : \A n \in S \ {least} : least < n
  <2> DEFINE R == {ss \in Int \X Int : ss[1] < ss[2]}
  <2>1. \A a, b \in Int : <<a, b>> \in R <=> a < b
    OBVIOUS
  <2> HIDE DEF R
  <2>2. /\ \A a, b \in S : a # b => <<a, b>> \in R \/ <<b, a>> \in R
        /\ \A a, b, c \in S : <<a, b>> \in R /\ <<b, c>> \in R => <<a, c>> \in R
    BY <2>1
  <2>3. \E k \in S : \A n \in S \ {k} : <<k, n>> \in R
    BY <2>2, FirstExists
  <2> QED BY <2>1, <2>3
<1>3. Max(S) \in S /\ \A x \in S : x <= Max(S)
  <2>1. \E y \in S : \A x \in S : y >= x
    BY <1>1
  <2> QED BY <2>1 DEF Max
<1>4. Min(S) \in S /\ \A x \in S : Min(S) <= x
  <2>1. \E y \in S : \A x \in S : y <= x
    <3>1. least \in S /\ least \in Int /\ \A x \in S : x \in Int
      BY <1>2
    <3>2. \A x \in S : least <= x
      BY <1>2, <3>1
    <3> QED BY <3>1, <3>2
  <2> QED BY <2>1 DEF Min
<1> QED BY <1>3, <1>4

\* Names tell the models of a valid registry apart.
LEMMA NamesAreUnique ==
  ASSUME NEW m \in Models
  PROVE  PickOf(m.name) = m /\ m.name # NoModel
<1> DEFINE names == {x.name : x \in Models}
           f == [x \in Models |-> x.name]
<1>1. Cardinality(names) = Cardinality(Models) /\ NoModel \notin names /\ IsFiniteSet(Models)
  BY RegistryAssumption, RouterAssumption DEF RegistryIsValid
<1>2. f \in Surjection(Models, names)
  BY DEF Surjection
<1>3. f \in Injection(Models, names)
  <2> HIDE DEF f, names
  <2> QED BY <1>1, <1>2, FS_SurjSameCardinalityImpliesInj
<1>4. \A x, y \in Models : x.name = y.name => x = y
  BY <1>3 DEF Injection, IsInjective
<1>5. PickOf(m.name) = m
  BY <1>4 DEF PickOf
<1> QED BY <1>1, <1>5

\* The order of fractions with positive denominators is transitive.
LEMMA Fractions ==
  ASSUME NEW a \in Int, NEW b \in Int, NEW c \in Int,
         NEW p \in Nat \ {0}, NEW q \in Nat \ {0}, NEW r \in Nat \ {0},
         a * q >= b * p, b * r >= c * q
  PROVE  \/ a * r > c * p
         \/ a * r = c * p /\ a * q = b * p /\ b * r = c * q
<1>1. (a * q) * r >= (b * p) * r /\ (b * r) * p >= (c * q) * p
  BY SMT
<1>2. (b * p) * r = (b * r) * p /\ (a * q) * r = q * (a * r) /\ (c * q) * p = q * (c * p)
  BY SMT
<1>3. q * (a * r) >= q * (c * p)
  BY <1>1, <1>2, SMT
<1>4. a * r >= c * p
  BY <1>3, SMT
<1>5. ASSUME a * r = c * p
      PROVE  a * q = b * p /\ b * r = c * q
  <2>1. (a * q) * r = (b * p) * r /\ (b * r) * p = (c * q) * p
    BY <1>1, <1>2, <1>5, SMT
  <2> QED BY <2>1, SMT
<1> QED BY <1>4, <1>5

LEMMA Exchange ==
  ASSUME NEW x \in Int, NEW y \in Int, NEW d \in Nat \ {0}, NEW l \in Nat, NEW u \in Nat, l < u,
         NEW cp \in Int, NEW cq \in Int,
         x - l * cp * d >= y - l * cq * d, y - u * cq * d >= x - u * cp * d
  PROVE  cq <= cp
<1>1. SUFFICES ASSUME cq > cp PROVE FALSE
  OBVIOUS
<1>2. (u - l) * cp * d >= (u - l) * cq * d
  BY SMT
<1>3. (u - l) * d \in Nat /\ (u - l) * d > 0
  BY SMT
<1>4. (u - l) * d * (cq - cp) > 0
  BY <1>1, <1>3, SMT
<1> QED BY <1>2, <1>4, SMT

-----------------------------------------------------------------------------
(* The static router. *)

\* What comes first for a task of a complexity.
PriceBefore(m, n, complexity) ==
  \/ m.price = n.price /\ m.name < n.name
  \/ m.price # n.price /\
       IF WantStrong(complexity) THEN m.price > n.price
       ELSE n.price = Unpriced \/ (m.price # Unpriced /\ m.price < n.price)

LEMMA CapableFinite ==
  ASSUME NEW cap
  PROVE  Capable(Models, cap) \subseteq Models /\ IsFiniteSet(Capable(Models, cap))
<1>1. Capable(Models, cap) \in SUBSET Models
  BY DEF Capable
<1> QED BY <1>1, RouterAssumption, FS_Subset

LEMMA StaticPick ==
  ASSUME NEW cap, NEW c, Capable(Models, cap) # {}
  PROVE  \E m \in Capable(Models, cap) :
           /\ PickOf(SelectModelForTask(Models, c, cap)) = m
           /\ \A n \in Capable(Models, cap) \ {m} : PriceBefore(m, n, c)
<1> DEFINE S == Capable(Models, cap)
           R == {ss \in S \X S : PriceBefore(ss[1], ss[2], c)}
<1>1. S \subseteq Models /\ IsFiniteSet(S)
  BY CapableFinite
<1>2. \A m \in S : m.name \in Nat /\ m.price \in Nat \cup {-1} /\ m \in Models
  BY <1>1, RouterAssumption DEF Unpriced
<1>3. \A m, n \in S : m.name = n.name => m = n
  BY <1>1, NamesAreUnique
<1>4. \A m, n \in S : <<m, n>> \in R <=> PriceBefore(m, n, c)
  OBVIOUS
<1> HIDE DEF S, R
<1>5. \A a, b \in S : a # b => PriceBefore(a, b, c) \/ PriceBefore(b, a, c)
  BY <1>2, <1>3 DEF PriceBefore, Unpriced
<1>6. \A a, b, d \in S : PriceBefore(a, b, c) /\ PriceBefore(b, d, c) => PriceBefore(a, d, c)
  BY <1>2 DEF PriceBefore, Unpriced
<1>7. \E m \in S : \A n \in S \ {m} : PriceBefore(m, n, c)
  <2>1. \E m \in S : \A n \in S \ {m} : <<m, n>> \in R
    <3>1. S # {}
      BY DEF S
    <3> QED BY <1>1, <1>4, <1>5, <1>6, <3>1, FirstExists
  <2> QED BY <1>4, <2>1
<1> DEFINE first == CHOOSE m \in S : \A n \in S \ {m} : PriceBefore(m, n, c)
<1>8. first \in S /\ \A n \in S \ {first} : PriceBefore(first, n, c)
  BY <1>7
<1>9. SelectModelForTask(Models, c, cap) = first.name
  BY DEF SelectModelForTask, FirstBy, S, PriceBefore
<1> HIDE DEF first
<1>10. PickOf(first.name) = first
  BY <1>1, <1>8, NamesAreUnique
<1> QED BY <1>8, <1>9, <1>10 DEF S

\* A larger task never goes to a cheaper model.
LEMMA LargerDearer ==
  ASSUME NEW cap, NEW c \in Nat, NEW d \in Nat, c < d, Capable(Models, cap) # {}
  PROVE  PickOf(SelectModelForTask(Models, c, cap)).price <= PickOf(SelectModelForTask(Models, d, cap)).price
<1>1. PICK m \in Capable(Models, cap) :
        /\ PickOf(SelectModelForTask(Models, c, cap)) = m
        /\ \A n \in Capable(Models, cap) \ {m} : PriceBefore(m, n, c)
  BY StaticPick
<1>2. PICK k \in Capable(Models, cap) :
        /\ PickOf(SelectModelForTask(Models, d, cap)) = k
        /\ \A n \in Capable(Models, cap) \ {k} : PriceBefore(k, n, d)
  BY StaticPick
<1>3. m.price \in Nat \cup {-1} /\ k.price \in Nat \cup {-1}
  BY CapableFinite, RouterAssumption DEF Unpriced
<1>4. WantStrong(c) => WantStrong(d)
  BY DEF WantStrong
<1>5. m # k => PriceBefore(m, k, c) /\ PriceBefore(k, m, d)
  BY <1>1, <1>2
<1>6. m.price <= k.price
  BY <1>3, <1>4, <1>5 DEF PriceBefore, Unpriced
<1> QED BY <1>1, <1>2, <1>6

-----------------------------------------------------------------------------
(* The router that weighs the cost. *)

Worst(S) == Max({CostTwice(m, S) : m \in S})
ScoreOf(m, S, task, lambda) ==
  Success(m, S, task)[1] * 2 * Worst(S) - lambda * CostTwice(m, S) * Success(m, S, task)[2]
ScaleOf(m, S, task) == Success(m, S, task)[2]

LEMMA PricesTyped ==
  ASSUME NEW S \in SUBSET Models, IsFiniteSet(S)
  PROVE  /\ IsFiniteSet(Prices(S)) /\ Prices(S) \subseteq Nat
         /\ Prices(S) # {} => /\ Max(Prices(S)) \in Nat /\ Min(Prices(S)) \in Nat
                              /\ \A x \in Prices(S) : Min(Prices(S)) <= x /\ x <= Max(Prices(S))
         /\ \A m \in S : CostTwice(m, S) \in Nat
<1>1. \A m \in S : m.price \in Nat \cup {-1}
  BY RouterAssumption DEF Unpriced
<1>2. Prices(S) \subseteq Nat
  BY <1>1 DEF Prices, Unpriced
<1>3. IsFiniteSet({m.price : m \in S})
  <2> DEFINE f == [m \in S |-> m.price]
             T == {m.price : m \in S}
  <2>1. f \in Surjection(S, T)
    BY DEF Surjection
  <2> HIDE DEF f, T
  <2>2. IsFiniteSet(T)
    BY <2>1, FS_Surjection
  <2> QED BY <2>2 DEF T
<1>4. IsFiniteSet(Prices(S))
  <2>1. Prices(S) \in SUBSET {m.price : m \in S}
    BY DEF Prices
  <2> QED BY <1>3, <2>1, FS_Subset
<1>5. Prices(S) # {} => /\ Max(Prices(S)) \in Nat /\ Min(Prices(S)) \in Nat
                        /\ \A x \in Prices(S) : Min(Prices(S)) <= x /\ x <= Max(Prices(S))
  <2> SUFFICES ASSUME Prices(S) # {}
               PROVE  /\ Max(Prices(S)) \in Nat /\ Min(Prices(S)) \in Nat
                      /\ \A x \in Prices(S) : Min(Prices(S)) <= x /\ x <= Max(Prices(S))
    OBVIOUS
  <2>1. Prices(S) \in SUBSET Int
    BY <1>2
  <2>2. /\ Max(Prices(S)) \in Prices(S) /\ \A x \in Prices(S) : x <= Max(Prices(S))
        /\ Min(Prices(S)) \in Prices(S) /\ \A x \in Prices(S) : Min(Prices(S)) <= x
    BY <1>4, <2>1, Extremes
  <2> QED BY <1>2, <2>2
<1>6. ASSUME NEW m \in S
      PROVE  CostTwice(m, S) \in Nat
  BY <1>1, <1>5 DEF CostTwice, Unpriced
<1> QED BY <1>2, <1>4, <1>5, <1>6

LEMMA SuccessTyped ==
  ASSUME NEW S \in SUBSET Models, IsFiniteSet(S), NEW m \in S, NEW task \in RouterTasks
  PROVE  Success(m, S, task)[1] \in Int /\ Success(m, S, task)[2] \in Nat \ {0}
<1>1. task.complexity \in Nat /\ task.long \in BOOLEAN
  BY RouterAssumption
<1>2. m.price \in Nat \cup {-1}
  BY RouterAssumption DEF Unpriced
<1> DEFINE s == StrengthOf(m, S)
           k == task.complexity
           full == s[1] * 4 >= k * s[2]
           den == IF full THEN 1 ELSE 20 * k * s[2]
           num == IF full THEN 1 ELSE Min({den, 15 * k * s[2] + 32 * s[1]})
           domain == IF task.domains = {} \/ task.domains \cap m.caps # {} THEN 4 ELSE 3
           context == IF task.long /\ ~m.long THEN 1 ELSE 2
<1>3. s[1] \in Nat /\ s[2] \in Nat
  <2>1. CASE m.price = Unpriced
    BY <2>1 DEF StrengthOf
  <2>2. CASE m.price # Unpriced
    <3>1. m.price \in Prices(S) /\ Prices(S) # {}
      BY <2>2 DEF Prices
    <3>2. /\ Max(Prices(S)) \in Nat /\ Min(Prices(S)) \in Nat /\ m.price \in Nat
          /\ Min(Prices(S)) <= m.price /\ m.price <= Max(Prices(S))
      BY <3>1, PricesTyped
    <3> QED BY <2>2, <3>2 DEF StrengthOf
  <2> QED BY <2>1, <2>2
<1>4. Success(m, S, task) = <<num * domain * context, den * 8>>
  BY DEF Success
<1> HIDE DEF s
<1>5. den \in Nat \ {0}
  <2>1. CASE full
    BY <2>1
  <2>2. CASE ~full
    <3>1. k * s[2] \in Nat
      BY <1>1, <1>3
    <3>2. 20 * k * s[2] = 20 * (k * s[2]) /\ k * s[2] > 0
      BY <1>1, <1>3, <2>2
    <3> QED BY <2>2, <3>1, <3>2
  <2> QED BY <2>1, <2>2
<1>6. num \in Int
  <2>1. CASE full
    BY <2>1
  <2>2. CASE ~full
    <3> DEFINE e == 15 * k * s[2] + 32 * s[1]
    <3>1. e \in Int
      BY <1>1, <1>3
    <3> HIDE DEF e, den
    <3>2. \E x \in {den, e} : \A y \in {den, e} : x <= y
      BY <1>5, <3>1
    <3>3. Min({den, e}) \in Int
      BY <1>5, <3>1, <3>2 DEF Min
    <3> QED BY <2>2, <3>3 DEF e
  <2> QED BY <2>1, <2>2
<1>7. domain \in Int /\ context \in Int
  OBVIOUS
<1> HIDE DEF num, den, domain, context
<1> QED BY <1>4, <1>5, <1>6, <1>7

LEMMA WorstTyped ==
  ASSUME NEW S \in SUBSET Models, IsFiniteSet(S), S # {}
  PROVE  Worst(S) \in Int
<1> DEFINE f == [m \in S |-> CostTwice(m, S)]
           T == {CostTwice(m, S) : m \in S}
<1>1. f \in Surjection(S, T)
  BY DEF Surjection
<1>2. T \in SUBSET Int /\ T # {} /\ Worst(S) = Max(T)
  BY PricesTyped DEF Worst
<1> HIDE DEF f, T
<1>3. IsFiniteSet(T)
  BY <1>1, FS_Surjection
<1> QED BY <1>2, <1>3, Extremes

\* The score of the model picked is the greatest, as fractions.
LEMMA CostPick ==
  ASSUME NEW task \in RouterTasks, NEW lambda \in Nat, Capable(Models, task.cap) # {}
  PROVE  LET S == Capable(Models, task.cap)
         IN \E m \in S :
              /\ PickOf(SelectModelCostAdjusted(task, Models, lambda)) = m
              /\ \A n \in S : ScoreOf(m, S, task, lambda) * ScaleOf(n, S, task)
                                >= ScoreOf(n, S, task, lambda) * ScaleOf(m, S, task)
<1> DEFINE S == Capable(Models, task.cap)
           Sc(m) == ScoreOf(m, S, task, lambda)
           Sk(m) == ScaleOf(m, S, task)
           Before(m, n) == \/ Sc(m) * Sk(n) > Sc(n) * Sk(m)
                           \/ Sc(m) * Sk(n) = Sc(n) * Sk(m) /\ m.name < n.name
           R == {ss \in S \X S : Before(ss[1], ss[2])}
           first == CHOOSE m \in S : \A n \in S \ {m} : Before(m, n)
<1>1. S \in SUBSET Models /\ IsFiniteSet(S) /\ S # {}
  BY CapableFinite
<1>2. SelectModelCostAdjusted(task, Models, lambda) = first.name
  BY DEF SelectModelCostAdjusted, FirstBy, ScoreOf, ScaleOf, Worst
<1>3. Worst(S) \in Int
  <2> HIDE DEF S
  <2> QED BY <1>1, WorstTyped
<1> HIDE DEF S
<1>4. \A m \in S : Success(m, S, task)[1] \in Int /\ Success(m, S, task)[2] \in Nat \ {0} /\ CostTwice(m, S) \in Nat
  BY <1>1, SuccessTyped, PricesTyped
<1>5. \A m \in S : Sc(m) \in Int /\ Sk(m) \in Nat \ {0}
  BY <1>3, <1>4 DEF ScoreOf, ScaleOf
<1>6. \A m, n \in S : m.name \in Nat /\ (m.name = n.name => m = n)
  BY <1>1, NamesAreUnique, RouterAssumption
<1>7. \A m, n \in S : <<m, n>> \in R <=> Before(m, n)
  OBVIOUS
<1> HIDE DEF Sc, Sk
<1>8. \A m, n \in S : Sc(m) * Sk(n) \in Int
  BY <1>5
<1>9. \A a, b \in S : a # b => Before(a, b) \/ Before(b, a)
  BY <1>6, <1>8
<1>10. \A a, b, c \in S : Before(a, b) /\ Before(b, c) => Before(a, c)
  <2> SUFFICES ASSUME NEW a \in S, NEW b \in S, NEW c \in S, Before(a, b), Before(b, c)
               PROVE  Before(a, c)
    OBVIOUS
  <2>1. \/ Sc(a) * Sk(c) > Sc(c) * Sk(a)
        \/ Sc(a) * Sk(c) = Sc(c) * Sk(a) /\ Sc(a) * Sk(b) = Sc(b) * Sk(a) /\ Sc(b) * Sk(c) = Sc(c) * Sk(b)
    BY <1>5, Fractions
  <2> QED BY <1>5, <1>6, <1>8, <2>1
<1>11. \E m \in S : \A n \in S \ {m} : Before(m, n)
  <2> HIDE DEF Before, R
  <2>1. \E m \in S : \A n \in S \ {m} : <<m, n>> \in R
    BY <1>1, <1>7, <1>9, <1>10, FirstExists
  <2> QED BY <1>7, <2>1
<1>12. first \in S /\ \A n \in S \ {first} : Before(first, n)
  <2> HIDE DEF Before
  <2> QED BY <1>11
<1> HIDE DEF first
<1>13. PickOf(first.name) = first
  BY <1>1, <1>12, NamesAreUnique
<1>14. \A n \in S : Sc(first) * Sk(n) >= Sc(n) * Sk(first)
  BY <1>8, <1>12
<1> QED BY <1>2, <1>12, <1>13, <1>14 DEF S, Sc, Sk

\* Weighing the cost more never picks a dearer model.
LEMMA CheaperPick ==
  ASSUME NEW task \in RouterTasks, NEW l \in Nat, NEW u \in Nat, l < u, Capable(Models, task.cap) # {}
  PROVE  LET S == Capable(Models, task.cap)
         IN CostTwice(PickOf(SelectModelCostAdjusted(task, Models, u)), S)
              <= CostTwice(PickOf(SelectModelCostAdjusted(task, Models, l)), S)
<1> DEFINE S == Capable(Models, task.cap)
           p == PickOf(SelectModelCostAdjusted(task, Models, l))
           q == PickOf(SelectModelCostAdjusted(task, Models, u))
<1>1. /\ p \in S /\ q \in S
      /\ ScoreOf(p, S, task, l) * ScaleOf(q, S, task) >= ScoreOf(q, S, task, l) * ScaleOf(p, S, task)
      /\ ScoreOf(q, S, task, u) * ScaleOf(p, S, task) >= ScoreOf(p, S, task, u) * ScaleOf(q, S, task)
  <2>1. \E m \in S : p = m /\ \A n \in S : ScoreOf(m, S, task, l) * ScaleOf(n, S, task)
                                             >= ScoreOf(n, S, task, l) * ScaleOf(m, S, task)
    BY CostPick
  <2>2. \E m \in S : q = m /\ \A n \in S : ScoreOf(m, S, task, u) * ScaleOf(n, S, task)
                                             >= ScoreOf(n, S, task, u) * ScaleOf(m, S, task)
    BY CostPick
  <2> HIDE DEF S, p, q
  <2> QED BY <2>1, <2>2
<1>2. S \in SUBSET Models /\ IsFiniteSet(S) /\ S # {}
  BY CapableFinite
<1>3. Worst(S) \in Int
  <2> HIDE DEF S
  <2> QED BY <1>2, WorstTyped
<1> HIDE DEF S, p, q
<1> DEFINE A(m) == Success(m, S, task)[1]
           B(m) == Success(m, S, task)[2]
           C(m) == CostTwice(m, S)
           W == Worst(S)
<1>4. /\ A(p) \in Int /\ B(p) \in Nat \ {0} /\ C(p) \in Nat
      /\ A(q) \in Int /\ B(q) \in Nat \ {0} /\ C(q) \in Nat /\ W \in Int
  BY <1>1, <1>2, <1>3, SuccessTyped, PricesTyped
<1>5. /\ (A(p) * 2 * W - l * C(p) * B(p)) * B(q) >= (A(q) * 2 * W - l * C(q) * B(q)) * B(p)
      /\ (A(q) * 2 * W - u * C(q) * B(q)) * B(p) >= (A(p) * 2 * W - u * C(p) * B(p)) * B(q)
  BY <1>1 DEF ScoreOf, ScaleOf
<1> HIDE DEF A, B, C, W
<1>6. PICK ap \in Int, bp \in Nat \ {0}, cp \in Nat, aq \in Int, bq \in Nat \ {0}, cq \in Nat, w \in Int :
        ap = A(p) /\ bp = B(p) /\ cp = C(p) /\ aq = A(q) /\ bq = B(q) /\ cq = C(q) /\ w = W
  BY <1>4
<1>7. /\ (ap * 2 * w - l * cp * bp) * bq >= (aq * 2 * w - l * cq * bq) * bp
      /\ (aq * 2 * w - u * cq * bq) * bp >= (ap * 2 * w - u * cp * bp) * bq
  BY <1>5, <1>6
<1>8. cq <= cp
  <2> DEFINE x == ap * 2 * w * bq
             y == aq * 2 * w * bp
             d == bp * bq
  <2>1. x \in Int /\ y \in Int /\ d \in Nat \ {0}
    BY SMT
  <2>2. /\ (ap * 2 * w - l * cp * bp) * bq = x - l * cp * d
        /\ (aq * 2 * w - l * cq * bq) * bp = y - l * cq * d
        /\ (aq * 2 * w - u * cq * bq) * bp = y - u * cq * d
        /\ (ap * 2 * w - u * cp * bp) * bq = x - u * cp * d
    BY SMT
  <2>3. x - l * cp * d >= y - l * cq * d /\ y - u * cq * d >= x - u * cp * d
    BY <1>7, <2>2
  <2> HIDE DEF x, y, d
  <2> QED BY <2>1, <2>3, Exchange
<1>9. CostTwice(q, S) <= CostTwice(p, S)
  BY <1>6, <1>8 DEF C
<1> QED BY <1>9 DEF S, p, q

-----------------------------------------------------------------------------
(* The tier ladder. *)

LEMMA LadderEnds ==
  ASSUME NEW X, NEW refs \in Seq(X), NEW S \in SUBSET Ladder(refs, TierOf), S # {}
  PROVE  /\ LadderFirst(S, refs, TierOf) \in S /\ LadderLast(S, refs, TierOf) \in S
         /\ \A i \in S : /\ TierOf[refs[i]] \in 0..2
                         /\ TierOf[refs[LadderFirst(S, refs, TierOf)]] <= TierOf[refs[i]]
                         /\ TierOf[refs[i]] <= TierOf[refs[LadderLast(S, refs, TierOf)]]
<1> DEFINE tier(i) == TierOf[refs[i]]
           Up(i, j) == tier(i) < tier(j) \/ (tier(i) = tier(j) /\ i < j)
           Down(i, j) == tier(i) > tier(j) \/ (tier(i) = tier(j) /\ i > j)
           R == {ss \in S \X S : Up(ss[1], ss[2])}
           Q == {ss \in S \X S : Down(ss[1], ss[2])}
<1>1. S \in SUBSET (1..Len(refs)) /\ Len(refs) \in Nat
  BY DEF Ladder
<1>2. IsFiniteSet(S)
  <2>1. 1 \in Int /\ Len(refs) \in Int
    BY <1>1
  <2>2. IsFiniteSet(1..Len(refs))
    BY <2>1, FS_Interval
  <2> QED BY <1>1, <2>2, FS_Subset
<1>3. \A i \in S : i \in Int /\ tier(i) \in 0..2
  <2>1. \A i \in S : i \in Int /\ refs[i] \in DOMAIN TierOf
    BY <1>1 DEF Ladder
  <2> QED BY <2>1, RouterAssumption
<1>4. \A i, j \in S : (<<i, j>> \in R <=> Up(i, j)) /\ (<<i, j>> \in Q <=> Down(i, j))
  OBVIOUS
<1> HIDE DEF tier
<1>5. /\ \A i, j \in S : i # j => (Up(i, j) \/ Up(j, i)) /\ (Down(i, j) \/ Down(j, i))
      /\ \A i, j, k \in S : (Up(i, j) /\ Up(j, k) => Up(i, k)) /\ (Down(i, j) /\ Down(j, k) => Down(i, k))
  BY <1>3
<1>6. (\E i \in S : \A j \in S \ {i} : Up(i, j)) /\ (\E i \in S : \A j \in S \ {i} : Down(i, j))
  <2> HIDE DEF R, Q, Up, Down
  <2>1. \E i \in S : \A j \in S \ {i} : <<i, j>> \in R
    BY <1>2, <1>4, <1>5, FirstExists
  <2>2. \E i \in S : \A j \in S \ {i} : <<i, j>> \in Q
    BY <1>2, <1>4, <1>5, FirstExists
  <2> QED BY <1>4, <2>1, <2>2
<1>7. /\ LadderFirst(S, refs, TierOf) = CHOOSE i \in S : \A j \in S \ {i} : Up(i, j)
      /\ LadderLast(S, refs, TierOf) = CHOOSE i \in S : \A j \in S \ {i} : Down(i, j)
  BY DEF LadderFirst, LadderLast, tier
<1>8. /\ LadderFirst(S, refs, TierOf) \in S
      /\ \A j \in S \ {LadderFirst(S, refs, TierOf)} : Up(LadderFirst(S, refs, TierOf), j)
      /\ LadderLast(S, refs, TierOf) \in S
      /\ \A j \in S \ {LadderLast(S, refs, TierOf)} : Down(LadderLast(S, refs, TierOf), j)
  <2> HIDE DEF Up, Down
  <2> QED BY <1>6, <1>7
<1>9. \A i \in S : tier(LadderFirst(S, refs, TierOf)) <= tier(i) /\ tier(i) <= tier(LadderLast(S, refs, TierOf))
  BY <1>3, <1>8
<1> QED BY <1>3, <1>8, <1>9 DEF tier

\* More failures never lead to a weaker tier.
LEMMA StrongerTier ==
  ASSUME NEW X, NEW refs \in Seq(X), NEW f \in Nat, NEW g \in Nat, f < g, NEW known \in BOOLEAN
  PROVE  SelectTierForAttempt(refs, TierOf, f, known, Policy) <= SelectTierForAttempt(refs, TierOf, g, known, Policy)
<1> DEFINE S == Ladder(refs, TierOf)
           low == TierOf[refs[LadderFirst(S, refs, TierOf)]]
           high == TierOf[refs[LadderLast(S, refs, TierOf)]]
           target == Min({low + 1, 2})
           up == {i \in S : TierOf[refs[i]] >= target}
           upgraded == TierOf[refs[IF up = {} THEN LadderLast(S, refs, TierOf) ELSE LadderFirst(up, refs, TierOf)]]
           Strong == known /\ Policy.hardStartsStrong
           Tier(n) == CASE S = {} -> 0
                        [] S # {} /\ Strong -> high
                        [] S # {} /\ ~Strong /\ n >= Policy.upgradeAfter -> upgraded
                        [] OTHER -> low
<1>1. /\ SelectTierForAttempt(refs, TierOf, f, known, Policy) = Tier(f)
      /\ SelectTierForAttempt(refs, TierOf, g, known, Policy) = Tier(g)
  BY DEF SelectTierForAttempt
<1>2. Policy.upgradeAfter \in Nat
  BY RouterAssumption
<1>3. CASE S = {}
  BY <1>1, <1>3
<1>4. CASE S # {}
  <2>1. low \in 0..2 /\ high \in 0..2 /\ low <= high /\ \A i \in S : TierOf[refs[i]] \in 0..2
    BY <1>4, LadderEnds
  <2>2. target \in 0..2 /\ low <= target
    <3> HIDE DEF low
    <3>1. \E x \in {low + 1, 2} : \A y \in {low + 1, 2} : x <= y
      BY <2>1
    <3> QED BY <2>1, <3>1 DEF Min
  <2>3. upgraded \in 0..2 /\ low <= upgraded
    <3>1. CASE up = {}
      BY <3>1, <2>1
    <3>2. CASE up # {}
      <4>1. LadderFirst(up, refs, TierOf) \in up
        BY <3>2, LadderEnds
      <4>2. TierOf[refs[LadderFirst(up, refs, TierOf)]] >= target /\ TierOf[refs[LadderFirst(up, refs, TierOf)]] \in 0..2
        BY <2>1, <4>1
      <4> HIDE DEF low, target
      <4> QED BY <2>1, <2>2, <3>2, <4>2
    <3> QED BY <3>1, <3>2
  <2> HIDE DEF S, low, high, upgraded
  <2>4. CASE Strong
    BY <1>1, <1>4, <2>1, <2>4
  <2>5. CASE ~Strong
    <3> HIDE DEF Strong
    <3> QED BY <1>1, <1>2, <1>4, <2>1, <2>3, <2>5
  <2> QED BY <2>4, <2>5
<1> QED BY <1>3, <1>4

-----------------------------------------------------------------------------
(* The answers that callers hold. *)

\* What the router can have answered to a question of each of its three kinds.
StaticAnswers ==
  {[by |-> "complexity", task |-> [cap |-> t.cap], arg |-> c,
    got |-> SelectModelForTask(Models, c, t.cap)] : t \in RouterTasks, c \in Complexities}
CostAnswers ==
  {[by |-> "cost", task |-> t, arg |-> l,
    got |-> SelectModelCostAdjusted(t, Models, l)] : t \in RouterTasks, l \in Lambdas}
TierAnswers ==
  {[by |-> "tier", task |-> [agent |-> a, known |-> k], arg |-> f,
    got |-> SelectTierForAttempt(RefsOf(Routing, << >>, a, None), TierOf, f, k, Policy)]
     : a \in Agents, k \in BOOLEAN, f \in Failures}

\* A caller holds an answer of the router and nothing else.
PicksAreAnswers ==
  \A s \in Slots : pc[s] = "routed" => pick[s] \in StaticAnswers \cup CostAnswers \cup TierAnswers

\* Two answers to questions of one kind about one task are in order.
InOrder(p, q) ==
  p.by = q.by /\ p.task = q.task /\ p.arg < q.arg /\ p.got # NoModel
    => CASE p.by = "cost" ->
              LET S == Capable(Models, p.task.cap)
              IN CostTwice(PickOf(q.got), S) <= CostTwice(PickOf(p.got), S)
         [] p.by = "complexity" -> PickOf(p.got).price <= PickOf(q.got).price
         [] p.by = "tier" -> p.got <= q.got

\* Without a model that can do the task the router answers NoModel.
LEMMA NothingCapable ==
  ASSUME NEW cap, Capable(Models, cap) = {}
  PROVE  /\ \A c : SelectModelForTask(Models, c, cap) = NoModel
         /\ \A t, l : t.cap = cap => SelectModelCostAdjusted(t, Models, l) = NoModel
BY DEF SelectModelForTask, SelectModelCostAdjusted, FirstBy

LEMMA StaticInOrder ==
  ASSUME NEW p \in StaticAnswers, NEW q \in StaticAnswers
  PROVE  InOrder(p, q)
<1>1. PICK t \in RouterTasks, c \in Complexities :
        p = [by |-> "complexity", task |-> [cap |-> t.cap], arg |-> c,
             got |-> SelectModelForTask(Models, c, t.cap)]
  BY DEF StaticAnswers
<1>2. PICK u \in RouterTasks, d \in Complexities :
        q = [by |-> "complexity", task |-> [cap |-> u.cap], arg |-> d,
             got |-> SelectModelForTask(Models, d, u.cap)]
  BY DEF StaticAnswers
<1>3. SUFFICES ASSUME p.task = q.task, p.arg < q.arg, p.got # NoModel
               PROVE  PickOf(p.got).price <= PickOf(q.got).price
  BY <1>1 DEF InOrder
<1>4. c \in Nat /\ d \in Nat /\ c < d
  BY <1>1, <1>2, <1>3, RouterAssumption
<1>5. u.cap = t.cap
  <2>1. [cap |-> t.cap] = [cap |-> u.cap]
    BY <1>1, <1>2, <1>3
  <2>2. [cap |-> t.cap].cap = t.cap /\ [cap |-> u.cap].cap = u.cap
    OBVIOUS
  <2> QED BY <2>1, <2>2
<1>6. p.got = SelectModelForTask(Models, c, t.cap) /\ q.got = SelectModelForTask(Models, d, t.cap)
  BY <1>1, <1>2, <1>5
<1>7. Capable(Models, t.cap) # {}
  BY <1>3, <1>6, NothingCapable
<1> QED BY <1>4, <1>6, <1>7, LargerDearer

LEMMA CostInOrder ==
  ASSUME NEW p \in CostAnswers, NEW q \in CostAnswers
  PROVE  InOrder(p, q)
<1>1. PICK t \in RouterTasks, l \in Lambdas :
        p = [by |-> "cost", task |-> t, arg |-> l, got |-> SelectModelCostAdjusted(t, Models, l)]
  BY DEF CostAnswers
<1>2. PICK v \in RouterTasks, u \in Lambdas :
        q = [by |-> "cost", task |-> v, arg |-> u, got |-> SelectModelCostAdjusted(v, Models, u)]
  BY DEF CostAnswers
<1>3. SUFFICES ASSUME p.task = q.task, p.arg < q.arg, p.got # NoModel
               PROVE  CostTwice(PickOf(q.got), Capable(Models, p.task.cap))
                        <= CostTwice(PickOf(p.got), Capable(Models, p.task.cap))
  BY <1>1 DEF InOrder
<1>4. l \in Nat /\ u \in Nat /\ l < u /\ p.task = t
  BY <1>1, <1>2, <1>3, RouterAssumption
<1>5. v = t
  BY <1>1, <1>2, <1>3
<1>6. p.got = SelectModelCostAdjusted(t, Models, l) /\ q.got = SelectModelCostAdjusted(t, Models, u)
  BY <1>1, <1>2, <1>5
<1>7. Capable(Models, t.cap) # {}
  BY <1>3, <1>6, NothingCapable
<1> QED BY <1>4, <1>6, <1>7, CheaperPick

LEMMA TiersInOrder ==
  ASSUME NEW p \in TierAnswers, NEW q \in TierAnswers
  PROVE  InOrder(p, q)
<1> DEFINE Of(a, k, f) == [by |-> "tier", task |-> [agent |-> a, known |-> k], arg |-> f,
              got |-> SelectTierForAttempt(RefsOf(Routing, << >>, a, None), TierOf, f, k, Policy)]
<1>1. PICK a \in Agents, k \in BOOLEAN, f \in Failures : p = Of(a, k, f)
  BY DEF TierAnswers
<1>2. PICK b \in Agents, h \in BOOLEAN, g \in Failures : q = Of(b, h, g)
  BY DEF TierAnswers
<1>3. SUFFICES ASSUME p.task = q.task, p.arg < q.arg
               PROVE  p.got <= q.got
  BY <1>1 DEF InOrder
<1>4. f \in Nat /\ g \in Nat /\ f < g
  BY <1>1, <1>2, <1>3, RouterAssumption
<1>5. b = a /\ h = k
  <2>1. [agent |-> a, known |-> k] = [agent |-> b, known |-> h]
    BY <1>1, <1>2, <1>3
  <2>2. /\ [agent |-> a, known |-> k].agent = a /\ [agent |-> a, known |-> k].known = k
        /\ [agent |-> b, known |-> h].agent = b /\ [agent |-> b, known |-> h].known = h
    OBVIOUS
  <2> QED BY <2>1, <2>2
<1> DEFINE refs == RefsOf(Routing, << >>, a, None)
<1>6. refs \in Seq(DOMAIN Parsed)
  <2>1. refs = IF a \in DOMAIN Routing THEN Routing[a] ELSE << >>
    BY DEF RefsOf
  <2>2. << >> \in Seq(DOMAIN Parsed)
    OBVIOUS
  <2> QED BY <2>1, <2>2, RouterAssumption
<1> HIDE DEF refs
<1>7. /\ p.got = SelectTierForAttempt(refs, TierOf, f, k, Policy)
      /\ q.got = SelectTierForAttempt(refs, TierOf, g, k, Policy)
  BY <1>1, <1>2, <1>5 DEF refs
<1> QED BY <1>4, <1>6, <1>7, StrongerTier

\* Any two answers are in order: those to questions of different kinds vacuously.
LEMMA AnswersInOrder ==
  ASSUME NEW p \in StaticAnswers \cup CostAnswers \cup TierAnswers,
         NEW q \in StaticAnswers \cup CostAnswers \cup TierAnswers
  PROVE  InOrder(p, q)
<1>1. /\ \A r \in StaticAnswers : r.by = "complexity"
      /\ \A r \in CostAnswers : r.by = "cost"
      /\ \A r \in TierAnswers : r.by = "tier"
  BY DEF StaticAnswers, CostAnswers, TierAnswers
<1>2. CASE p.by # q.by
  BY <1>2 DEF InOrder
<1>3. CASE p.by = q.by
  BY <1>1, <1>3, StaticInOrder, CostInOrder, TiersInOrder
<1> QED BY <1>2, <1>3

\* Only the router fills a caller's hands, and only an answer.
LEMMA NextPicks == TypeOK /\ PicksAreAnswers /\ [Next]_vars => PicksAreAnswers'
<1> SUFFICES ASSUME TypeOK, PicksAreAnswers, [Next]_vars PROVE PicksAreAnswers'
  OBVIOUS
<1> DEFINE Answers == StaticAnswers \cup CostAnswers \cup TierAnswers
<1>1. ASSUME UNCHANGED pick, \A s \in Slots : pc'[s] = "routed" => pc[s] = "routed"
      PROVE  PicksAreAnswers'
  BY <1>1 DEF PicksAreAnswers, StaticAnswers, CostAnswers, TierAnswers
<1>2. ASSUME NEW s \in Slots, NEW by, NEW task, NEW arg, NEW got, Holds(s, by, task, arg, got),
             [by |-> by, task |-> task, arg |-> arg, got |-> got] \in Answers
      PROVE  PicksAreAnswers'
  <2>1. pick'[s] \in Answers /\ \A u \in Slots \ {s} : pick'[u] = pick[u] /\ pc'[u] = pc[u]
    BY <1>2 DEF Holds, TypeOK
  <2> QED BY <2>1 DEF PicksAreAnswers, StaticAnswers, CostAnswers, TierAnswers
<1>3. CASE Boots
  BY <1>1, <1>3 DEF Boots, BootstrapLiveProviders, Register, ValidateRoutingRegistered
<1>4. ASSUME NEW s \in Slots, Asks(s) \/ Guarded(s)
      PROVE  PicksAreAnswers'
  <2>1. /\ UNCHANGED pick
        /\ \/ UNCHANGED pc
           \/ pc' = [pc EXCEPT ![s] = "asking"]
           \/ pc' = [pc EXCEPT ![s] = "guarded"]
           \/ pc' = [pc EXCEPT ![s] = "idle"]
    BY <1>4 DEF Asks, AskModel, ProviderAnswers, Ends, Guarded, WorkerGuardedCall, GuardedCallEnds
  <2> QED BY <1>1, <2>1 DEF TypeOK
<1>5. ASSUME NEW s \in Slots, Routes(s)
      PROVE  PicksAreAnswers'
  <2>1. ASSUME NEW t \in RouterTasks, NEW c \in Complexities, ResolveModelWithRouter(s, t, c)
        PROVE  PicksAreAnswers'
    <3>1. [by |-> "complexity", task |-> [cap |-> t.cap], arg |-> c,
           got |-> SelectModelForTask(Models, c, t.cap)] \in Answers
      BY DEF StaticAnswers
    <3> HIDE DEF Answers
    <3> QED BY <2>1, <3>1, <1>2 DEF ResolveModelWithRouter
  <2>2. ASSUME NEW t \in RouterTasks, NEW l \in Lambdas, ResolveModelMultiDim(s, t, l)
        PROVE  PicksAreAnswers'
    <3>1. [by |-> "cost", task |-> t, arg |-> l,
           got |-> SelectModelCostAdjusted(t, Models, l)] \in Answers
      BY DEF CostAnswers
    <3> HIDE DEF Answers
    <3> QED BY <2>2, <3>1, <1>2 DEF ResolveModelMultiDim
  <2>3. ASSUME NEW a \in Agents, NEW k \in BOOLEAN, NEW f \in Failures, SelectTier(s, a, k, f)
        PROVE  PicksAreAnswers'
    <3>1. [by |-> "tier", task |-> [agent |-> a, known |-> k], arg |-> f,
           got |-> SelectTierForAttempt(RefsOf(Routing, << >>, a, None), TierOf, f, k, Policy)] \in Answers
      BY DEF TierAnswers
    <3> HIDE DEF Answers
    <3> QED BY <2>3, <3>1, <1>2 DEF SelectTier
  <2>4. CASE Release(s)
    <3>1. /\ pc'[s] # "routed"
          /\ \A u \in Slots \ {s} : pick'[u] = pick[u] /\ pc'[u] = pc[u]
      BY <2>4 DEF Release, Ends, TypeOK
    <3> QED BY <3>1 DEF PicksAreAnswers, StaticAnswers, CostAnswers, TierAnswers
  <2> QED BY <1>5, <2>1, <2>2, <2>3, <2>4 DEF Routes
<1>6. ASSUME NEW w \in Workers, RegisterWorker(w) \/ Kill(w)
      PROVE  PicksAreAnswers'
  BY <1>1, <1>6 DEF RegisterWorker, Kill
<1>7. CASE KillAll
  BY <1>1, <1>7 DEF KillAll
<1>8. CASE UNCHANGED vars
  BY <1>1, <1>8 DEF vars
<1> QED BY <1>3, <1>4, <1>5, <1>6, <1>7, <1>8 DEF Next

-----------------------------------------------------------------------------
(* The theorems. *)

\* The strengthened invariant is inductive.
THEOREM Inductive == Spec => []IInv
<1>1. Init => IInv
  <2> SUFFICES ASSUME Init PROVE IInv
    OBVIOUS
  <2>1. \A w \in Workers : /\ guards[w].calls = 0 /\ guards[w].tokens = 0
                           /\ Cardinality(InFlight(w)) = 0
    BY FS_EmptySet DEF Init, InFlight
  <2>2. /\ MaxUsage * 0 = 0 /\ MaxUsage * Cardinality(Slots) > 0
        /\ MaxUsage * Cardinality(Slots) \in Nat
    <3>1. 1 <= Cardinality(Slots) /\ MaxUsage \in Nat /\ MaxUsage > 0
      BY BudgetAssumption, Budgets
    <3>2. MaxUsage * 1 <= MaxUsage * Cardinality(Slots) /\ MaxUsage * Cardinality(Slots) \in Nat
      BY <3>1, Monotone, Budgets
    <3> QED BY <3>1, <3>2
  <2>3. OvershootBounded
    BY <2>1, <2>2, Budgets DEF OvershootBounded
  <2>4. RoutedRegistered
    BY DEF Init, RoutedRegistered
  <2>5. KillsKnown
    BY DEF Init, KillsKnown
  <2> QED BY <2>3, <2>4, <2>5, InitTypes DEF IInv
<1>2. IInv /\ [Next]_vars => IInv'
  BY NextTypes, NextBound, NextRouted, NextSilent DEF IInv
<1> QED BY <1>1, <1>2, PTL DEF Spec

\* Types of ModelCalls.
THEOREM TypeCorrect == Spec => []TypeOK
BY Inductive, PTL DEF IInv

\* guardedCall checks before its await and records after it: a worker is over
\* its budget by less than the number of calls that can run at once.
THEOREM BudgetHolds == Spec => []OvershootBounded
BY Inductive, PTL DEF IInv

\* After the boot-time check no askModel of a routed agent fails closed.
THEOREM RoutesAlwaysResolve == Spec => []RoutesResolve
<1>1. IInv => RoutesResolve
  BY RoutesFollow DEF IInv
<1> QED BY <1>1, Inductive, PTL

\* killAll and kill are final, for workers that come later too.
THEOREM KillIsFinal == Spec => KilledStaysSilent
<1>1. IInv /\ [Next]_vars => [Silent]_vars
  BY NextSilent DEF IInv
<1>2. Spec => [][Silent]_vars
  BY <1>1, Inductive, PTL DEF Spec
<1> QED BY <1>2 DEF KilledStaysSilent, Silent

\* Two answers held at the same time are in order, whenever each was given:
\* the router's three choices are monotone in cost weight, size and failures.
THEOREM RouterMovesOneWay == Spec => []RouterIsMonotone
<1>1. Init => PicksAreAnswers
  BY DEF Init, PicksAreAnswers
<1>2. Spec => []PicksAreAnswers
  BY <1>1, NextPicks, TypeCorrect, PTL DEF Spec
<1>3. PicksAreAnswers => RouterIsMonotone
  <2> SUFFICES ASSUME PicksAreAnswers, NEW s \in Slots, NEW t \in Slots,
                      pc[s] = "routed", pc[t] = "routed"
               PROVE  InOrder(pick[s], pick[t])
    BY DEF RouterIsMonotone, InOrder
  <2> QED BY AnswersInOrder DEF PicksAreAnswers
<1> QED BY <1>2, <1>3, PTL
=============================================================================
