------------------------------ MODULE ModelCalls ------------------------------
(***************************************************************************)
(* packages/model-gateway at run time: which adapters are registered, the  *)
(* budget guards of the workers, and the calls under way, with askModel of *)
(* packages/agent-core as the way agents reach the gateway.                *)
(*                                                                         *)
(* A slot is an async call of a caller: everything up to its await of the  *)
(* provider is one step, and other slots run while it waits.               *)
(*                                                                         *)
(* Abstracted: a provider's answer is whether it validates and how many    *)
(* tokens it counts for (usageFromPayload counts at least one); envelopes, *)
(* prompts and secrets are left out.                                       *)
(***************************************************************************)
EXTENDS ModelRouting

CONSTANTS
  Slots, Workers, Providers,
  BootOrder,      \* the providers bootstrapLiveProviders is given, in order
  ApiKeyed,       \* those whose secret handle is an api_key
  Routing,        \* [agents -> their references]
  Overrides,      \* [some <<task class, agent>> -> a reference]
  Parsed,         \* [references -> provider ids]
  Agents, TaskClasses,
  TotalCalls, TotalTokens, MaxWorkers,   \* RunBudgetPoolConfig
  MaxUsage,       \* tokens a call may count for
  Models, RouterTasks, Complexities, Lambdas,   \* what the router is asked
  TierOf, Failures, Policy,
  None

Share(total) == total \div MaxWorkers
CallBudget == Share(TotalCalls)
TokenBudget == Share(TotalTokens)

ASSUME BudgetAssumption ==
  /\ TotalCalls \in Nat /\ TotalTokens \in Nat
  /\ MaxWorkers \in Nat \ {0} /\ MaxUsage \in Nat \ {0}
ASSUME SlotAssumption == IsFiniteSet(Slots) /\ Slots # {}
ASSUME RoutingAssumption ==
  /\ \A a \in Agents, t \in TaskClasses :
       RefsOf(Routing, Overrides, a, t) \in Seq(DOMAIN Parsed)
  /\ \A r \in DOMAIN Parsed : Parsed[r] \in Providers
ASSUME RegistryAssumption == RegistryIsValid(Models, [a \in {} |-> << >>], << >>)
ASSUME RouterAssumption ==
  /\ IsFiniteSet(Models)
  /\ \A m \in Models :
       m.name \in Nat /\ m.price \in Nat \cup {Unpriced} /\ m.long \in BOOLEAN
  /\ \A t \in RouterTasks : t.complexity \in Nat /\ t.long \in BOOLEAN
  /\ Complexities \cup Lambdas \cup Failures \subseteq Nat
  /\ TierOf \in [DOMAIN TierOf -> 0..2] /\ Policy.upgradeAfter \in Nat
  /\ \A a \in DOMAIN Routing : Routing[a] \in Seq(DOMAIN Parsed)

VARIABLES
  adapters,     \* [Providers -> what is registered under the id]
  validated,    \* the boot-time check of the routing has passed
  guards,       \* [Workers -> their BudgetGuard in the pool]
  poolKilled,
  pc,           \* [Slots -> where its call is]
  job,          \* [Slots -> the request and what is left to try]
  pick          \* [Slots -> the router's answer the caller holds]

vars == <<adapters, validated, guards, poolKilled, pc, job, pick>>

Registered == {p \in Providers : adapters[p] # "none"}
NoJob == [worker |-> None, agent |-> None, task |-> None, left |-> {}]
Refs(s) == RefsOf(Routing, Overrides, job[s].agent, job[s].task)

InFlight(w) == {s \in Slots : pc[s] = "guarded" /\ job[s].worker = w}

Guard == [known : BOOLEAN, killed : BOOLEAN, calls : Nat, tokens : Nat]
Job == [worker : Workers \cup {None}, agent : Agents \cup {None},
        task : TaskClasses \cup {None}, left : SUBSET Nat]

TypeOK ==
  /\ adapters \in [Providers -> {"none", "live", "off", "scripted"}]
  /\ validated \in BOOLEAN /\ poolKilled \in BOOLEAN
  /\ guards \in [Workers -> Guard]
  /\ pc \in [Slots -> {"idle", "asking", "guarded", "routed"}]
  /\ job \in [Slots -> Job]
  /\ \A s \in Slots :
       /\ pc[s] = "guarded" => job[s].worker \in Workers
       /\ pc[s] = "asking" => job[s].left # {} /\ job[s].left \subseteq DOMAIN Refs(s)
  /\ DOMAIN pick = Slots

Init ==
  /\ adapters = [p \in Providers |-> "none"]
  /\ validated = FALSE
  /\ guards = [w \in Workers |-> [known |-> FALSE, killed |-> FALSE, calls |-> 0, tokens |-> 0]]
  /\ poolKilled = FALSE
  /\ pc = [s \in Slots |-> "idle"]
  /\ job = [s \in Slots |-> NoJob]
  /\ pick = [s \in Slots |-> None]

-----------------------------------------------------------------------------
(* Boot: adapters and the check of the routing. *)

\* With an open gate every provider not yet registered gets a live adapter, in
\* order, up to one whose handle is not an api_key, where it throws.
BootstrapLiveProviders ==
  LET throws == {i \in DOMAIN BootOrder :
                   BootOrder[i] \notin Registered /\ BootOrder[i] \notin ApiKeyed}
      built == {BootOrder[i] : i \in {j \in DOMAIN BootOrder : \A b \in throws : j < b}}
  IN /\ adapters' = [p \in Providers |->
                       IF p \in built \ Registered THEN "live" ELSE adapters[p]]
     /\ UNCHANGED <<validated, guards, poolKilled, pc, job, pick>>

\* register throws for an id that is taken; a real provider that is not
\* enabled is registered as a disabled one.
Register(p, kind) ==
  /\ p \notin Registered
  /\ adapters' = [adapters EXCEPT ![p] = kind]
  /\ UNCHANGED <<validated, guards, poolKilled, pc, job, pick>>

ValidateRoutingRegistered ==
  /\ CollectRoutedProviderIds(Routing, Overrides, Parsed) \subseteq Registered
  /\ validated' = TRUE
  /\ UNCHANGED <<adapters, guards, poolKilled, pc, job, pick>>

-----------------------------------------------------------------------------
(* askModel: the registered providers of the route, one after the other. *)

Callable(agent, task) ==
  LET refs == RefsOf(Routing, Overrides, agent, task)
  IN {i \in FirstMentions(refs, Parsed) : Parsed[refs[i]] \in Registered}

\* Without a callable provider the answer is a refusal and nothing happens.
AskModel(s, agent, task) ==
  /\ pc[s] = "idle" /\ Callable(agent, task) # {}
  /\ pc' = [pc EXCEPT ![s] = "asking"]
  /\ job' = [job EXCEPT ![s].agent = agent, ![s].task = task, ![s].left = Callable(agent, task)]
  /\ UNCHANGED <<adapters, validated, guards, poolKilled, pick>>

Ends(s) ==
  /\ pc' = [pc EXCEPT ![s] = "idle"]
  /\ job' = [job EXCEPT ![s] = NoJob]

\* callFirstValid: the first answer that validates is taken; a disabled
\* adapter throws, which is an answer that does not.  What the others answer is
\* open.
ProviderAnswers(s, ok) ==
  /\ pc[s] = "asking"
  /\ LET i == CHOOSE j \in job[s].left : \A k \in job[s].left : j <= k IN
     /\ ok \in CallVerdicts(adapters[Parsed[Refs(s)[i]]], job[s].agent)
     /\ IF ok \/ job[s].left = {i}
        THEN Ends(s)
        ELSE job' = [job EXCEPT ![s].left = @ \ {i}] /\ UNCHANGED pc
  /\ UNCHANGED <<adapters, validated, guards, poolKilled, pick>>

-----------------------------------------------------------------------------
(* Budget-guarded calls. *)

\* Mutant: a worker that comes after killAll gets a live guard.
RegisteredWorkerAlive(w) ==
  IF guards[w].known THEN guards[w] ELSE [guards[w] EXCEPT !.known = TRUE]

\* The pool's guard of w; a new one is killed when the pool is.  Nothing
\* compares the number of workers with maxWorkers.
RegisteredWorker(w) ==
  IF guards[w].known THEN guards[w]
  ELSE [guards[w] EXCEPT !.known = TRUE, !.killed = poolKilled]

RegisterWorker(w) ==
  /\ guards' = [guards EXCEPT ![w] = RegisteredWorker(w)]
  /\ UNCHANGED <<adapters, validated, poolKilled, pc, job, pick>>

\* Mutant: the comparison with the call budget is off by one.
VerdictLate(g) == ~g.killed /\ g.calls <= CallBudget /\ g.tokens < TokenBudget

\* BudgetGuard.check
Verdict(g) == ~g.killed /\ g.calls < CallBudget /\ g.tokens < TokenBudget

\* workerGuardedCall of a registered provider: the budget is checked before
\* the await of the provider.
WorkerGuardedCall(s, w, p) ==
  /\ pc[s] = "idle" /\ p \in Registered
  /\ guards' = [guards EXCEPT ![w] = RegisteredWorker(w)]
  /\ IF Verdict(RegisteredWorker(w))
     THEN /\ pc' = [pc EXCEPT ![s] = "guarded"]
          /\ job' = [job EXCEPT ![s].worker = w]
     ELSE UNCHANGED <<pc, job>>
  /\ UNCHANGED <<adapters, validated, poolKilled, pick>>

\* ... and the usage is recorded after it, when the answer was valid.
GuardedCallEnds(s, usage) ==
  /\ pc[s] = "guarded"
  /\ guards' = IF usage = 0 THEN guards
               ELSE [guards EXCEPT ![job[s].worker].calls = @ + 1,
                                   ![job[s].worker].tokens = @ + usage]
  /\ Ends(s)
  /\ UNCHANGED <<adapters, validated, poolKilled, pick>>

Kill(w) ==
  /\ guards[w].known
  /\ guards' = [guards EXCEPT ![w].killed = TRUE]
  /\ UNCHANGED <<adapters, validated, poolKilled, pc, job, pick>>

KillAll ==
  /\ poolKilled' = TRUE
  /\ guards' = [w \in Workers |->
                  [guards[w] EXCEPT !.killed = guards[w].killed \/ guards[w].known]]
  /\ UNCHANGED <<adapters, validated, pc, job, pick>>

-----------------------------------------------------------------------------
(* The router's answers, held by the caller that asked. *)

Holds(s, by, task, arg, got) ==
  /\ pc[s] = "idle"
  /\ pc' = [pc EXCEPT ![s] = "routed"]
  /\ pick' = [pick EXCEPT ![s] = [by |-> by, task |-> task, arg |-> arg, got |-> got]]
  /\ UNCHANGED <<adapters, validated, guards, poolKilled, job>>

ResolveModelWithRouter(s, task, complexity) ==
  Holds(s, "complexity", [cap |-> task.cap], complexity, SelectModelForTask(Models, complexity, task.cap))

ResolveModelMultiDim(s, task, lambda) ==
  Holds(s, "cost", task, lambda, SelectModelCostAdjusted(task, Models, lambda))

SelectTier(s, agent, known, failures) ==
  Holds(s, "tier", [agent |-> agent, known |-> known], failures,
        SelectTierForAttempt(RefsOf(Routing, << >>, agent, None), TierOf, failures, known, Policy))

Release(s) ==
  /\ pc[s] = "routed"
  /\ Ends(s)
  /\ pick' = [pick EXCEPT ![s] = None]
  /\ UNCHANGED <<adapters, validated, guards, poolKilled>>

-----------------------------------------------------------------------------
Boots ==
  \/ BootstrapLiveProviders
  \/ \E p \in Providers, kind \in {"scripted", "off"} : Register(p, kind)
  \/ ValidateRoutingRegistered

Asks(s) ==
  \/ \E a \in Agents, t \in TaskClasses : AskModel(s, a, t)
  \/ \E ok \in BOOLEAN : ProviderAnswers(s, ok)

Guarded(s) ==
  \/ \E w \in Workers, p \in Providers : WorkerGuardedCall(s, w, p)
  \/ \E usage \in 0..MaxUsage : GuardedCallEnds(s, usage)

Routes(s) ==
  \/ \E t \in RouterTasks, c \in Complexities : ResolveModelWithRouter(s, t, c)
  \/ \E t \in RouterTasks, l \in Lambdas : ResolveModelMultiDim(s, t, l)
  \/ \E a \in Agents, k \in BOOLEAN, f \in Failures : SelectTier(s, a, k, f)
  \/ Release(s)

Next ==
  \/ Boots
  \/ \E w \in Workers : RegisterWorker(w) \/ Kill(w)
  \/ KillAll
  \/ \E s \in Slots : Asks(s) \/ Guarded(s) \/ Routes(s)

Spec == Init /\ [][Next]_vars

-----------------------------------------------------------------------------
(* Properties. *)

\* A worker goes over its budget by no more than the calls that were under
\* way with it: with calls one at a time it keeps to it exactly.
OvershootBounded ==
  \A w \in Workers :
    /\ guards[w].calls + Cardinality(InFlight(w)) < CallBudget + Cardinality(Slots)
    /\ guards[w].tokens + MaxUsage * Cardinality(InFlight(w))
         < TokenBudget + MaxUsage * Cardinality(Slots)

\* Once the pool is killed no budgeted call reaches a provider any more, from
\* workers that come later too, and a kill is never undone.
KilledStaysSilent ==
  [][ /\ \A w \in Workers : (poolKilled \/ guards[w].killed) =>
           /\ InFlight(w)' \subseteq InFlight(w)
           /\ guards[w].killed => guards'[w].killed
      /\ poolKilled => poolKilled' ]_vars

\* A routing that passed the boot-time check never fails closed: every
\* provider of every route, overrides and fallbacks included, can be called.
RoutesResolve ==
  validated =>
    \A a \in Agents, t \in TaskClasses :
      Callable(a, t) = FirstMentions(RefsOf(Routing, Overrides, a, t), Parsed)

PickOf(name) == CHOOSE m \in Models : m.name = name

\* The router moves the way its callers expect: weighing cost more never
\* picks a dearer model, a larger task never a cheaper one, and more failures
\* never a weaker tier.
RouterIsMonotone ==
  \A s, t \in Slots :
    LET p == pick[s]
        q == pick[t]
    IN (/\ pc[s] = "routed" /\ pc[t] = "routed" /\ p.by = q.by
        /\ p.task = q.task /\ p.arg < q.arg /\ p.got # NoModel)
       => CASE p.by = "cost" ->
                 LET S == Capable(Models, p.task.cap)
                 IN CostTwice(PickOf(q.got), S) <= CostTwice(PickOf(p.got), S)
            [] p.by = "complexity" -> PickOf(p.got).price <= PickOf(q.got).price
            [] p.by = "tier" -> p.got <= q.got
=============================================================================
