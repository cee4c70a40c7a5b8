----------------------------- MODULE ModelRouting -----------------------------
(***************************************************************************)
(* The pure half of packages/model-gateway: which model or provider a      *)
(* request goes to.  No state: ModelCalls uses these operators.            *)
(*                                                                         *)
(* A model is a record of the registry: its name (a number, so that names  *)
(* have the order localeCompare gives them), kind, capabilities and output *)
(* price.  Complexity trivial..xlarge is 0..4 and tier cheap, mid, strong  *)
(* is 0..2.  Floating-point scores are exact fractions here.               *)
(***************************************************************************)
EXTENDS GatewayProviders, FiniteSetsExt

Unpriced == -1
NoModel == 0

-----------------------------------------------------------------------------
(* Routing configuration: agent -> references, tried in order. *)

\* A task override stands alone; otherwise the primary and its fallbacks.
RefsOf(routing, overrides, agent, task) ==
  IF <<task, agent>> \in DOMAIN overrides
  THEN <<overrides[<<task, agent>>]>>
  ELSE IF agent \in DOMAIN routing THEN routing[agent] ELSE << >>

AgentRefs(routing, overrides) ==
  UNION {{routing[a][i] : i \in DOMAIN routing[a]} : a \in DOMAIN routing}

\* Every reference the configuration mentions.
RoutedRefs(routing, overrides) ==
  AgentRefs(routing, overrides) \cup {overrides[k] : k \in DOMAIN overrides}

CollectRoutedProviderIds(routing, overrides, parsed) ==
  {parsed[r] : r \in RoutedRefs(routing, overrides)}

\* The places of refs whose provider id is not named by an earlier one.
FirstMentions(refs, parsed) ==
  {i \in DOMAIN refs : \A j \in 1..(i - 1) : parsed[refs[j]] # parsed[refs[i]]}

\* validateModelRegistryV2 of a registry and the agents' fallback chains.
RegistryIsValid(models, routing, overrides) ==
  LET names == {m.name : m \in models} IN
  /\ Cardinality(names) = Cardinality(models) /\ NoModel \notin names
  /\ \A m \in models : m.kind \in {"api", "cli"} /\ m.reachable
  /\ \A a \in DOMAIN routing : \A i \in DOMAIN routing[a] :
       routing[a][i] \in names /\ \A j \in 1..(i - 1) : routing[a][j] # routing[a][i]
  /\ \A k \in DOMAIN overrides : overrides[k] \in names

\* validateModelRegistry of references "provider/model": refs gives each its
\* parts, models the models of each provider.
RefsAreValid(refs, models, routing) ==
  \A agent \in DOMAIN routing : \A i \in DOMAIN routing[agent] :
    LET ref == routing[agent][i] IN
    /\ ref \in DOMAIN refs /\ refs[ref][1] \in DOMAIN models
    /\ refs[ref][2] \in models[refs[ref][1]]
    /\ \A j \in 1..(i - 1) : routing[agent][j] # ref

\* What two registries of references validate apart they validate together, and
\* a reference said twice in one route is refused though each use is valid.
ASSUME RefsAssumption ==
  LET refs == [a |-> <<"p", "m">>, b |-> <<"p", "gone">>]
      models == [p |-> {"m"}]
  IN \A one, other \in UNION {[1..n -> {"a", "b", "c"}] : n \in 0..2} :
       /\ RefsAreValid(refs, models, [developer |-> one]) =>
            one \in {<< >>, <<"a">>}
       /\ RefsAreValid(refs, models, [developer |-> one, debugger |-> other]) <=>
            /\ RefsAreValid(refs, models, [developer |-> one])
            /\ RefsAreValid(refs, models, [debugger |-> other])

-----------------------------------------------------------------------------
(* The router: a model by complexity and capability. *)

Capable(models, cap) == {m \in models : m.kind # "cli" /\ cap \in m.caps}
Prices(models) == {m.price : m \in models} \ {Unpriced}
WantStrong(complexity) == complexity >= 3

\* The first of S in an order given by Before, or no model.
FirstBy(S, Before(_, _)) ==
  IF S = {} THEN NoModel
  ELSE (CHOOSE m \in S : \A n \in S \ {m} : Before(m, n)).name

\* Large tasks go to the dearest capable model, small ones to the cheapest;
\* one without a price comes last, and a tie goes to the smaller name.
SelectModelForTask(models, complexity, cap) ==
  FirstBy(Capable(models, cap), LAMBDA m, n :
    \/ m.price = n.price /\ m.name < n.name
    \/ m.price # n.price /\
         IF WantStrong(complexity) THEN m.price > n.price
         ELSE n.price = Unpriced \/ (m.price # Unpriced /\ m.price < n.price))

\* Twice the cost: a model without a price counts as 1.5 of the dearest.
CostTwice(m, S) ==
  LET dearest == IF Prices(S) = {} THEN 1 ELSE Max(Prices(S))
  IN IF m.price = Unpriced THEN 3 * dearest ELSE 2 * m.price

\* Where m's price lies between the cheapest and the dearest, as a fraction.
StrengthOf(m, S) ==
  CASE m.price = Unpriced -> <<1, 2>>
    [] m.price # Unpriced /\ Max(Prices(S)) = Min(Prices(S)) -> <<1, 1>>
    [] OTHER -> <<m.price - Min(Prices(S)), Max(Prices(S)) - Min(Prices(S))>>

\* P(success) in eighths of a fraction: strong enough is 1, else at most
\* 0.75 + 0.4 * strength / need; a missed domain 3/4; a short context 1/2.
Success(m, S, task) ==
  LET s == StrengthOf(m, S)
      k == task.complexity
      full == s[1] * 4 >= k * s[2]
      den == IF full THEN 1 ELSE 20 * k * s[2]
      num == IF full THEN 1 ELSE Min({den, 15 * k * s[2] + 32 * s[1]})
      domain == IF task.domains = {} \/ task.domains \cap m.caps # {} THEN 4 ELSE 3
      context == IF task.long /\ ~m.long THEN 1 ELSE 2
  IN <<num * domain * context, den * 8>>

\* Mutant: the cost is added to the score.
SelectModelCostAdded(task, models, lambda) ==
  LET S == Capable(models, task.cap)
      worst == Max({CostTwice(m, S) : m \in S})
      Score(m) == Success(m, S, task)[1] * 2 * worst + lambda * CostTwice(m, S) * Success(m, S, task)[2]
      Scale(m) == Success(m, S, task)[2]
  IN FirstBy(S, LAMBDA m, n :
       \/ Score(m) * Scale(n) > Score(n) * Scale(m)
       \/ Score(m) * Scale(n) = Score(n) * Scale(m) /\ m.name < n.name)

\* The model with the greatest P(success) - lambda * cost / dearest cost, for
\* lambda in halves; both sides are brought to one denominator.
SelectModelCostAdjusted(task, models, lambda) ==
  LET S == Capable(models, task.cap)
      worst == Max({CostTwice(m, S) : m \in S})
      Score(m) == Success(m, S, task)[1] * 2 * worst - lambda * CostTwice(m, S) * Success(m, S, task)[2]
      Scale(m) == Success(m, S, task)[2]
  IN FirstBy(S, LAMBDA m, n :
       \/ Score(m) * Scale(n) > Score(n) * Scale(m)
       \/ Score(m) * Scale(n) = Score(n) * Scale(m) /\ m.name < n.name)

\* The router's pick goes first and the static route stays behind it; without
\* a capable model, or with the router off, the route is the static one.
RoutedNames(enabled, pick, static) ==
  IF ~enabled \/ pick = NoModel THEN static
  ELSE <<pick>> \o SelectSeq(static, LAMBDA name : name # pick)
\* The router never takes a model off the route, nor asks one twice.
ASSUME RouteAssumption ==
  \A static \in {<< >>, <<1>>, <<2, 1>>, <<1, 2, 3>>}, pick \in 0..4, enabled \in BOOLEAN :
    LET names == RoutedNames(enabled, pick, static) IN
    /\ \A i \in DOMAIN static : \E j \in DOMAIN names : names[j] = static[i]
    /\ \A i, j \in DOMAIN names : names[i] = names[j] => i = j

\* The task of a packet, for the router: a packet without an estimate is medium.
MultiDimTaskFromPacket(packet) ==
  [complexity |-> IF packet.complexity = -1 THEN 2 ELSE packet.complexity,
   cap |-> IF packet.target = "debugger" THEN "debugging" ELSE "code",
   domains |-> packet.domains, long |-> packet.long]

-----------------------------------------------------------------------------
(* The tier ladder: stronger models for stories that keep failing. *)

\* buildTierLadder: a reference once, without those that name no provider,
\* in the order of their tiers (a model nobody lists is mid).
Ladder(refs, tierOf) ==
  {i \in DOMAIN refs : refs[i] \in DOMAIN tierOf /\ \A j \in 1..(i - 1) : refs[j] # refs[i]}

LadderFirst(S, refs, tierOf) ==
  CHOOSE i \in S : \A j \in S \ {i} :
    tierOf[refs[i]] < tierOf[refs[j]] \/ (tierOf[refs[i]] = tierOf[refs[j]] /\ i < j)

LadderLast(S, refs, tierOf) ==
  CHOOSE i \in S : \A j \in S \ {i} :
    tierOf[refs[i]] > tierOf[refs[j]] \/ (tierOf[refs[i]] = tierOf[refs[j]] /\ i > j)

\* selectTierForAttempt: a known failure starts strong, enough failures go one
\* tier up from the cheapest, and a missing tier is taken by the next one.
SelectTierForAttempt(refs, tierOf, failures, known, policy) ==
  LET S == Ladder(refs, tierOf)
      target == Min({tierOf[refs[LadderFirst(S, refs, tierOf)]] + 1, 2})
      up == {i \in S : tierOf[refs[i]] >= target}
  IN CASE S = {} -> 0
       [] S # {} /\ known /\ policy.hardStartsStrong -> tierOf[refs[LadderLast(S, refs, tierOf)]]
       [] S # {} /\ ~(known /\ policy.hardStartsStrong) /\ failures >= policy.upgradeAfter ->
            tierOf[refs[IF up = {} THEN LadderLast(S, refs, tierOf) ELSE LadderFirst(up, refs, tierOf)]]
       [] OTHER -> tierOf[refs[LadderFirst(S, refs, tierOf)]]
=============================================================================
