--------------------------- MODULE GatewayProviders ---------------------------
(***************************************************************************)
(* What stands behind a name of the routing in packages/model-gateway: the *)
(* kinds of provider and what each answers, which answers of an agent      *)
(* packages/agent-output accepts, API keys, costs, command line tools and  *)
(* the evaluation a model is admitted by.  No state.                       *)
(*                                                                         *)
(* An answer is its kind and the fields it fills; money is in the unit of  *)
(* the price list times a million.                                         *)
(***************************************************************************)
EXTENDS Integers, Sequences, FiniteSets
LOCAL INSTANCE Folds

(* Answers of agents. *)

EscalationFields == {"type", "reason", "requested_decision"}
ProposalFields == {"proposal_id", "story_id", "changed_files"}
Fields == EscalationFields \cup ProposalFields \cup {"evidence_refs"}

DeveloperNeeds ==
  [patch_proposal |-> ProposalFields, clarification_request |-> EscalationFields,
   scope_expansion_request |-> EscalationFields, blocked_report |-> EscalationFields]
DebuggerNeeds ==
  [repair_proposal |-> ProposalFields, scope_expansion_request |-> EscalationFields,
   no_repro_report |-> {"reason", "evidence_refs"}, rollback_recommendation |-> {"reason"}]
Kinds == DOMAIN DeveloperNeeds \cup DOMAIN DebuggerNeeds
Output == [kind : Kinds, fields : SUBSET Fields]
Throws == [kind |-> "throws", fields |-> {}]

\* No answer of another agent is accepted.
ValidateStructuredOutput(target, out) ==
  LET whole(needs) == out.kind \in DOMAIN needs /\ needs[out.kind] \subseteq out.fields
  IN \/ target = "developer" /\ whole(DeveloperNeeds)
     \/ target = "debugger" /\ whole(DebuggerNeeds)
BuildEscalation(kind) == [kind |-> kind, fields |-> EscalationFields]

-----------------------------------------------------------------------------
(* Providers: what each answers to a request. *)

MatchesCase(case, req) == \A key \in DOMAIN case.match : case.match[key] = req[key]
\* The first case that matches; without one the answer is a report of its own.
ScriptedAnswer(cases, req) ==
  LET hits == {i \in DOMAIN cases : MatchesCase(cases[i], req)}
  IN IF hits = {} THEN BuildEscalation("blocked_report")
     ELSE cases[CHOOSE i \in hits : \A j \in hits : i <= j].output
\* Fixtures are the files under the root that hold JSON.
FixtureAnswer(fixtures, id) == IF id \in DOMAIN fixtures THEN fixtures[id] ELSE Throws
ManualAnswer(target) ==
  BuildEscalation(IF target = "debugger" THEN "scope_expansion_request" ELSE "clarification_request")
DisabledAnswer == Throws
\* A reply is an HTTP status, whether it has content, and what that parses to.
RealAnswer(enabled, reply) ==
  IF enabled /\ reply.ok /\ reply.content /\ reply.json THEN reply.output ELSE DisabledAnswer

CallProvider(target, raw) == raw # Throws /\ ValidateStructuredOutput(target, raw)

\* What an adapter of a registry may answer: whole or empty answers of any
\* kind will do.
AnswersOf(adapter) ==
  CASE adapter = "off" -> {DisabledAnswer}
    [] adapter = "scripted" -> [kind : Kinds, fields : {Fields, {}}]
    [] OTHER -> {Throws} \cup [kind : Kinds, fields : {Fields, {}}]
CallVerdicts(adapter, target) == {CallProvider(target, raw) : raw \in AnswersOf(adapter)}

\* What is accepted names the files it changes or gives a reason, and only two
\* agents are answered at all.  A scripted provider without a case ends the
\* route of a developer, whose fallbacks are not tried, and not the debugger's.
ASSUME AnswerAssumption ==
  /\ \A target \in {"developer", "debugger", "supervisor", "planning_steward"}, out \in Output :
       CallProvider(target, out) =>
         /\ target \in {"developer", "debugger"}
         /\ "changed_files" \in out.fields \/ "reason" \in out.fields
  /\ LET miss(target) == ScriptedAnswer(<< >>, [target_agent |-> target])
     IN CallProvider("developer", miss("developer")) /\ ~CallProvider("debugger", miss("debugger"))
  /\ \A target \in {"developer", "debugger"} : CallProvider(target, ManualAnswer(target))
  /\ \A target \in {"developer", "debugger"}, ok, content, json \in BOOLEAN, out \in {BuildEscalation("blocked_report")} :
       LET reply == [ok |-> ok, content |-> content, json |-> json, output |-> out]
       IN /\ ~CallProvider(target, RealAnswer(FALSE, reply))
          /\ CallProvider(target, RealAnswer(TRUE, reply)) => ok
  /\ ~CallProvider("developer", FixtureAnswer(<< >>, "missing"))

-----------------------------------------------------------------------------
(* API keys. *)

HandleTypes == {"api_key", "oauth_token", "env_var"}
\* A provider is built of a handle of the one type; with the gate closed the
\* provider is a disabled one and its secret is never asked for.
CreateApiKeyProvider(type, enabled) ==
  IF type # "api_key" THEN "throws" ELSE IF enabled THEN "live" ELSE "off"
ValidateApiKey(enabled, resolved, reply) ==
  CASE ~enabled -> [ok |-> FALSE, called |-> FALSE, says |-> {}]
    [] enabled /\ ~resolved -> [ok |-> FALSE, called |-> FALSE, says |-> {"resolver_error"}]
    [] enabled /\ resolved /\ reply = "answered" -> [ok |-> TRUE, called |-> TRUE, says |-> {"status", "count"}]
    [] enabled /\ resolved /\ reply = "refused" -> [ok |-> FALSE, called |-> TRUE, says |-> {"status"}]
    [] OTHER -> [ok |-> FALSE, called |-> TRUE, says |-> {}]
\* What is saved of a validation, and what boot reports of an adapter: a
\* handle's id, never its secret.
ValidatedMetadata == {"provider", "base_url", "handle_id", "handle_type", "validated_at", "count"}
RegistrationRecord == {"provider_id", "provider", "base_url", "handle_id"}

\* With the gate closed nobody is called; a key is valid only when the vendor
\* answered for it; and nothing a validation says or keeps is a secret.
ASSUME KeyAssumption ==
  /\ \A enabled, resolved \in BOOLEAN, reply \in {"answered", "refused", "threw"} :
       LET result == ValidateApiKey(enabled, resolved, reply)
       IN /\ result.called => enabled /\ resolved
          /\ result.ok => result.called /\ reply = "answered"
          /\ result.says \in {{}, {"resolver_error"}, {"status"}, {"status", "count"}}
  /\ \A type \in HandleTypes, enabled \in BOOLEAN :
       CreateApiKeyProvider(type, enabled) = "live" => enabled /\ type = "api_key"
  /\ {"secret", "api_key", "value"} \cap (ValidatedMetadata \cup RegistrationRecord) = {}

-----------------------------------------------------------------------------
(* Costs. *)

Priced(entry) == {"input", "output"} \subseteq DOMAIN entry.pricing
CacheDiscount(pricing, cached) ==
  IF "cache_input" \in DOMAIN pricing THEN cached * (pricing.input - pricing.cache_input) ELSE 0
ComputeModelCost(entry, usage) ==
  IF ~Priced(entry) THEN [known |-> FALSE, usd |-> 0]
  ELSE [known |-> TRUE,
        usd |-> usage.input * entry.pricing.input + usage.output * entry.pricing.output
                  - CacheDiscount(entry.pricing, usage.cached)]
FindModel(name, models) ==
  LET hits == {i \in DOMAIN models : models[i].name = name}
  IN IF hits = {} THEN 0 ELSE CHOOSE i \in hits : \A j \in hits : i <= j
CostOf(usage, models) ==
  LET i == FindModel(usage.model, models)
  IN IF i = 0 THEN [known |-> FALSE, usd |-> 0] ELSE ComputeModelCost(models[i], usage)
\* One usage without a price makes the cost of the run unknown; its tokens
\* count all the same.
ComputeRunCost(usages, models) ==
  LET total(get(_)) == MapThenFoldSet(+, 0, get, LAMBDA S : CHOOSE i \in S : TRUE, DOMAIN usages)
      known == \A i \in DOMAIN usages : CostOf(usages[i], models).known
  IN [known |-> known,
      usd |-> IF known THEN total(LAMBDA i : CostOf(usages[i], models).usd) ELSE 0,
      tokens |-> total(LAMBDA i : usages[i].input + usages[i].output)]

\* A model whose cached tokens are among its input tokens, and cost no less
\* than nothing, never costs less than nothing.
ASSUME CostAssumption ==
  \A price \in 0..2, cache \in 0..2, input, output, cached \in 0..2 :
    LET entry == [name |-> "m", pricing |-> [input |-> price, output |-> 1, cache_input |-> cache]]
        run == ComputeRunCost(<<[model |-> "m", input |-> input, output |-> output, cached |-> cached],
                                [model |-> "other", input |-> input, output |-> 0, cached |-> 0]>>, <<entry>>)
    IN /\ cached <= input =>
            ComputeModelCost(entry, [input |-> input, output |-> output, cached |-> cached]).usd >= 0
       /\ ~run.known /\ run.tokens = 2 * input + output

-----------------------------------------------------------------------------
(* Command line tools and admission. *)

IsCliModel(model) == model.kind = "cli"
AuthEnv == [claude |-> "ANTHROPIC_API_KEY", codex |-> "CODEX_HOME", gemini |-> "GEMINI_API_KEY"]
CliAuthEnvVar(command) == IF command \in DOMAIN AuthEnv THEN AuthEnv[command] ELSE "none"
\* Another kind of model, or one without its command, throws.
NoInvocation == [command |-> "none", env |-> "none"]
ResolveCliInvocation(model) ==
  IF ~IsCliModel(model) \/ model.cli = "none" THEN NoInvocation
  ELSE [command |-> model.cli, env |-> CliAuthEnvVar(model.cli)]
RouteResolvesToCliModel(names, models) ==
  \E i \in DOMAIN names : LET m == FindModel(names[i], models) IN m # 0 /\ IsCliModel(models[m])

\* A candidate that passes the share Threshold[1] / Threshold[2] of its fixture
\* stories is active; without a story it passes none.
RunModelEval(passed, stories, threshold) ==
  IF (IF stories = 0 THEN 0 >= threshold[1] ELSE passed * threshold[2] >= threshold[1] * stories)
  THEN "active" ELSE "candidate"
\* An admitted model passed a story, unless nothing was asked of it.
ASSUME EvalAssumption ==
  \A stories \in 0..3, passed \in 0..3, threshold \in {<<0, 1>>, <<1, 2>>, <<1, 1>>} :
    passed <= stories /\ threshold[1] > 0 /\ RunModelEval(passed, stories, threshold) = "active"
      => passed > 0

\* A route that resolves to a command line tool looks at the kind of a model
\* only: the call may still throw, for want of a command.
ASSUME CliAssumption ==
  /\ \A kind \in {"cli", "api"}, cli \in {"claude", "aider", "none"} :
       LET model == [name |-> "m", kind |-> kind, cli |-> cli]
       IN /\ RouteResolvesToCliModel(<<"other", "m">>, <<model>>) <=> kind = "cli"
          /\ ResolveCliInvocation(model) # NoInvocation => RouteResolvesToCliModel(<<"m">>, <<model>>)
  /\ \E cli \in {"claude", "none"} :
       LET model == [name |-> "m", kind |-> "cli", cli |-> cli]
       IN RouteResolvesToCliModel(<<"m">>, <<model>>) /\ ResolveCliInvocation(model) = NoInvocation

BudgetConfigFromSettings(settings) ==
  [calls |-> IF "calls" \in DOMAIN settings THEN settings.calls ELSE 30,
   tokens |-> IF "tokens" \in DOMAIN settings THEN settings.tokens ELSE 400000]
\* A budget of zero is a budget, not a missing one.
ASSUME SettingsAssumption ==
  /\ BudgetConfigFromSettings([calls |-> 0]) = [calls |-> 0, tokens |-> 400000]
  /\ BudgetConfigFromSettings([tokens |-> 0]) = [calls |-> 30, tokens |-> 0]
=============================================================================
