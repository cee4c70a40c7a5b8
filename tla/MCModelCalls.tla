----------------------------- MODULE MCModelCalls -----------------------------
(* Instances of ModelCalls for TLC. *)
EXTENDS ModelCalls, TLC

CONSTANTS s1, s2, w1, w2, live, fake, env

\* The developer falls back from a live model to a scripted one and back to
\* another model of the live provider; reviews are overridden to a provider
\* that only a handle of another type could bring up.
MCRouting == [developer |-> <<"live/strong", "fake", "live/cheap">>,
              debugger |-> <<"fake">>]
MCOverrides == <<"review", "developer">> :> "env/mid"
MCParsed == "live/strong" :> live @@ "live/cheap" :> live @@ "fake" :> fake @@ "env/mid" :> env
MCTiers == "live/strong" :> 2 @@ "live/cheap" :> 0
MCPolicy == [upgradeAfter |-> 2, hardStartsStrong |-> TRUE]
MCBoot == <<live, env>>

Model(name, kind, caps, price, long) ==
  [name |-> name, kind |-> kind, caps |-> caps, price |-> price, long |-> long, reachable |-> TRUE]

\* Two priced models of different strength, one without a price and one that
\* is an external command line tool.
MCModels == {Model(1, "api", {"code", "front"}, 3, TRUE), Model(2, "api", {"code"}, 1, FALSE),
             Model(3, "api", {"code", "front"}, Unpriced, FALSE), Model(4, "cli", {"code"}, 0, TRUE)}

MCTasks == {[cap |-> "code", complexity |-> 3, domains |-> {"front"}, long |-> FALSE],
            [cap |-> "code", complexity |-> 1, domains |-> {}, long |-> TRUE]}

Perms == Permutations({s1, s2}) \cup Permutations({w1, w2})
=============================================================================
