---------------------------- MODULE MCProjectLoop ----------------------------
EXTENDS ProjectLoop

CONSTANTS a, b, c, d, e1, e2, api, config

MCEpicOf == [s \in Stories |-> IF s = d THEN e2 ELSE e1]
\* c follows b and b follows a; c needs what b made of a's contract.
MCDependsOn == [s \in Stories |-> CASE s = b -> {a} [] s = c -> {b} [] OTHER -> {}]
MCRank == [s \in Stories |-> CASE s = a -> 1 [] s = b -> 2 [] s = c -> 3 [] OTHER -> 4]
MCProduces == [s \in Stories |-> CASE s = a -> {api} [] s = b -> {api, config} [] OTHER -> {}]
=============================================================================
