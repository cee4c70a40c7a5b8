------------------------------ MODULE CodeIndex ------------------------------
(* What the agents know of the code: the engine's index of the workspace is   *)
(* built at Step 0 and synced after a checkpoint, never by a watcher, and a   *)
(* story's packet is located in it.  The exported symbols an impact query     *)
(* starts from are read from the file on disk, the uses of them from the      *)
(* index.  Without an engine the packet falls back to the write set.          *)
EXTENDS Integers, FiniteSets

CONSTANTS
  Files,     \* files of the workspace
  TypesOnly  \* files all of whose exports are interfaces, types or defaults

VARIABLES
  uses,    \* the files each file calls into, on disk
  index,   \* the same as the engine last saw it
  synced   \* whether the last sync of the index succeeded

Uses == [Files -> SUBSET Files]
ASSUME FilesAssumption == TypesOnly \subseteq Files

IndexOK == uses \in Uses /\ index \in Uses /\ synced \in BOOLEAN

\* step0BuildIndex: the run starts with the index of the code as it is.
InitIndex(code) == uses = code /\ index = code /\ synced = TRUE

\* The engine is the one the environment names, one on the path, or one npx
\* would fetch; without any the packets are composed by the empty client.
Hosts == [override : BOOLEAN, on_path : BOOLEAN, npx : BOOLEAN]
ResolveCodegraphBin(host) ==
  CASE host.override -> "env"
    [] ~host.override /\ host.on_path -> "path"
    [] ~host.override /\ ~host.on_path /\ host.npx -> "npx"
    [] OTHER -> "none"
EngineAvailable(host) == ResolveCodegraphBin(host) # "none"

\* Mutant: the index is only built when there is none.
CheckpointSyncNever(ok) == UNCHANGED index /\ synced' = ok

\* The exit code of the engine is looked at by nobody: a sync that fails leaves
\* the index where it was.
CheckpointSync(ok) ==
  /\ index' = IF ok THEN uses ELSE index
  /\ synced' = ok

\* The pattern for exports does not see interfaces, types and defaults.
ExportedSymbols(f) == IF f \in TypesOnly THEN {} ELSE {f}
DirectUsers(rel, fs) == {f \in DOMAIN rel : rel[f] \cap fs # {}}
ImpactRaw(fs) == DirectUsers(index, fs) \cup DirectUsers(index, DirectUsers(index, fs))
CalleesRaw(fs) == UNION {index[f] : f \in fs}

\* Without an engine the adapter's client answers nothing.
EngineClient(op, fs, engine) ==
  IF ~engine THEN {}
  ELSE [symbol_lookup |-> UNION {ExportedSymbols(f) : f \in fs},
        impact |-> ImpactRaw(UNION {ExportedSymbols(f) : f \in fs}) \ fs,
        dependents |-> DirectUsers(index, fs),
        dependencies |-> CalleesRaw(fs),
        callgraph |-> DirectUsers(index, fs) \cup CalleesRaw(fs)][op]

FilterToReadScope(fs, scope) == IF scope = {} THEN fs ELSE fs \cap scope
LookupSymbol(f, engine, scope) == FilterToReadScope(EngineClient("symbol_lookup", {f}, engine), scope)
ComputeImpactSet(ws, engine, scope) == FilterToReadScope(EngineClient("impact", ws, engine), scope)

\* A located packet: the write set, the files of the named symbols and the
\* dependents, which are to be preserved.
LocateRelevantCode(ws, symbols, engine) ==
  LET dependents == IF ws = {} THEN {} ELSE ComputeImpactSet(ws, engine, {}) \ ws
  IN [do_not_touch |-> dependents,
      relevant_files |-> ws \cup dependents \cup UNION {LookupSymbol(f, engine, {}) : f \in symbols}]

\* What earlier stories produced counts as located by any mention of its name.
LocateContracts(names, engine, scope) ==
  [f \in names |-> LookupSymbol(f, engine, scope)]
=============================================================================
