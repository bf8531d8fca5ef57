---------------------------- MODULE AnalystLaunch ----------------------------
(***************************************************************************)
(* The launch of the analyst's MCP child (src/src/shell/analyst-mcp-       *)
(* launcher.ts over the ports of src/src/shell/mcp-environment.ts and the  *)
(* gates of src/src/core/startup.ts): documents, removal, scan, evidence,  *)
(* spawn, inventory, one awaited operation at a time, in a directory that  *)
(* other processes may change meanwhile.  What the environment holds is    *)
(* "pinned" or "other"; generated bytecode is pinned when it is absent.    *)
(***************************************************************************)
EXTENDS Integers, Sequences, FiniteSets

CONSTANTS Manifests,   \* the manifest documents a deployment may carry
          RuntimeLocks,\* the lock documents it may carry
          HostNames,   \* variables of the host process
          MaxChanges,  \* bound: changes of the environment during a launch
          NoLaunch     \* nothing is launched (the other topics of a run)

VARIABLE launch

(***************************************************************************)
(* The environment, by who vouches for it: the source checkout, the files  *)
(* of the importable site, and the interpreter.                            *)
(***************************************************************************)
Bytecode == {"pycache", "pyc"}
SiteKinds == {"package", "dependency", "metadata", "project", "installer", "bin"} \cup Bytecode
Kinds == SiteKinds \cup {"commit", "launcher", "runtime"}
\* -S and -P leave the site directory as the only place to import from.
Importable == {"package", "dependency", "runtime"} \cup Bytecode

(***************************************************************************)
(* The two documents.  policy is the switches that have their safe value.  *)
(***************************************************************************)
policySwitches ==
    {"dedicatedEnvironment", "buildFromPinnedCommit", "frozenDependencyLock", "learnHashesFromInstalledEnvironment",
     "verifyImmutableSourceAndPackageFilesBeforeSpawn", "requireRemovedFilesAbsentBeforeSpawn",
     "disableBytecodeWritesInChild"}
Distinct(names) == Cardinality({names[i] : i \in DOMAIN names}) = Len(names)
validateAnalystManifest(m) ==
    /\ m.schemaVersion = 1 /\ m.package # "" /\ m.version # 0 /\ m.analystProfile = "dev"
    /\ m.inventoryPolicy = "exact" /\ m.alpacaToolsets # {} /\ m.allowedTools # <<>> /\ Distinct(m.allowedTools)
    /\ m.unknown = {}
validateRuntimeLock(l) ==
    /\ l.schemaVersion = 1 /\ l.pins /\ l.package # "" /\ l.version # 0
    /\ l.policy = policySwitches /\ l.removeBeforeSpawn # {} /\ l.unknown = {}
verifyManifestLockAgreement(m, l) == m.package = l.package /\ m.version = l.version

(***************************************************************************)
(* The child's environment: the variables an interpreter needs, taken from *)
(* the host by name, and the constructed ones.                             *)
(***************************************************************************)
analystOsAllowlist == {"SYSTEMROOT", "TEMP", "TMP", "PYTHONPATH"}
forbiddenEnv == {"ALPACA_COMP_KEY_ID", "CLAUDE_CODE_OAUTH_TOKEN", "ANTHROPIC_API_KEY"}
analystEnvVariables == {"ALPACA_API_KEY", "ALPACA_SECRET_KEY", "ALPACA_TOOLSETS", "PYTHONDONTWRITEBYTECODE"}
analystOsEnv(host) == (host \cap {"SYSTEMROOT", "TEMP", "TMP"}) \cup {"PYTHONPATH"}
\* Without dev credentials the two keys are empty, which counts as missing.
buildAnalystChildEnv(host) ==
    IF "ALPACA_DEV_KEY_ID" \in host THEN analystEnvVariables
    ELSE analystEnvVariables \ {"ALPACA_API_KEY", "ALPACA_SECRET_KEY"}
childEnvironment(host) == analystOsEnv(host) \cup buildAnalystChildEnv(host)
validateChildEnvironment(env) ==
    /\ env \cap forbiddenEnv = {}
    /\ env \subseteq analystEnvVariables \cup analystOsAllowlist
    /\ analystEnvVariables \subseteq env

(***************************************************************************)
(* Removal and scan go by the lock's patterns; a file that vanishes under  *)
(* the walk, or cannot be listed, is left to the scan.                     *)
(***************************************************************************)
matchesPattern(kind, pattern) ==
    kind = pattern \/ (kind = "pycache" /\ pattern = "pyc")
Removable(l) == {k \in Bytecode \cup {"bin"} : \E p \in l.removeBeforeSpawn : matchesPattern(k, p)}
Found(kinds) == {k \in kinds : launch.env[k] = "other"}

\* What each part of the evidence looks at.
Looks ==
    [sourceCommit |-> {"commit"}, dependencyLockMatchesPin |-> {"metadata", "project"},
     dependencyContentMatchesPin |-> {"dependency", "metadata"}, immutableFileMismatches |-> {"package"},
     launchArtifactsSha256 |-> SiteKinds \ Bytecode,
     interpreter |-> {"launcher", "runtime"}]
gather ==
    <<"sourceCommit", "dependencyLockMatchesPin", "dependencyContentMatchesPin", "immutableFileMismatches",
      "launchArtifactsSha256", "interpreter">>

\* Mutant: what the scan found after the removal is not part of the observation.
verifyMcpLaunch_unscanned(observed) ==
    /\ \A part \in DOMAIN Looks \ {"launchArtifactsSha256"} : observed.evidence[part] = {}
    /\ validateChildEnvironment(observed.childEnv)

\* The digest of the artifacts is no gate of the launch: the arming gate compares it.
verifyMcpLaunch(observed) ==
    /\ \A part \in DOMAIN Looks \ {"launchArtifactsSha256"} : observed.evidence[part] = {}
    /\ observed.surviving = {}
    /\ validateChildEnvironment(observed.childEnv)
verifyMcpInventory(m, offered) ==
    Distinct(offered) /\ {offered[i] : i \in DOMAIN offered} = {m.allowedTools[i] : i \in DOMAIN m.allowedTools}

(***************************************************************************)
(* The launch.  looked is the kinds that have been judged so far and late  *)
(* those that changed after they were; ran is what the child imported.     *)
(***************************************************************************)
NotRead == "not_read"
LaunchInit ==
    \E m \in Manifests, l \in RuntimeLocks, host \in SUBSET HostNames, wrong \in SUBSET Kinds :
        /\ Cardinality(wrong) <= 2
        /\ launch = [phase |-> "documents", manifest |-> m, lock |-> l, childEnv |-> childEnvironment(host),
                     env |-> [k \in Kinds |-> IF k \in wrong THEN "other" ELSE "pinned"],
                     evidence |-> [part \in DOMAIN Looks |-> {}], part |-> 1, surviving |-> {},
                     child |-> "none", ran |-> [k \in Importable |-> NotRead],
                     looked |-> {}, late |-> {}, changes |-> 0, outcome |-> "none"]

Ends(l, outcome) == [l EXCEPT !.phase = "over", !.outcome = outcome]
Judges(l, kinds) == [l EXCEPT !.looked = @ \cup kinds, !.late = @ \ kinds]

ReadDocuments ==
    /\ launch # NoLaunch /\ launch.phase = "documents"
    /\ launch' = IF /\ validateAnalystManifest(launch.manifest) /\ validateRuntimeLock(launch.lock)
                    /\ verifyManifestLockAgreement(launch.manifest, launch.lock)
                 THEN [launch EXCEPT !.phase = "remove"] ELSE Ends(launch, "refused")
removeBytecode ==
    /\ launch # NoLaunch /\ launch.phase = "remove"
    /\ \E left \in SUBSET Found(Removable(launch.lock)) :
        launch' = [launch EXCEPT !.phase = "scan",
                     !.env = [k \in Kinds |-> IF k \in Removable(launch.lock) \ left THEN "pinned" ELSE @[k]]]
scanBytecode ==
    /\ launch # NoLaunch /\ launch.phase = "scan"
    /\ launch' = Judges([launch EXCEPT !.phase = "gather", !.surviving = Found(Removable(launch.lock))],
                        Removable(launch.lock))
GatherPart ==
    /\ launch # NoLaunch /\ launch.phase = "gather"
    /\ LET part == gather[launch.part]
           seen == [launch EXCEPT !.evidence[part] = Found(Looks[part]), !.part = @ + 1,
                      !.phase = IF launch.part = Len(gather) THEN "verify" ELSE @]
       IN  launch' = IF part = "launchArtifactsSha256" THEN seen ELSE Judges(seen, Looks[part])
launchVerifiedAnalystChild ==
    /\ launch # NoLaunch /\ launch.phase = "verify"
    /\ launch' = IF verifyMcpLaunch(launch)
                 THEN [launch EXCEPT !.phase = "connect", !.child = "running",
                                     !.ran = [k \in Importable |-> launch.env[k]]]
                 ELSE Ends(launch, "refused")
Connect == launch # NoLaunch /\ launch.phase = "connect" /\ launch' = [launch EXCEPT !.phase = "inventory"]
\* The offered tools come from the code that runs: pinned code offers what the manifest lists.
Offers ==
    LET listed == launch.manifest.allowedTools
    IN  IF launch.ran = [k \in Importable |-> "pinned"] THEN {listed}
        ELSE {listed, Append(listed, "place_order"), Append(listed, listed[1]), Tail(listed)}
ListTools ==
    /\ launch # NoLaunch /\ launch.phase = "inventory"
    /\ \E offered \in Offers :
        launch' = IF verifyMcpInventory(launch.manifest, offered) THEN Ends(launch, "accepted")
                  ELSE [launch EXCEPT !.phase = "stop", !.outcome = "refused"]
\* An operation throws or runs into its timeout; before the spawn nothing is to be undone.
Fail ==
    /\ launch # NoLaunch /\ launch.phase \in {"remove", "scan", "gather", "connect", "inventory"}
    /\ launch' = IF launch.child = "none" THEN Ends(launch, "failed")
                 ELSE [launch EXCEPT !.phase = "stop", !.outcome = "failed"]
\* Stopping may fail too, and then the error names both.
StopChild ==
    /\ launch # NoLaunch /\ launch.phase = "stop"
    /\ \/ launch' = [launch EXCEPT !.phase = "over", !.child = "stopped"]
       \/ launch' = Ends(launch, "cleanup_incomplete")

\* Another process installs, removes or compiles something (external).
Change ==
    /\ launch # NoLaunch /\ launch.phase \notin {"documents", "over"} /\ launch.changes < MaxChanges
    /\ \E k \in Kinds :
        launch' = [launch EXCEPT !.env[k] = IF @ = "pinned" THEN "other" ELSE "pinned", !.changes = @ + 1,
                                 !.late = IF k \in launch.looked THEN @ \cup {k} ELSE @]

LaunchNext ==
    \/ ReadDocuments \/ removeBytecode \/ scanBytecode \/ GatherPart \/ launchVerifiedAnalystChild
    \/ Connect \/ ListTools \/ Fail \/ StopChild \/ Change

(***************************************************************************)
(* Properties                                                              *)
(***************************************************************************)
\* The exclusions of the digests leave no hole: whatever a spawned child imports, package,
\* dependency, interpreter or generated bytecode, was the pinned one when the launch judged
\* it, in whatever order the environment changed; only what changed after it was judged can
\* differ, and only by a change during this launch.  And no child that was not accepted is
\* left running without an error that says so.
ChildIsPinned ==
    launch # NoLaunch =>
        /\ launch.child # "none" /\ "pyc" \in launch.lock.removeBeforeSpawn =>
              \A k \in Importable : launch.ran[k] = "pinned" \/ k \in launch.late
        /\ launch.child = "running" /\ launch.phase = "over" =>
              launch.outcome \in {"accepted", "cleanup_incomplete"}
        /\ launch.outcome = "accepted" =>
              launch.child = "running" /\ launch.lock.version = launch.manifest.version
=============================================================================
