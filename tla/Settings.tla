------------------------------ MODULE Settings ------------------------------
(***************************************************************************)
(* The settings of a tree of loggers: resolveSettings() and mergeSettings()*)
(* of src/lib/settings.utils.ts, and what settings(), module() and child() *)
(* of src/api/logger.api.ts make of them.                                  *)
(*                                                                         *)
(* A patch is a LoggerSettings whose absent keys are Unset.  Of the fields *)
(* that are read with ?? alone there are those the choice of the builder   *)
(* reads, and level for all others; the other fields are those with a      *)
(* block of their own.  A path is "fine" or "blocked" (traversal).         *)
(***************************************************************************)
EXTENDS Naturals, Sequences, SequencesExt, FiniteSetsExt

CONSTANTS Unset, False, Null,  \* undefined, false and null
          EnvModules,          \* LOG_MODULES: records of name, wild and level
          ModuleNames,
          MaxLoggers, MaxPatches   \* bounds of the model

\* box and task, where they are objects.
Boxes == [error : {Unset, TRUE, FALSE}, fatal : {Unset, TRUE, FALSE}]
Tasks == [level : {Unset, "trace", "debug", "info", "warn", "error", "fatal"},
          progress : {Unset, TRUE, FALSE}]

ASSUME SettingsAssumption ==
    /\ Unset # False /\ Unset # Null /\ False # Null
    /\ \A v \in {Unset, False} : v \notin Boxes \cup Tasks \cup {TRUE, FALSE, "blocked"}
    /\ \A m, o \in EnvModules : m.name = o.name /\ m.wild = o.wild => m = o

VARIABLES loggers,   \* the loggers made so far, the root first; see NewLogger
          given,     \* history: the patches behind each logger's settings, laid over each other
          patches    \* history: patches used

settingsTreeVars == <<loggers, given, patches>>

\* a ?? b
Or(a, b) == IF a = Unset THEN b ELSE a
AtLeastOne(n) == IF n = 0 THEN 1 ELSE n

-----------------------------------------------------------------------------
(* The blocks: Build makes a patch that is there into a resolved value.    *)

BuildBlackbox(p) ==
    IF p = False THEN False
    ELSE [path |-> IF p.path = "blocked" THEN Unset ELSE p.path, size |-> AtLeastOne(Or(p.size, 1000))]
BuildSampling(p) == IF p = False THEN False ELSE [rate |-> p.rate, perTrace |-> Or(p.perTrace, TRUE)]
BuildProfile(p) == IF p = False THEN False ELSE AtLeastOne(Or(p.maxOperations, 64))
BuildPii(p) ==
    IF p = False \/ TRUE \notin {p.card, p.email} THEN False
    ELSE [card |-> p.card = TRUE, email |-> p.email = TRUE]
BuildBase(p) == IF p = "empty" THEN False ELSE p
SanitizeFile(p) == IF p = "blocked" THEN False ELSE p

\* box and task are laid over the value they patch, key by key.
OverBox(p, base) == [error |-> Or(p.error, base.error), fatal |-> Or(p.fatal, base.fatal)]
OverTask(p, base) == [level |-> Or(p.level, base.level), progress |-> Or(p.progress, base.progress)]
BoxDefaults == [error |-> FALSE, fatal |-> FALSE]
TaskDefaults == [level |-> "debug", progress |-> FALSE]

ResolveSettings(p) ==
    [level      |-> Or(p.level, "info"),
     blackbox   |-> BuildBlackbox(Or(p.blackbox, False)),
     sampling   |-> BuildSampling(Or(p.sampling, False)),
     profile    |-> BuildProfile(Or(p.profile, False)),
     redactKeys |-> Or(p.redactKeys, "default"),
     redactPaths |-> Or(p.redactPaths, "none"),
     redactPii  |-> BuildPii(Or(p.redactPii, False)),
     serializers |-> p.serializers, mixin |-> p.mixin,
     filters    |-> Or(p.filters, "none"), schemaVersion |-> Or(p.schemaVersion, False),
     baseFields |-> BuildBase(Or(p.baseFields, False)),
     file       |-> SanitizeFile(Or(p.file, False)),
     box        |-> IF p.box \in {Unset, False} THEN False ELSE OverBox(p.box, BoxDefaults),
     task       |-> IF p.task = Unset THEN TaskDefaults ELSE OverTask(p.task, TaskDefaults)]

\* Mutant of MergeBox: the box is laid over the defaults.
MergeBoxAnew(base, p) ==
    IF p.box \in {Unset, False} THEN Or(p.box, base.box) ELSE OverBox(p.box, BoxDefaults)

\* boxBlock.merge()
MergeBox(base, p) ==
    IF p.box \in {Unset, False} THEN Or(p.box, base.box)
    ELSE OverBox(p.box, IF base.box = False THEN BoxDefaults ELSE base.box)

MergeSettings(base, p) ==
    [level      |-> Or(p.level, base.level),
     blackbox   |-> IF p.blackbox = Unset THEN base.blackbox ELSE BuildBlackbox(p.blackbox),
     sampling   |-> IF p.sampling = Unset THEN base.sampling ELSE BuildSampling(p.sampling),
     profile    |-> IF p.profile = Unset THEN base.profile ELSE BuildProfile(p.profile),
     redactKeys |-> Or(p.redactKeys, base.redactKeys),
     redactPaths |-> Or(p.redactPaths, base.redactPaths),
     redactPii  |-> IF p.redactPii = Unset THEN base.redactPii ELSE BuildPii(p.redactPii),
     serializers |-> Or(p.serializers, base.serializers), mixin |-> Or(p.mixin, base.mixin),
     filters    |-> Or(p.filters, base.filters),
     schemaVersion |-> Or(p.schemaVersion, base.schemaVersion),
     baseFields |-> IF p.baseFields = Unset THEN base.baseFields ELSE BuildBase(p.baseFields),
     file       |-> Or(SanitizeFile(p.file), base.file),
     box        |-> MergeBox(base, p),
     task       |-> IF p.task = Unset THEN base.task ELSE OverTask(p.task, base.task)]

-----------------------------------------------------------------------------
(* The loggers.                                                            *)

\* matchEnvModule(): the exact name, else the longest prefix, else "*".
EnvLevel(name) ==
    LET exact == {m \in EnvModules : ~m.wild /\ m.name = name}
        prefixes == {m \in EnvModules : m.wild /\ m.name # <<>> /\ IsPrefix(m.name, name)}
        best == {m \in prefixes : \A o \in prefixes : Len(o.name) <= Len(m.name)}
        star == {m \in EnvModules : m.wild /\ m.name = <<>>}
        chosen == IF exact # {} THEN exact ELSE IF best # {} THEN best ELSE star
    IN  IF chosen = {} THEN Unset ELSE (CHOOSE m \in chosen : TRUE).level

\* applyHotSettings() throws when it has to make a second profiler: the first one
\* has registered its histogram with the registry of this logger for good.
Throws(logger, s) == s.profile # False /\ logger.profiler = 0 /\ logger.registered

Redacts(s) == s.redactKeys # Null \/ s.redactPaths # "none" \/ s.redactPii # False

\* applyHotSettings(): the fields the write path reads, the profiler last.  The
\* ring and the profiler are kept while their setting is on, whatever their size
\* is now.  The transport is built afterwards, unless it threw.
ApplyHot(logger, s) ==
    [settings |-> s,
     level    |-> s.level,
     plan     |-> IF Redacts(s) \/ s.serializers # Unset \/ s.mixin # Unset
                        \/ s.filters # "none" \/ s.schemaVersion # False
                  THEN "buildEntry" ELSE "buildEntryFast",
     ring     |-> IF s.blackbox = False THEN 0 ELSE IF logger.ring # 0 THEN logger.ring ELSE s.blackbox.size,
     profiler |-> IF s.profile = False \/ Throws(logger, s) THEN 0
                  ELSE IF logger.profiler # 0 THEN logger.profiler ELSE s.profile,
     registered |-> logger.registered \/ s.profile # False,
     builtFor |-> IF Throws(logger, s) THEN logger.builtFor   \* what the transport in use
                                       ELSE <<s.file, s.box>>] \* was built from

NewLogger(s) == ApplyHot([ring |-> 0, profiler |-> 0, registered |-> FALSE], s)

Blank == [level |-> Unset, blackbox |-> Unset, sampling |-> Unset, profile |-> Unset,
          redactKeys |-> Unset, redactPaths |-> Unset, redactPii |-> Unset,
          serializers |-> Unset, mixin |-> Unset, filters |-> Unset, schemaVersion |-> Unset,
          baseFields |-> Unset, file |-> Unset, box |-> Unset, task |-> Unset]

\* A few settings at a time that do not read each other.
SomePatches ==
    {[Blank EXCEPT !.level = "warn", !.task = [level |-> "warn", progress |-> Unset]],
     [Blank EXCEPT !.task = [level |-> Unset, progress |-> TRUE], !.mixin = "some"]}
    \cup {[Blank EXCEPT !.blackbox = v[1], !.filters = v[2]] :
             v \in {<<False, "none">>, <<[path |-> "blocked", size |-> Unset], Unset>>,
                    <<[path |-> Unset, size |-> 0], "some">>}}
    \cup {[Blank EXCEPT !.sampling = v[1], !.baseFields = v[2], !.redactPaths = v[3]] :
             v \in {<<False, "empty", "none">>, <<[rate |-> 1, perTrace |-> Unset], "some", "some">>}}
    \cup {[Blank EXCEPT !.profile = v[1], !.file = v[2]] :
             v \in {<<False, False>>, <<[maxOperations |-> 0], "fine">>, <<Unset, "blocked">>}}
    \cup {[Blank EXCEPT !.redactKeys = v] : v \in {Null, "own"}}
    \cup {[Blank EXCEPT !.redactPii = v] : v \in {False} \cup [card : BOOLEAN, email : {Unset}]}
    \cup {[Blank EXCEPT !.box = v[1], !.schemaVersion = v[2], !.serializers = v[3]] :
             v \in {<<False, False, Unset>>, <<[error |-> TRUE, fatal |-> Unset], TRUE, Unset>>,
                    <<[error |-> Unset, fatal |-> TRUE], Unset, "some">>}}

SettingsInit ==
    \E p \in {Blank} \cup SomePatches :
        /\ loggers = <<NewLogger(ResolveSettings(p))>> /\ given = <<p>>
        /\ patches = IF p = Blank THEN 0 ELSE 1

\* The history: one patch laid over what was given before.
Overlay(old, p) ==
    [f \in DOMAIN Blank |->
        IF p[f] = Unset THEN old[f] ELSE
        CASE f = "task" /\ old[f] # Unset -> OverTask(p[f], old[f])
          [] f = "box" /\ p[f] # False /\ old[f] \notin {Unset, False} -> OverBox(p[f], old[f])
          [] OTHER -> p[f]]

\* settings() of logger i.
SetSettings(i, p) ==
    /\ patches < MaxPatches /\ patches' = patches + 1
    /\ loggers' = [loggers EXCEPT ![i] = ApplyHot(@, MergeSettings(@.settings, p))]
    /\ given' = [given EXCEPT ![i] = Overlay(@, p)]

\* module(): the level of the environment comes after the override.
Module(i, name, override) ==
    LET levelled == [Blank EXCEPT !.level = EnvLevel(name)]
        s == MergeSettings(MergeSettings(loggers[i].settings, override), levelled)
    IN  /\ Len(loggers) < MaxLoggers /\ patches < MaxPatches
        /\ patches' = IF override = Blank THEN patches ELSE patches + 1
        /\ loggers' = Append(loggers, NewLogger(s))
        /\ given' = Append(given, Overlay(Overlay(given[i], override), levelled))

\* child()
Child(i) ==
    /\ Len(loggers) < MaxLoggers
    /\ loggers' = Append(loggers, NewLogger(loggers[i].settings))
    /\ given' = Append(given, given[i])
    /\ UNCHANGED patches

SettingsNext ==
    \E i \in DOMAIN loggers :
        \/ \E p \in SomePatches : SetSettings(i, p)
        \/ \E name \in ModuleNames, p \in {Blank} \cup SomePatches : Module(i, name, p)
        \/ Child(i)

SettingsSpec == SettingsInit /\ [][SettingsNext]_settingsTreeVars

-----------------------------------------------------------------------------
(* Properties.                                                             *)

\* Merging patches into resolved settings, one after the other and down the
\* tree, gives what resolving all of them at once would have given.
MergeIsOverlay ==
    \A i \in DOMAIN loggers : loggers[i].settings = ResolveSettings(given[i])

\* The last settings() of logger i threw.
Threw(i) == loggers[i].settings.profile # False /\ loggers[i].profiler = 0

\* A blocked path is never used; a file that is given one is off, and a black
\* box has no file to be dumped to.
BlockedNeverUsed ==
    \A i \in DOMAIN loggers :
        LET s == loggers[i].settings
        IN  /\ s.file # "blocked" /\ (s.blackbox # False => s.blackbox.path # "blocked")
            /\ loggers[i].builtFor[1] # "blocked"
            /\ given[i].file = "blocked" => s.file = False

\* What the fast builder leaves out is off.
FastSuffices(s) == /\ s.redactKeys = Null /\ s.redactPaths = "none" /\ s.redactPii = False
                   /\ s.serializers = Unset /\ s.mixin = Unset
                   /\ s.filters = "none" /\ s.schemaVersion = False

\* The fields the write path reads agree with the settings, also when settings()
\* threw: the fast builder is used only while nothing is to be redacted, stamped,
\* filtered, serialized or mixed in; there is a black box exactly while its
\* setting is on and a profiler only then; the transport is that of the settings
\* unless settings() threw, which takes a profiler that was switched off before.
HotAgrees ==
    \A i \in DOMAIN loggers :
        LET s == loggers[i].settings
        IN  /\ loggers[i].plan = "buildEntryFast" => FastSuffices(s)
            /\ loggers[i].level = s.level /\ (loggers[i].ring = 0 <=> s.blackbox = False)
            /\ loggers[i].profiler # 0 => s.profile # False
            /\ Threw(i) \/ loggers[i].builtFor = <<s.file, s.box>>
            /\ Threw(i) => patches > 2

\* Settings stay what the patches of a logger and of those above it at the time
\* of its creation say.
SettingsConsistent == MergeIsOverlay /\ BlockedNeverUsed /\ HotAgrees

\* Of src/lib/tests/profile.test.ts:44: "profiling can be toggled at runtime".
\* Switched on a second time, it throws.
ProfilingToggles == \A i \in DOMAIN loggers : ~Threw(i)
=============================================================================
