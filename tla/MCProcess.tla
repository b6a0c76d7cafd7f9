------------------------------ MODULE MCProcess ------------------------------
(***************************************************************************)
(* The machines of a process that share no state with each other, checked  *)
(* in one run: focus picks one of them, and the others stay as they begin. *)
(***************************************************************************)
EXTENDS GlobalTransports, KeyLimits, Spans, LogServer, DailyFiles, FanOut, Settings,
        Profiler, EntryBuilder

\* LOG_MODULES=a*:debug,ab:error,*:warn
MCEnvModules == {[name |-> <<"a">>, wild |-> TRUE, level |-> "debug"],
                 [name |-> <<"a", "b">>, wild |-> FALSE, level |-> "error"],
                 [name |-> <<>>, wild |-> TRUE, level |-> "warn"]}
MCModuleNames == {<<"a">>, <<"a", "b">>, <<"c">>}
MCBuckets == <<2, 5>>

-----------------------------------------------------------------------------
(* The calls that build an entry: many trees, or many contexts, or many    *)
(* messages.  The denylist matches the field sec.                          *)

Plain == [denylist |-> FALSE, pii |-> FALSE, paths |-> {}, wildcards |-> {}, maxDepth |-> 2,
          serializers |-> NoContext, mixin |-> NoContext, filtered |-> FALSE,
          schemaVersion |-> FALSE]

\* Children by key: anything in pubs under pub, anything in secs under sec.
ObjectsOf(pubs, secs) ==
    {f \in UNION {[ks -> pubs \cup secs] : ks \in SUBSET Fields} :
        \A k \in DOMAIN f : f[k] \in (IF k = "pub" THEN pubs ELSE secs)}
Leaves == {Leaf(k) : k \in {"number", "bearer", "email", "array", "error"}}
Inner == {Object(f) : f \in ObjectsOf(Leaves, {Leaf("number")})}
Trees == ObjectsOf(Leaves \cup Inner, {Leaf("number"), Object([k \in {"pub"} |-> Leaf("number")])})

RedactionSettings ==
    {[Plain EXCEPT !.denylist = d, !.pii = p, !.paths = x, !.wildcards = y, !.maxDepth = n] :
        d \in BOOLEAN, p \in BOOLEAN, x \in {{}, {<<"pub">>}, {<<"pub", "pub">>}},
        y \in {{}, {<<"pub">>}}, n \in {1, 2}}

SomeMessages == [value : {Leaf("text"), Leaf("bearer"), Leaf("email"), Leaf("number"),
                          Leaf("error"), Object(NoKids)}, long : BOOLEAN]
ShortText == [value |-> Leaf("text"), long |-> FALSE]

RedactionCalls ==
    {[s |-> s, message |-> ShortText, static |-> NoKids, lazy |-> t, async |-> NoContext] :
        s \in RedactionSettings, t \in Trees}

FromSource(kind) == {[k \in ks |-> Leaf(kind)] : ks \in SUBSET Fields}
ContextCalls ==
    {[s |-> [Plain EXCEPT !.denylist = d, !.serializers = z, !.mixin = x],
      message |-> ShortText, static |-> c, lazy |-> l, async |-> a] :
        d \in BOOLEAN,
        z \in {NoContext} \cup {[k \in {"pub"} |-> Leaf(v)] : v \in {"bearer", "error"}},
        x \in {NoContext} \cup FromSource("mixin"),
        c \in FromSource("static"), l \in {NoContext} \cup FromSource("lazy"),
        a \in {NoContext} \cup FromSource("async")}

MessageCalls ==
    {[s |-> [Plain EXCEPT !.denylist = d, !.pii = p, !.filtered = f, !.schemaVersion = v],
      message |-> m, static |-> NoKids, lazy |-> NoContext, async |-> NoContext] :
        d \in BOOLEAN, p \in BOOLEAN, f \in BOOLEAN, v \in BOOLEAN, m \in SomeMessages}

MCBuildCalls == RedactionCalls \cup ContextCalls \cup MessageCalls

-----------------------------------------------------------------------------
VARIABLE focus

mcVars == <<globalVars, limitVars, spanVars, serverVars, dailyVars, fanVars,
            settingsTreeVars, profilerVars, entryVars, focus>>

MCInit ==
    /\ focus \in {"global", "limits", "spans", "server", "daily",
                 "fan", "settings", "profiler", "entries"}
    /\ GlobalInit /\ LimitsInit /\ SpansInit /\ ServerInit
    /\ DailyInit /\ FanInit /\ SettingsInit /\ ProfilerInit /\ EntryInit
    /\ focus # "fan" => file = "off" /\ ~database
    /\ focus # "settings" => given = <<Blank>>

MCNext ==
    \/ /\ focus = "global" /\ GlobalNext
       /\ UNCHANGED <<limitVars, spanVars, serverVars, dailyVars,
                      fanVars, settingsTreeVars, profilerVars, entryVars, focus>>
    \/ /\ focus = "limits" /\ LimitsNext
       /\ UNCHANGED <<globalVars, spanVars, serverVars, dailyVars,
                      fanVars, settingsTreeVars, profilerVars, entryVars, focus>>
    \/ /\ focus = "spans" /\ SpansNext
       /\ UNCHANGED <<globalVars, limitVars, serverVars, dailyVars,
                      fanVars, settingsTreeVars, profilerVars, entryVars, focus>>
    \/ /\ focus = "server" /\ ServerNext
       /\ UNCHANGED <<globalVars, limitVars, spanVars, dailyVars,
                      fanVars, settingsTreeVars, profilerVars, entryVars, focus>>
    \/ /\ focus = "daily" /\ DailyNext
       /\ UNCHANGED <<globalVars, limitVars, spanVars, serverVars,
                      fanVars, settingsTreeVars, profilerVars, entryVars, focus>>
    \/ /\ focus = "fan" /\ FanNext
       /\ UNCHANGED <<globalVars, limitVars, spanVars, serverVars,
                      dailyVars, settingsTreeVars, profilerVars, entryVars, focus>>
    \/ /\ focus = "settings" /\ SettingsNext
       /\ UNCHANGED <<globalVars, limitVars, spanVars, serverVars,
                      dailyVars, fanVars, profilerVars, entryVars, focus>>
    \/ /\ focus = "profiler" /\ ProfilerNext
       /\ UNCHANGED <<globalVars, limitVars, spanVars, serverVars,
                      dailyVars, fanVars, settingsTreeVars, entryVars, focus>>
    \/ /\ focus = "entries" /\ EntryNext
       /\ UNCHANGED <<globalVars, limitVars, spanVars, serverVars,
                      dailyVars, fanVars, settingsTreeVars, profilerVars, focus>>

MCSpec == MCInit /\ [][MCNext]_mcVars
=============================================================================
