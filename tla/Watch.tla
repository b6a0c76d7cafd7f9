-------------------------------- MODULE Watch --------------------------------
(***************************************************************************)
(* The availability watchers of one logger: startWatcher() of              *)
(* src/watch/index.watch.ts and the handles that src/api/watch.api.ts and  *)
(* Logger.close() keep of them.                                            *)
(*                                                                         *)
(* A watcher is a chain of probes: the outcome of a probe arms the timer   *)
(* of the next one.  runProbe() is public, so a caller can start further   *)
(* chains; the watcher keeps the handle of the last timer only.  Time is   *)
(* abstracted: an armed timer may fire at any moment.  A wait is a number  *)
(* of whole milliseconds, which is what setTimeout() makes of it.          *)
(***************************************************************************)
EXTENDS Naturals, Functions

CONSTANTS Watchers,     \* the watchers that can be started
          NoWatcher,    \* null
          Backoff,      \* whether the option is on
          Interval, BackoffMaxMs,
          Jitter,       \* backoff.jitter in percent
          MaxExtras,    \* bound: runProbe() calls and throwing callbacks of the user
          MaxFailures   \* bound: failures in a row that are counted

ASSUME WatchAssumption ==
    NoWatcher \notin Watchers /\ Backoff \in BOOLEAN
      /\ {Interval, BackoffMaxMs, MaxExtras, MaxFailures} \subseteq Nat \ {0}
      /\ Jitter \in 0 .. 100

VARIABLES watch,          \* watcher -> its closure; see Unused
          watchHandles,   \* Logger.watchHandles
          declarativeWatch,
          declared        \* history: watchers started through settings

watchVars == <<watch, watchHandles, declarativeWatch, declared>>

\* up is the flag of the same name; probing and stray count probes under way and
\* armed timers whose handle is lost; said is the last edge logged.
Unused == [started |-> FALSE, stopped |-> FALSE, up |-> "null", failures |-> 0,
           probing |-> 0, armed |-> FALSE, stray |-> 0, delay |-> 0,
           said |-> "nothing", threw |-> FALSE, manual |-> 0]

Started == [Unused EXCEPT !.started = TRUE, !.probing = 1]

Running == {w \in Watchers : watch[w].started /\ ~watch[w].stopped}
Chains(x) == x.probing + x.stray + (IF x.armed THEN 1 ELSE 0)

WatchInit == /\ watch = [w \in Watchers |-> Unused]
             /\ watchHandles = {} /\ declarativeWatch = NoWatcher /\ declared = {}

-----------------------------------------------------------------------------
(* One watcher.                                                            *)

\* intervalMs * 2 ** n
Doubled ==
    LET d[n \in 0 .. MaxFailures] == IF n = 0 THEN Interval ELSE 2 * d[n - 1]
    IN  d

\* watchBackoffMs()
WatchBackoff(failures) ==
    LET doubled == Doubled[IF failures = 0 THEN 0 ELSE failures - 1]
    IN  IF doubled < BackoffMaxMs THEN doubled ELSE BackoffMaxMs

\* applyJitter(): a wait is moved by a random share, down or up.
Spread(wait) == (wait * Jitter) \div 100
Jittered(wait) == wait - Spread(wait) .. wait + Spread(wait)

\* The waits before the next probe there may be.
NextWaits(ok, failures) ==
    IF ok \/ ~Backoff THEN {Interval} ELSE Jittered(WatchBackoff(failures))

\* The next probe is scheduled; the handle of a timer still armed is lost.
Arm(x, wait) == [x EXCEPT !.armed = TRUE, !.stray = IF x.armed THEN @ + 1 ELSE @, !.delay = wait]

Fails(x) == [x EXCEPT !.threw = TRUE]

\* handleSuccess(): onConnect comes after the flag and before the log.
Success(x, throws, wait) ==
    LET y == [x EXCEPT !.failures = 0, !.up = "up"]
        z == [y EXCEPT !.said = IF x.up = "up" THEN @ ELSE "connected"]
    IN  CASE throws = "never" -> Arm(z, wait)
          [] throws = "edge"  -> IF x.up = "up" THEN Arm(z, wait) ELSE Fails(y)
          [] OTHER            -> Fails(z)

Failed(x) == IF x.failures < MaxFailures THEN x.failures + 1 ELSE x.failures

\* handleFailure(): onError comes before the flag, onDisconnect after it.
Failure(x, throws, wait) ==
    LET y == [x EXCEPT !.failures = Failed(x)]
        down == [y EXCEPT !.up = "down"]
        said == [down EXCEPT !.said = CASE x.up = "up" -> "disconnected"
                                        [] x.up = "null" -> "unreachable" [] OTHER -> @]
    IN  CASE throws = "never" -> Arm(said, wait)
          [] throws = "edge"  -> IF x.up = "up" THEN Fails(down) ELSE Arm(said, wait)
          [] OTHER            -> Fails(y)

Extras == FoldFunction(LAMBDA x, n : x.manual + (IF x.threw THEN 1 ELSE 0) + n, 0, watch)

\* The outcome of a probe arrives, stopped or not.  A hook of the caller throws:
\* never, at the edge, or in the hook that every such outcome calls.
Outcome(w, ok, throws) ==
    /\ watch[w].probing > 0
    /\ throws # "never" => Extras < MaxExtras
    /\ LET x == [watch[w] EXCEPT !.probing = @ - 1]
       IN  \E wait \in NextWaits(ok, Failed(x)) :
             watch' = [watch EXCEPT ![w] = IF ok THEN Success(x, throws, wait)
                                                 ELSE Failure(x, throws, wait)]
    /\ UNCHANGED <<watchHandles, declarativeWatch, declared>>

\* isUp() of the caller throws: runProbe() rejects, and counts and arms nothing.
IsUpThrows(w) ==
    /\ watch[w].probing > 0 /\ Extras < MaxExtras
    /\ watch' = [watch EXCEPT ![w] = Fails([watch[w] EXCEPT !.probing = @ - 1])]
    /\ UNCHANGED <<watchHandles, declarativeWatch, declared>>

\* runProbe(): nothing on a watcher that is stopped.
Probe(x) == IF x.stopped THEN x ELSE [x EXCEPT !.probing = @ + 1]

TimerFires(w) ==
    /\ watch[w].armed
    /\ watch' = [watch EXCEPT ![w] = Probe([watch[w] EXCEPT !.armed = FALSE])]
    /\ UNCHANGED <<watchHandles, declarativeWatch, declared>>

\* A timer whose handle is lost.
StrayFires(w) ==
    /\ watch[w].stray > 0
    /\ watch' = [watch EXCEPT ![w] = Probe([watch[w] EXCEPT !.stray = @ - 1])]
    /\ UNCHANGED <<watchHandles, declarativeWatch, declared>>

\* runProbe() of the handle, called by the user.
RunProbe(w) ==
    /\ watch[w].started
    /\ Extras < MaxExtras
    /\ watch' = [watch EXCEPT ![w] = Probe([watch[w] EXCEPT !.manual = @ + 1])]
    /\ UNCHANGED <<watchHandles, declarativeWatch, declared>>

Stopped(x) == [x EXCEPT !.stopped = TRUE, !.armed = FALSE]

\* stop() of the handle; the logger keeps the handle.
Stop(w) ==
    /\ watch[w].started
    /\ watch' = [watch EXCEPT ![w] = Stopped(@)]
    /\ UNCHANGED <<watchHandles, declarativeWatch, declared>>

-----------------------------------------------------------------------------
(* The logger's watchers.                                                  *)

StopAll(f, ws) == [w \in Watchers |-> IF w \in ws THEN Stopped(f[w]) ELSE f[w]]

\* Logger.watch()
StartWatch(w) ==
    /\ ~watch[w].started
    /\ watch' = [watch EXCEPT ![w] = Started]
    /\ watchHandles' = watchHandles \cup {w}
    /\ UNCHANGED <<declarativeWatch, declared>>

\* Mutant of Rebind: the watcher that is replaced is not stopped.
RebindKeeps(new) ==
    /\ new \in {NoWatcher} \cup {w \in Watchers : ~watch[w].started}
    /\ watch' = [w \in Watchers |-> IF w = new THEN Started ELSE watch[w]]
    /\ watchHandles' = (watchHandles \ {declarativeWatch}) \cup ({new} \ {NoWatcher})
    /\ declarativeWatch' = new
    /\ declared' = declared \cup ({new} \ {NoWatcher})

\* rebindWatch() of settings({ watch }): NoWatcher stands for watch: false.
Rebind(new) ==
    /\ new \in {NoWatcher} \cup {w \in Watchers : ~watch[w].started}
    /\ LET halted == StopAll(watch, {declarativeWatch})
       IN  watch' = [w \in Watchers |-> IF w = new THEN Started ELSE halted[w]]
    /\ watchHandles' = (watchHandles \ {declarativeWatch}) \cup ({new} \ {NoWatcher})
    /\ declarativeWatch' = new
    /\ declared' = declared \cup ({new} \ {NoWatcher})

\* The part of Logger.close() that is about watchers.
CloseWatchers ==
    /\ watch' = StopAll(watch, watchHandles)
    /\ watchHandles' = {} /\ declarativeWatch' = NoWatcher
    /\ UNCHANGED declared

OutcomeArrives(w) ==
    \/ \E ok \in BOOLEAN, throws \in {"never", "edge", "always"} : Outcome(w, ok, throws)
    \/ IsUpThrows(w)

WatchNext == \/ \E w \in Watchers : OutcomeArrives(w) \/ TimerFires(w) \/ StrayFires(w)
                                      \/ RunProbe(w) \/ Stop(w) \/ StartWatch(w)
             \/ \E new \in Watchers \cup {NoWatcher} : Rebind(new)
             \/ CloseWatchers

\* Timers fire.  Of the outcome of a probe nothing is assumed.
WatchFairness == \A w \in Watchers : WF_watchVars(TimerFires(w) \/ StrayFires(w))

WatchSpec == WatchInit /\ [][WatchNext]_watchVars /\ WatchFairness

-----------------------------------------------------------------------------
(* Properties.                                                             *)

\* The flag has its three values, and the wait between probes stays below the cap
\* and the share of it that the jitter may add.
WatchTypeOK ==
    /\ DOMAIN watch = Watchers /\ watchHandles \subseteq Watchers /\ declared \subseteq Watchers
    /\ declarativeWatch \in Watchers \cup {NoWatcher}
    /\ \A w \in Watchers :
         /\ watch[w].up \in {"null", "up", "down"} /\ watch[w].failures \in 0 .. MaxFailures
         /\ watch[w].delay <= BackoffMaxMs + Spread(BackoffMaxMs) \/ watch[w].delay = Interval

\* Only a call of runProbe() adds a chain: the number of probes and timers of a
\* watcher never grows by itself, whatever the order of their outcomes.
ChainsAreCalled == \A w \in Watchers : Chains(watch[w]) <= 1 + watch[w].manual

\* While no hook threw, the flag and the edges that were logged agree, in
\* whatever order the outcomes of several chains arrive.
LogTellsState ==
    \A w \in Watchers : ~watch[w].threw =>
        /\ watch[w].up = "null" <=> watch[w].said = "nothing"
        /\ watch[w].up = "up" <=> watch[w].said = "connected"

\* The edges that are logged follow each other: disconnected only after
\* connected, and unreachable first or not at all.
EdgesAlternate ==
    [][\A w \in Watchers : ~watch'[w].threw /\ watch'[w].said # watch[w].said =>
         /\ watch'[w].said = "disconnected" => watch[w].said = "connected"
         /\ watch'[w].said = "unreachable" => watch[w].said = "nothing"]_watchVars

\* While nothing of the caller threw, the wait of an outage is that of the failures
\* counted now, also when outcomes of several chains count them.
WaitTellsFailures ==
    \A w \in Watchers : watch[w].failures > 0 /\ ~watch[w].threw =>
        watch[w].delay \in NextWaits(FALSE, watch[w].failures)

\* In an outage a wait is shorter than the one before it by the jitter of the two
\* at most: the waits grow up to the cap, and there they only tremble.
WaitsGrow ==
    [][\A w \in Watchers :
         0 < watch[w].failures /\ watch[w].failures <= watch'[w].failures /\ ~watch[w].threw =>
           watch[w].delay <= watch'[w].delay + Spread(WatchBackoff(watch[w].failures))
                               + Spread(WatchBackoff(watch'[w].failures))]_watchVars

\* A stopped watcher starts no probe, also from the timers it left behind.
NoProbeAfterStop ==
    [][\A w \in Watchers : watch[w].stopped => watch'[w].probing <= watch[w].probing]_watchVars

\* Every watcher that runs can be reached by close(), and at most one of those
\* started through settings runs: the one rebindWatch() will stop.
RunningReachable ==
    /\ Running \subseteq watchHandles
    /\ \A w \in Running \cap declared : w = declarativeWatch

\* A watcher goes on probing until it is stopped, or a hook or isUp() throws.
KeepsProbing ==
    \A w \in Watchers :
        [](w \in Running => <>(watch[w].probing > 0 \/ watch[w].stopped \/ watch[w].threw))

\* The chains, the flag, the log and the handles of the watchers fit together,
\* step by step, and a watcher that is not stopped goes on.
WatchersConsistent ==
    /\ [](WatchTypeOK /\ ChainsAreCalled /\ LogTellsState /\ WaitTellsFailures /\ RunningReachable)
    /\ EdgesAlternate /\ WaitsGrow /\ NoProbeAfterStop /\ KeepsProbing
=============================================================================
