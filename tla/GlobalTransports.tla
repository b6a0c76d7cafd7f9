--------------------------- MODULE GlobalTransports ---------------------------
(***************************************************************************)
(* The transports registered for every logger of the process: the list and *)
(* the map of level wrappers in src/core/pipeline.core.ts, and the static  *)
(* methods of src/api/logger.api.ts that change them.  An entry is handed  *)
(* to a snapshot of the list, one transport after the other; a transport   *)
(* may change the list from its write().                                   *)
(***************************************************************************)
EXTENDS Naturals, FiniteSets, Sequences, SequencesExt, Lists

CONSTANTS Transports,
          MaxRegistered, MaxChanges, MaxDispatched   \* bounds of the model

\* What is registered: a transport or, with a level, a wrapper made for it.
Bare(t) == [inner |-> t, wrapper |-> 0, min |-> 0]
Levels == {1, 2}

VARIABLES globalTransports,   \* sequence of what is registered
          leveledWrappers,    \* transport -> its wrapper, or Bare when it has none
          wrappers,           \* history: wrappers made
          changes, removed,   \* history: calls, and what the last one removes
          dispatching,        \* the entry under way; see NoEntry
          dispatched,         \* history: entries dispatched
          irregular           \* history: transports added twice, or cleared with a level

globalVars == <<globalTransports, leveledWrappers, wrappers, changes, removed, dispatching,
                dispatched, irregular>>

NoEntry == [level |-> 0, left |-> <<>>, due |-> <<>>, got |-> <<>>]

GlobalInit == /\ globalTransports = <<>>
              /\ leveledWrappers = [t \in Transports |-> Bare(t)]
              /\ wrappers = 0 /\ changes = 0 /\ removed = {} /\ dispatching = NoEntry /\ dispatched = 0
              /\ irregular = {}

Registered(t) == Among(globalTransports, {r \in ToSet(globalTransports) : r.inner = t})
Changes(ts) == changes < MaxChanges /\ changes' = changes + 1 /\ removed' = ts
Twice(t) == IF Registered(t) = <<>> THEN {} ELSE {t}

\* addTransport(t)
AddTransport(t) ==
    /\ Changes({}) /\ Len(globalTransports) < MaxRegistered
    /\ globalTransports' = Append(globalTransports, Bare(t))
    /\ irregular' = irregular \cup Twice(t)
    /\ UNCHANGED <<leveledWrappers, wrappers, dispatching, dispatched>>

\* addTransport(t, { level })
AddLeveled(t, min) ==
    /\ Changes({}) /\ Len(globalTransports) < MaxRegistered
    /\ LET leveled == [inner |-> t, wrapper |-> wrappers + 1, min |-> min]
       IN  /\ leveledWrappers' = [leveledWrappers EXCEPT ![t] = leveled]
           /\ globalTransports' = Append(globalTransports, leveled)
    /\ wrappers' = wrappers + 1
    /\ irregular' = irregular \cup Twice(t)
    /\ UNCHANGED <<dispatching, dispatched>>

\* splice(): the first occurrence, if there is one.
Spliced(list, r) == IF r \in ToSet(list) THEN RemoveFirst(list, r) ELSE list

\* removeTransport(t): its wrapper when the map has one, else t itself.
RemoveTransport(t) ==
    /\ Changes({t})
    /\ globalTransports' = Spliced(globalTransports, leveledWrappers[t])
    /\ leveledWrappers' = [leveledWrappers EXCEPT ![t] = Bare(t)]
    /\ UNCHANGED <<wrappers, dispatching, dispatched, irregular>>

\* clearTransports(): the map of wrappers is left as it is.
ClearTransports ==
    /\ Changes(Transports)
    /\ globalTransports' = <<>>
    /\ irregular' = irregular \cup {t \in Transports : leveledWrappers[t] # Bare(t)}
    /\ UNCHANGED <<leveledWrappers, wrappers, dispatching, dispatched>>

\* deliver() to the global transports: a snapshot of the list is taken.
StartDispatch(level) ==
    /\ dispatching.left = <<>> /\ dispatched < MaxDispatched /\ dispatched' = dispatched + 1
    /\ dispatching' = [level |-> level, left |-> globalTransports, due |-> globalTransports,
                       got |-> <<>>]
    /\ UNCHANGED <<globalTransports, leveledWrappers, wrappers, changes, removed, irregular>>

\* Mutant of DispatchNext: what was unregistered meanwhile is passed over.
DispatchLive ==
    /\ dispatching.left # <<>>
    /\ LET r == Head(dispatching.left)
       IN  dispatching' = [dispatching EXCEPT !.left = Tail(@),
             !.got = IF dispatching.level >= r.min /\ r \in ToSet(globalTransports)
                       THEN Append(@, r) ELSE @]
    /\ UNCHANGED <<globalTransports, leveledWrappers, wrappers, changes, removed, dispatched,
                   irregular>>

\* dispatchToTransport(): a transport whose write() throws or rejects does not
\* keep the entry from the next one; a wrapper passes what its level lets by.
DispatchNext ==
    /\ dispatching.left # <<>>
    /\ LET r == Head(dispatching.left)
       IN  dispatching' = [dispatching EXCEPT !.left = Tail(@),
             !.got = IF dispatching.level >= r.min THEN Append(@, r) ELSE @]
    /\ UNCHANGED <<globalTransports, leveledWrappers, wrappers, changes, removed, dispatched,
                   irregular>>

GlobalNext ==
    \/ \E t \in Transports : AddTransport(t) \/ RemoveTransport(t)
                               \/ \E min \in Levels : AddLeveled(t, min)
    \/ ClearTransports
    \/ \E level \in Levels : StartDispatch(level)
    \/ DispatchNext

GlobalSpec == GlobalInit /\ [][GlobalNext]_globalVars

-----------------------------------------------------------------------------
(* Properties.                                                             *)

\* Each registration with a level has a wrapper of its own, and the map holds
\* wrappers of the transport they are filed under.
GlobalTypeOK ==
    /\ \A i, j \in DOMAIN globalTransports :
         i # j /\ globalTransports[i].wrapper # 0
           => globalTransports[i].wrapper \in 1 .. wrappers \ {globalTransports[j].wrapper}
    /\ \A t \in Transports : leveledWrappers[t].inner = t

\* An entry reaches everything that was registered when it was logged and whose
\* level it has, in that order and once, whatever the transports register or
\* remove meanwhile.
SnapshotReached ==
    dispatching.left = <<>> =>
        dispatching.got = Among(dispatching.due, {r \in ToSet(dispatching.due) : dispatching.level >= r.min})

\* A removed transport is registered no more, added again as it may be later,
\* unless it was added twice or was cleared while it had a level.
RemoveRemoves ==
    [][changes' # changes =>
         \A t \in removed' \ irregular : Registered(t)' = <<>>]_globalVars

\* removeTransport() takes at most one registration, and of its own transport
\* (with a single transport it may stand for clearTransports()).
OthersStay ==
    [][changes' # changes =>
         /\ \A t \in Transports \ removed' :
              Registered(t)' = Registered(t) \/ Front(Registered(t)') = Registered(t)
         /\ removed' # Transports => Len(globalTransports') >= Len(globalTransports) - 1]_globalVars

\* The list and the map of wrappers change and are read as the calls ask for.
RegistryConsistent ==
    [](GlobalTypeOK /\ SnapshotReached) /\ RemoveRemoves /\ OthersStay
=============================================================================
