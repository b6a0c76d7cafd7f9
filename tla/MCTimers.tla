------------------------------ MODULE MCTimers ------------------------------
(***************************************************************************)
(* Two machines that go on by timers and microtasks of their own and share *)
(* no state, checked in one run: the batching transport and the watchers.  *)
(* focus picks one of them, and the other stays as it begins.              *)
(***************************************************************************)
EXTENDS AsyncTransport, Watch

VARIABLE focus

mcVars == <<vars, watchVars, focus>>

MCInit == focus \in {"batching", "watch"} /\ Init /\ WatchInit

MCNext == \/ focus = "batching" /\ Next /\ UNCHANGED <<watchVars, focus>>
          \/ focus = "watch" /\ WatchNext /\ UNCHANGED <<vars, focus>>

\* A machine at rest has no timer and no continuation under way.
MCSpec == MCInit /\ [][MCNext]_mcVars /\ Fairness /\ WatchFairness
=============================================================================
