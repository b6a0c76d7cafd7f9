------------------------------ MODULE MCWriters ------------------------------
(***************************************************************************)
(* Two writers of the stack that share no state, checked in one run: the   *)
(* file transport at the bottom, and adaptive over repeat suppression near *)
(* the top.  focus picks one of them, and the other stays as it begins.    *)
(***************************************************************************)
EXTENDS FileTransport, AdaptiveTransport

VARIABLE focus

mcVars == <<vars, adaptiveVars, focus>>

MCInit == focus \in {"file", "grouping"} /\ Init /\ AdaptiveInit

MCNext == \/ focus = "file" /\ Next /\ UNCHANGED <<adaptiveVars, focus>>
          \/ focus = "grouping" /\ AdaptiveNext /\ UNCHANGED <<vars, focus>>

\* A machine at rest has nothing under way but the interval of the file transport.
MCSpec == /\ MCInit /\ [][MCNext]_mcVars
          /\ WorkGoesOn /\ WF_vars(focus = "file" /\ IntervalTick)
          /\ AdaptiveFairness
=============================================================================
