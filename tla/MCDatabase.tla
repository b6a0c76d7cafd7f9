----------------------------- MODULE MCDatabase -----------------------------
(***************************************************************************)
(* The database transport with a factory and the one without, in one run:  *)
(* healing says which of the two this behaviour is about.                  *)
(***************************************************************************)
EXTENDS DatabaseTransport

Plain == INSTANCE DatabaseTransport WITH HasFactory <- FALSE

VARIABLE healing   \* settings.createAdapter is given

mcVars == <<vars, healing>>

MCInit == Init /\ healing \in BOOLEAN

MCNext == \/ healing /\ Next /\ UNCHANGED healing
          \/ ~healing /\ Plain!Next /\ UNCHANGED healing

MCSpec == /\ MCInit /\ [][MCNext]_mcVars
          /\ healing => Fairness
          /\ ~healing => Plain!Fairness
=============================================================================
