------------------------------ MODULE MCPanel ------------------------------
(* The parts of the two HTTP servers that keep state, each in behaviours of  *)
(* its own: `part` says whose turn a behaviour is; the others stand still.   *)
EXTENDS ShareTokens, ApiTokens, SessionFiles, Routes

VARIABLE part

vars == <<part, shareVars, apiVars, fileVars, routeVars>>

MCInit ==
  /\ part \in {"links", "tokens", "drives", "routes"}
  /\ ShareInit /\ ApiInit /\ FilesInit /\ RouteInit
  /\ part # "tokens" => who = CHOOSE n \in Names : TRUE
  /\ part # "routes" => req = (CHOOSE r \in Request : TRUE) /\ runtime = "up"

MCRoute == part = "routes" /\ RouteStep /\ UNCHANGED <<part, shareVars, apiVars, fileVars>>

MCNext ==
  \/ part = "links" /\ ShareNext /\ UNCHANGED <<part, apiVars, fileVars, routeVars>>
  \/ part = "tokens" /\ ApiNext /\ UNCHANGED <<part, shareVars, fileVars, routeVars>>
  \/ part = "drives" /\ FilesNext /\ UNCHANGED <<part, shareVars, apiVars, routeVars>>
  \/ part = "routes" /\ RouteNext /\ UNCHANGED <<part, shareVars, apiVars, fileVars>>

\* The panel's threads run, and its deadlines pass.
MCSpec == MCInit /\ [][MCNext]_vars /\ WF_vars(MCRoute)
=============================================================================
