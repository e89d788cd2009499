--------------------------- MODULE MCTrialRunner ---------------------------
(***************************************************************************)
(* SWE trials on each kind of environment, alone, and two terminal trials   *)
(* together, one of which refreshes the clone and asks for a revision.      *)
(***************************************************************************)
EXTENDS TrialRunner

MCTrials == {"onEnroot", "onDocker", "onModal", "plain", "pinned", "installed"}
MCMaxAttempts == [t \in MCTrials |-> IF t = "onEnroot" THEN 2 ELSE 1]
MCAttempts == UNION {{<<t, n>> : n \in 1 .. MCMaxAttempts[t]} : t \in MCTrials}
MCEnv == [o \in MCAttempts |->
    CASE o[1] = "onEnroot" -> "enroot" [] o[1] = "onModal" -> "modal" [] OTHER -> "docker"]
MCKind == [t \in MCTrials |->
    CASE t \in {"plain", "pinned"} -> "terminal" [] t = "installed" -> "installed" [] OTHER -> "swe"]
MCRevision == [t \in MCTrials |-> IF t = "pinned" THEN "v2" ELSE "none"]
MCRefresh == {"pinned"}
MCMortal == {"onEnroot", "onDocker", "onModal", "installed", "pinned"}
MCBatches == {{"onEnroot"}, {"onDocker"}, {"onModal"}, {"installed"}, {"plain", "pinned"}}
=============================================================================
