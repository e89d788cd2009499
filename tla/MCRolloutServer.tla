-------------------------- MODULE MCRolloutServer --------------------------
(* A request with a timeout, one without, and one for a runner that does    *)
(* not exist; the configurations give the server one slot or two.           *)
EXTENDS RolloutServer

CONSTANTS timed, endless, unknown

MixedRequests == {timed, endless, unknown}
MixedTimed == {timed, unknown}
MixedKnown == {timed, endless}
=============================================================================
