--------------------------- MODULE MCLocalRunner ---------------------------
(* Three requests on two slots: enough for a request to wait while another  *)
(* is polled, and for one to be aborted while the other goes on.            *)
EXTENDS LocalRunner

CONSTANTS first, second, third

MCBatch == <<first, second, third>>
SomeTimed == {first, second}
=============================================================================
