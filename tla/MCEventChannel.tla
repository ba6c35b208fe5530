--------------------------- MODULE MCEventChannel ---------------------------
(* Model-checking instance of EventChannel: two callers on a phi channel,    *)
(* with and without the cache (Init chooses).                                *)
EXTENDS EventChannel
=============================================================================
