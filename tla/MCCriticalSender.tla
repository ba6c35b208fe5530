-------------------------- MODULE MCCriticalSender --------------------------
(* Model-checking instance of CriticalSender alone, on a PUB socket.         *)
EXTENDS CriticalSender
=============================================================================
