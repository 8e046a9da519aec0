-------------------------- MODULE MCExitValidation --------------------------
(* One token, two stores and two users, three requests: with every failure, *)
(* without the driver's repetition, and without failures.                   *)
EXTENDS ExitValidation, TLC

CONSTANTS t1, s1, s2, u1, u2

MCStoreOf == t1 :> s1
MCUserOf == t1 :> u1
MCScenarios == {{}, {"db", "crash"}, {"db", "crash", "reconnect"}}
=============================================================================
