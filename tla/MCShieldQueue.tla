----------------------------- MODULE MCShieldQueue -----------------------------
(* ShieldQueue for TLC. *)
EXTENDS ShieldQueue

AllSteps == Step
InsertStep == {"insert"}
================================================================================
