-------------------------- MODULE MCDemoScheduler ---------------------------
(***************************************************************************)
(* DemoScheduler for TLC.  Nothing tells the instances apart: neither the  *)
(* initial states, nor an action, nor a property names one of them, so     *)
(* their permutations are a sound symmetry for the safety properties.      *)
(***************************************************************************)
EXTENDS DemoScheduler, TLC

InstanceSymmetry == Permutations(Instances)
=============================================================================
