------------------------------ MODULE MCDeploy -------------------------------
(* Constants of the bounded instances of DeployEngine.  Goroutines, hosts   *)
(* and tasks are interchangeable wherever no constant singles one out.      *)
EXTENDS DeployEngine, TLC
Symmetry == Permutations(Runs) \cup Permutations(Clients) \cup Permutations(Procs)
FullSymmetry == Permutations(Runs) \cup Permutations(Hosts) \cup Permutations(Tasks)
=============================================================================
