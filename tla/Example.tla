------------------------------ MODULE Example -------------------------------
(***************************************************************************)
(* What the models of the small programs of examples/ have in common: one  *)
(* of them runs, for good, until its process stops.                        *)
(***************************************************************************)
CONSTANTS
  Programs,  \* which of the programs may be the one
  Faults     \* what may go wrong around it, see the modules

VARIABLES
  program,  \* the directory of examples/, without its number
  proc      \* "running", or how the process stopped

Running == proc = "running"
Runs(p) == program = p /\ Running
=============================================================================
