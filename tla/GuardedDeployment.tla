-------------------------- MODULE GuardedDeployment -------------------------
(***************************************************************************)
(* What an evaluation run promises: starting from the default parameters   *)
(* it puts at most one other set in force, one that the guardrail accepts  *)
(* against the defaults, and it reports what is in force.  How the set was *)
(* found does not show.                                                    *)
(***************************************************************************)
CONSTANTS
  Settings,          \* the networks a run may be about
  Sets,              \* what may be in force
  Default,           \* what every run starts with
  Unreported,
  Safe(_, _),        \* may a set replace the defaults in a setting
  Seen(_)            \* what a report shows of a set

VARIABLES setting, inForce, reported

deployment == <<setting, inForce, reported>>

DeploymentInit ==
  /\ setting \in Settings
  /\ inForce = Default
  /\ reported = Unreported

Deploy ==
  /\ reported = Unreported
  /\ inForce = Default
  /\ inForce' \in {p \in Sets : Safe(setting, p)}
  /\ UNCHANGED <<setting, reported>>

Report ==
  /\ reported = Unreported
  /\ reported' = Seen(inForce)
  /\ UNCHANGED <<setting, inForce>>

NextRun ==
  /\ reported # Unreported
  /\ setting' \in Settings
  /\ inForce' = Default
  /\ reported' = Unreported

DeploymentNext == Deploy \/ Report \/ NextRun

DeploymentSpec == DeploymentInit /\ [][DeploymentNext]_deployment
=============================================================================
