---------------------------- MODULE MCHostSupervisor ----------------------------
\* Instances of HostSupervisor: the sets of operator commands the runs use.  A soft
\* recovery that finds no Sunshine goes the way of RestartRuntime.
EXTENDS HostSupervisor

RepairOps == {"StopBundle", "Shutdown", "SoftRecover", "FailureRuntime"}
=============================================================================
