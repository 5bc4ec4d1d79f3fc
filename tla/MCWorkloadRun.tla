--------------------------- MODULE MCWorkloadRun ---------------------------
EXTENDS WorkloadRun

MCWorkloads == {[settle |-> 3, rec |-> FALSE], [settle |-> 4, rec |-> TRUE]}
MCBase == [settle |-> 3, rec |-> FALSE]
MCSteps == <<0, 1, 1>>
=============================================================================
