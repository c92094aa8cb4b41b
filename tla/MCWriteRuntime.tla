--------------------------- MODULE MCWriteRuntime ---------------------------
(* Small instances of WriteRuntime.                                        *)
EXTENDS WriteRuntime

CONSTANTS c1

MCCallers == {c1}
AllFaults == {"error", "afterCommit"}
ErrorFault == {"error"}

=============================================================================
