--------------------------- MODULE MCSafeExecution ---------------------------
(***************************************************************************)
(* Instances of SafeExecution for TLC.                                     *)
(***************************************************************************)
EXTENDS SafeExecutionContract, SafeExecutionInvariants, SafeExecutionClaims, WorkflowEvents, TLC

CONSTANTS r1, r2

OneExecution == {1}
TwoExecutions == {1, 2}
OneRequest == {r1}
TwoRequests == {r1, r2}

NoQuarantine == {}
FirstQuarantined == {<<1, 1>>}
NoneStale == {}
FirstStale == {<<1, 1>>}
LastStale == {<<1, 2>>}

ExecuteOnly == {"execute"}
PublicOperations == {"execute", "undo"}
WithoutRetry == PublicOperations \cup {"compensate"}
AllOperations == WithoutRetry \cup {"retry"}

NoDisturbances == {}
DirectoryOnly == {"rmdir"}
ScanOnly == {"scan"}
Failures == {"lock", "commit"}
UserFiles == {"create", "edit", "delete"} \cup Failures
FileDisturbances == UserFiles \cup {"rmdir"}
AllDisturbances == FileDisturbances \cup {"policy", "scan", "statement"}

RequestSymmetry == Permutations(Request)
=============================================================================
