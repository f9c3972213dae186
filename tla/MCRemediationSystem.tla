-------------------------- MODULE MCRemediationSystem --------------------------
(* One plan under review while it is executed; the cfg files choose how many
   requests and executions there are. *)
EXTENDS RemediationSystem, TLC

CONSTANTS p1, a1, a2, e1, r1, t1, t2, c1, c2, c3, lamp

MCPlans == {p1}
MCTargets == {lamp}
MCTargetOf == [p \in Plans |-> lamp]
MCStepCount == [p \in Plans |-> 1]
MCReversible == [p \in Plans |-> {1}]
MCPlanExpiry == [p \in Plans |-> 2]
MCUndoExpiry == [p \in Plans |-> 1]
MCApprovals == {a1, a2}
TwoTokens == {t1, t2}
MCApprovalOf == [x \in Plans \X Tokens |-> IF x[2] = t1 THEN a1 ELSE a2]
None == {}
OneExecution == {e1}
OneRollback == {r1}
TwoClients == {c1, c2}
OnlyOk == {"ok"}
AnyOrder == Permutations(Clients)

=============================================================================
