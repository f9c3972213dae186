---------------------- MODULE MCRemediationCoordinator ----------------------
(* Small instances of the coordinator; the cfg files choose how many calls,
   plans and steps there are and which faults may happen. *)
EXTENDS RemediationCoordinator, TLC

CONSTANTS p1, p2, a1, a2, e1, e2, e3, r1, r2, t1, t2, t3, lamp

OnePlan == {p1}
TwoPlans == {p1, p2}

MCTargets == {lamp}
MCTargetOf == [p \in Plans |-> lamp]
OneStep == [p \in Plans |-> 1]
TwoSteps == [p \in Plans |-> 2]
AllReversible == [p \in Plans |-> Steps(p)]
NeverExpires == [p \in Plans |-> MaxClock + 1]

OneApproval == {a1}
TwoApprovals == {a1, a2}
OneExecution == {e1}
TwoExecutions == {e1, e2}
NoRollbacks == {}
OneRollback == {r1}
TwoRollbacks == {r1, r2}
TwoTokens == {t1, t2}

AllResults == {"ok", "fail", "raise"}
OnlyOk == {"ok"}
OkOrFail == {"ok", "fail"}

=============================================================================
