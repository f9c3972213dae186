--------------------------- MODULE MCRepairLifecycle ---------------------------
(* One repair of two files; a restart's recovery may overlap what is done with
   the repair after it. *)
EXTENDS RepairLifecycle

CONSTANTS f1, f2, r1

TwoFiles == {f1, f2}
OneRepair == {r1}

=============================================================================
