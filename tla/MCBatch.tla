------------------------------ MODULE MCBatch ------------------------------
(***************************************************************************)
(* The instance of FtpRelay that is model-checked: two process ids, which  *)
(* are interchangeable, and two records, so that both come round again;    *)
(* each program once leaves its file where it is and once takes it away.   *)
(***************************************************************************)
EXTENDS FtpRelay, TLC

MCSetups == {Get :> 1 @@ Put :> 2, Get :> 3 @@ Put :> 1}
PidSymmetry == Permutations(Pids)
=============================================================================
