---------------------------- MODULE MCAndroidBack ---------------------------
(***************************************************************************)
(* AndroidBack with the bounds of the constants for a patient host, whose  *)
(* calls are the fewer interleavings; for any other, with one gesture and  *)
(* one unregister call that Android rejects or one install that fails.     *)
(***************************************************************************)
EXTENDS AndroidBack

Rejected1 == INSTANCE AndroidBack WITH
  MaxGestures <- 1, MaxRejections <- 1, MaxFailures <- 0

Failed1 == INSTANCE AndroidBack WITH
  MaxGestures <- 1, MaxRejections <- 0, MaxFailures <- 1

MCInit ==
  \/ Init /\ patient
  \/ (Rejected1!Init \/ Failed1!Init) /\ ~ patient

MCSpec == MCInit /\ [][Next]_vars /\ Fairness

=============================================================================
