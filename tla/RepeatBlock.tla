----------------------------- MODULE RepeatBlock ----------------------------
(***************************************************************************)
(* What repeat_on_lifecycle promises about the block it repeats: it runs   *)
(* at most once at a time, a block that was told to leave has left before  *)
(* the next one is entered, and once the repetition has ended none is      *)
(* entered any more and none stays that was not told to leave.             *)
(***************************************************************************)
VARIABLES
  block,  \* "out", "in", or "leaving" once it was told to
  ended

Enter == /\ ~ ended /\ block = "out"
         /\ block' = "in" /\ UNCHANGED ended
Tell  == /\ block = "in"
         /\ block' = "leaving" /\ UNCHANGED ended
Left  == /\ block \in {"in", "leaving"}
         /\ block' = "out" /\ UNCHANGED ended
End   == /\ ~ ended /\ ended' = TRUE
         /\ \/ block = "in" /\ block' = "leaving"
            \/ block # "in" /\ UNCHANGED block

Init == block = "out" /\ ended = FALSE
Next == Enter \/ Tell \/ Left \/ End
Spec == Init /\ [][Next]_<<block, ended>>

=============================================================================
