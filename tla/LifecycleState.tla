--------------------------- MODULE LifecycleState ---------------------------
(***************************************************************************)
(* The lifecycle states of essenty-lifecycle and their order               *)
(* (crates/essenty-lifecycle/src/state.rs).                                *)
(***************************************************************************)
EXTENDS Naturals

States == {"Initialized", "Created", "Started", "Resumed", "Destroyed"}

(* LifecycleState::rank, which is also the derived order of the enum. *)
Rank(s) == CASE s = "Initialized" -> 0
             [] s = "Created"     -> 1
             [] s = "Started"     -> 2
             [] s = "Resumed"     -> 3
             [] OTHER             -> 4

(* LifecycleState::from_rank: never Destroyed, every rank above 2 clamps. *)
FromRank(r) == CASE r = 0 -> "Initialized"
                 [] r = 1 -> "Created"
                 [] r = 2 -> "Started"
                 [] OTHER -> "Resumed"

=============================================================================
