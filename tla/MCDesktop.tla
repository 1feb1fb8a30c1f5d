------------------------------ MODULE MCDesktop ------------------------------
(* An instance of Desktop for TLC: three windows that take turns on two     *)
(* handles, an application's, one of a mute thread of the preview itself,   *)
(* and one of another desktop.                                              *)
EXTENDS Desktop

WindowKinds == [w \in Windows |-> CASE w = 1 -> "app" [] w = 2 -> "mute"
                                    [] w = 3 -> "elsewhere"]
=============================================================================
