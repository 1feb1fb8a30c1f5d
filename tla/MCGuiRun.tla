------------------------------- MODULE MCGuiRun -------------------------------
(* Two runs of the GUI for TLC; the window may be left too low to be kept. *)
EXTENDS GuiRun

MCDefault == [theme |-> "dark", width |-> 960, height |-> 640]
TooLow == [theme |-> "light", width |-> 320, height |-> 239]
MCSettings == {MCDefault, TooLow}
=============================================================================
