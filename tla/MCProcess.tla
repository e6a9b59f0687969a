------------------------------- MODULE MCProcess -------------------------------
(* A small instance of Process for TLC.                                       *)
EXTENDS Process

SmallDefault  == [s \in Settings |-> 1]
SmallFallback == [s \in Settings |-> 1]
SmallNumbers  == {-1, 0, 3}
==============================================================================
