------------------------------- MODULE MCMain --------------------------------
(* Names for the channels of Bridge, of two chunks, and of Or, whose five  *)
(* timers and a context make a tree of depth three.                        *)
EXTENDS Main

ChunkNames == <<"inner1", "inner2">>
TimerNames == <<"timer1", "timer2", "timer3", "timer4", "timer5">>
OrNames == <<"or1", "or2", "or3", "or4", "or5">>
=============================================================================
