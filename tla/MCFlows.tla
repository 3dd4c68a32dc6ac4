------------------------------- MODULE MCFlows -------------------------------
(* Names for the channels of Bridge and Or, which the run does not choose.  *)
EXTENDS Flows

ChunkNames == <<"inner1">>
TimerNames == <<"timer1">>
OrNames == <<"or1">>
=============================================================================
