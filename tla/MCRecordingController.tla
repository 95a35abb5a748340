----------------------- MODULE MCRecordingController -----------------------
(* Bounded instances of RecordingController: the sessions of its runs.     *)
EXTENDS RecordingController

Anything == Gestures \cup Requests

Threes == {[may |-> Anything, left |-> 3]}
Fours  == {[may |-> Anything, left |-> 4]}

\* Long enough for two whole takes of the composer and a late stop.
ComposerSix ==
  {[may |-> {"ComposerStart", "ExternalStop", "ComposerStop"}, left |-> 6]}

FairSessions == Threes \cup ComposerSix
=============================================================================
