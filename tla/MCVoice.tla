-------------------------------- MODULE MCVoice --------------------------------
(* Voice.cfg: a queue of two frames and one that waits for the loop, sessions  *)
(* of two turns, one tool call per turn and responses that ask for one or two. *)
(* VoiceTimeout.cfg and VoiceClose.cfg: the smallest instance.                 *)
EXTENDS Voice
=============================================================================
