------------------------------ MODULE MCDialogue ------------------------------
(***************************************************************************)
(* Instances of Dialogue for TLC.  The client asks with one word.  The     *)
(* model may stop after any piece of an answer, and what it says in prose  *)
(* looks like the tool loop.                                               *)
(***************************************************************************)
EXTENDS Dialogue

Clock == {0, 1}

\* It calls its tool, maybe after some prose.
SomeAnswers == {<<Marker, Envelope>>, <<Envelope>>}

\* It may also go on after the call.
OverrunAnswers == {<<Marker, Envelope>>, <<Envelope, Marker>>}
=============================================================================
