---------------------------- MODULE MCStreaming ----------------------------
(* An instance of Streaming for TLC: two events, noise between them, and   *)
(* something after [DONE].                                                 *)
EXTENDS Streaming
MCScript == <<"event", "noise", "event", "done", "event">>
=============================================================================
