---------------------------- MODULE MCEchoServer ----------------------------
(* Places for two lines in the channel, for one in the buffer and in the     *)
(* socket, so that all are full before the client has sent its six lines.    *)
(* Two lines, either of which may come last and unended, are too long for    *)
(* the buffer.                                                               *)
EXTENDS EchoServer
=============================================================================
