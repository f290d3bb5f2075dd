-------------------------- MODULE MCServerRequest --------------------------
(* Both servers, files of up to three bytes and every range around them.     *)
EXTENDS ServerRequest
=============================================================================
