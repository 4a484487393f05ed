---------------------------- MODULE MCSessionFile ----------------------------
(* One session with its file, and what requests are made of it.            *)
EXTENDS FilePersister, Context
=============================================================================
