----------------------------- MODULE DatagramMC -----------------------------
(***************************************************************************)
(* The datagram client with two application threads, a worker whose        *)
(* callbacks call the client, and two authentication settings.             *)
(***************************************************************************)
EXTENDS DatagramClient
=============================================================================
