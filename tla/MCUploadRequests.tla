-------------------------- MODULE MCUploadRequests --------------------------
(* Instance of UploadRequests for TLC. *)
EXTENDS UploadRequests
=============================================================================
