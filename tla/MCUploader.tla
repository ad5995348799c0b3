----------------------------- MODULE MCUploader -----------------------------
(* Values for the instances of Uploader that TLC checks. *)
EXTENDS Uploader
=============================================================================
