---------------------------- MODULE MCSmsUpload ----------------------------
(***************************************************************************)
(* Instances of SmsUpload for TLC.                                         *)
(***************************************************************************)
EXTENDS SmsUpload
=============================================================================
