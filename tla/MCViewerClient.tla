---------------------------- MODULE MCViewerClient ----------------------------
(* None, before the first status, is no count of the recorder.               *)
EXTENDS ViewerClient
Unknown == -1
=============================================================================
