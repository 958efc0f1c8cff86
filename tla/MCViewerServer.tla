--------------------------- MODULE MCViewerServer ---------------------------
(* A small instance of ViewerServer: see viewer_server.cfg.                 *)
EXTENDS ViewerServer
=============================================================================
