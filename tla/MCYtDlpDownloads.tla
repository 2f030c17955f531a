-------------------------- MODULE MCYtDlpDownloads --------------------------
(* Small instance of YtDlpDownloads: the bounds are in the cfg files.      *)
EXTENDS YtDlpDownloads
=============================================================================
