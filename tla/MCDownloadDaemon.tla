-------------------------- MODULE MCDownloadDaemon --------------------------
(* Small instances of DownloadDaemon: the bounds are in the cfg files.     *)
EXTENDS DownloadDaemon

CONSTANTS t1

\* A download and a play of one torrent, by magnet and by file, and a stream.
MCCommits == {Enqueue(t1, "magnet", TRUE), Enqueue(t1, "file", FALSE), Stream(t1, "magnet", FALSE)}
=============================================================================
