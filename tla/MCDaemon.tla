------------------------------- MODULE MCDaemon -------------------------------
\* Instance of the daemon with its state file and its clients.
EXTENDS Daemon
===============================================================================
