-------------------------- MODULE MCDaemonProcess --------------------------
EXTENDS DaemonProcess, TLC

Symmetry == Permutations(Daemon) \cup Permutations(Client)
=============================================================================
