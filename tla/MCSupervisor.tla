---------------------------- MODULE MCSupervisor ----------------------------
(* An instance of Supervisor for TLC: a kernel, and a second process that    *)
(* may come before or after its end; the scheduler and the I/O reactor.      *)
EXTENDS Supervisor

TwoKernels == {"k1", "k2"}
TwoServices == {"scheduler", "reactor"}
=============================================================================
