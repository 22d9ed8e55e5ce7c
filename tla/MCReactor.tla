------------------------------ MODULE MCReactor ------------------------------
(* An instance of Reactor for TLC: one monitor that submits goals, a message *)
(* and one whose key is refused, one delivery, a schedule of either kind.    *)
EXTENDS Reactor

OneMonitor == {"inbox"}
TwoMessages == {"mail", "longkey"}
TheRefused == {"longkey"}
OneDelivery == {"answer"}
TwoSchedules == {"daily", "once"}
TheRecurring == {"daily"}
=============================================================================
