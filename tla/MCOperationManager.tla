------------------------- MODULE MCOperationManager -------------------------
(* Instances of OperationManager for TLC.                                  *)
EXTENDS OperationManager

\* The two kinds whose repetition does harm, one of them with a handler to ask.
RiskyOperations == {"mail", "order"}
RiskyMode == [o \in RiskyOperations |-> IF o = "mail" THEN "non-idempotent" ELSE "reconcilable"]
=============================================================================
