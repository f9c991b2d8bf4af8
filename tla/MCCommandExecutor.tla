------------------------- MODULE MCCommandExecutor -------------------------
(* A small instance of CommandExecutor: one lane on which a mind publishes  *)
(* three commands in order.  Lanes share nothing but the process, so one    *)
(* lane and a crash of the process show what several would.                 *)
EXTENDS CommandExecutor, TLC

CONSTANTS v1, c1, c2, c3, escape

OneLaneTopic == v1 :> <<c1, c2, c3>>
OneLaneOwner == c1 :> v1 @@ c2 :> v1 @@ c3 :> v1
=============================================================================
