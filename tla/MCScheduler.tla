---------------------------- MODULE MCScheduler ----------------------------
(* Instances of Scheduler for TLC.                                         *)
EXTENDS Scheduler

Do(op) == [op |-> op, key |-> NoKey, timed |-> FALSE, event |-> NoEvent, may |-> {},
           child |-> NoGoal]
Call(may) == [Do("call") EXCEPT !.may = may]
CallFor(k, may) == [Call(may) EXCEPT !.key = k]
Await(k, timed) == [Do("await") EXCEPT !.key = k, !.timed = timed]
Emit(e) == [Do("emit") EXCEPT !.event = e]

\* Two goals of one task each.  The task of the first emits what the second
\* waits for; each may be told of the other's end.
PairTasks == {"a", "b"}
PairGoals == {"ga", "gb"}
PairGoalOf == [t \in PairTasks |-> IF t = "a" THEN "ga" ELSE "gb"]
PairDependsOn == [t \in PairTasks |-> {}]
PairRow == [t \in PairTasks |-> 1]
PairMaxAttempts == [t \in PairTasks |-> IF t = "a" THEN 2 ELSE 1]
PairEvents == {"msg", "ext", "endA", "endB"}
PairKeys == {"k", "kA", "kB"}
PairKeyOf == [e \in PairEvents |->
  CASE e \in {"msg", "ext"} -> "k" [] e = "endA" -> "kA" [] e = "endB" -> "kB"]
PairAudience == [e \in PairEvents |-> PairGoals]
PairDone == [g \in PairGoals |-> IF g = "ga" THEN "endA" ELSE "endB"]
PairClash == {<<"a", "b">>, <<"b", "a">>}

TalkWorkflow == [t \in PairTasks |->
  IF t = "a" THEN <<Emit("msg"), Call({"value", "plain"})>>
  ELSE <<Await("k", FALSE), CallFor("k", {"value", "event"}), Do("complete")>>]

\* A single task with both kinds of step that take an event; the call is first,
\* so that it can be interrupted with the event in its hands.
OneTask == {"a"}
OneGoal == {"ga"}
OneGoalOf == [t \in OneTask |-> "ga"]
OneDependsOn == [t \in OneTask |-> {}]
OneRow == [t \in OneTask |-> 1]
OneMaxAttempts == [t \in OneTask |-> 2]
OneEvents == {"ext", "end"}
OneKeys == {"k", "kEnd"}
OneKeyOf == [e \in OneEvents |-> IF e = "ext" THEN "k" ELSE "kEnd"]
OneAudience == [e \in OneEvents |-> OneGoal]
OneDone == [g \in OneGoal |-> "end"]
OneWorkflow == [t \in OneTask |->
  <<CallFor("k", {"value", "timer", "event", "plain"}), Await("k", TRUE)>>]

\* The longest turn and then a call: with the default of four steps a turn,
\* the first turn of a ends by yielding.
LongWorkflow == [t \in PairTasks |->
  IF t = "a" THEN <<Emit("msg"), Do("local"), Do("local"), Do("local"), Call({"value"})>>
  ELSE <<Call({"value"})>>]

\* Two dependent tasks of one goal, and a goal that waits for its end the way
\* an agent turn waits for a child goal: with a call that suspends.
FanTasks == {"a", "b", "p"}
FanGoals == {"child", "parent"}
FanGoalOf == [t \in FanTasks |-> IF t = "p" THEN "parent" ELSE "child"]
FanDependsOn == [t \in FanTasks |-> IF t = "b" THEN {"a"} ELSE {}]
FanRow == [t \in FanTasks |-> IF t = "b" THEN 2 ELSE 1]
FanMaxAttempts == [t \in FanTasks |-> IF t = "a" THEN 2 ELSE 1]
FanEvents == {"endC", "endP"}
FanKeys == {"kC", "kP"}
FanKeyOf == [e \in FanEvents |-> IF e = "endC" THEN "kC" ELSE "kP"]
FanAudience == [e \in FanEvents |-> FanGoals]
FanDone == [g \in FanGoals |-> IF g = "child" THEN "endC" ELSE "endP"]
FanWorkflow == [t \in FanTasks |->
  CASE t = "a" -> <<Call({"value", "plain", "denied"})>>
    [] t = "b" -> <<Do("local"), Do("delay")>>
    [] t = "p" -> <<[CallFor("kC", {"event", "value"}) EXCEPT !.child = "child"]>>]
=============================================================================
