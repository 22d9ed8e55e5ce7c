----------------------------- MODULE MCTaskStore -----------------------------
(* Instances of TaskStore for TLC.                                         *)
EXTENDS TaskStore

\* A chain a <- b <- c in one goal, declared in order, and a second goal whose
\* two tasks wait for each other: the store must refuse it.
ChainTasks == {"a", "b", "c", "p", "q"}
ChainGoals == {"g", "cyclic"}
ChainGoalOf == [t \in ChainTasks |-> IF t \in {"p", "q"} THEN "cyclic" ELSE "g"]
ChainDependsOn == [t \in ChainTasks |->
  CASE t = "a" -> {} [] t = "b" -> {"a"} [] t = "c" -> {"b"}
    [] t = "p" -> {"q"} [] t = "q" -> {"p"}]
ChainRow == [t \in ChainTasks |->
  CASE t = "a" -> 1 [] t = "b" -> 2 [] t = "c" -> 3 [] OTHER -> 4]
ChainMaxAttempts == [t \in ChainTasks |-> IF t = "a" THEN 2 ELSE 1]
ChainEvents == {"e"}
ChainKeyOf == [e \in ChainEvents |-> "k"]
ChainAudience == [e \in ChainEvents |-> {"g"}]
=============================================================================
