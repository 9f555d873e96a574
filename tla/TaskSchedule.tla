----------------------------- MODULE TaskSchedule -----------------------------
(***************************************************************************)
(* What the project state promises about work that shares files: a task is *)
(* started when those it depends on are done, while no task that works or  *)
(* is held up shares a path or a key with it, and while a place is free.   *)
(* A held task has given up its place but not its files; a done task is    *)
(* never started again.                                                    *)
(***************************************************************************)
EXTENDS Naturals, FiniteSets

CONSTANTS
  Task,          \* the tasks
  Dependencies,  \* those a task waits for
  Conflict,      \* the pairs of tasks that share files
  Limit          \* how many may work at once

VARIABLES
  working,  \* tasks that occupy a place, and their files
  held,     \* tasks that occupy their files only
  done      \* tasks that are completed

scheduleVars == <<working, held, done>>

Init == working = {} /\ held = {} /\ done = {}

Start(t) ==
  /\ t \notin working \cup held \cup done
  /\ Dependencies[t] \subseteq done
  /\ \A u \in working \cup held : <<t, u>> \notin Conflict
  /\ Cardinality(working) < Limit
  /\ working' = working \cup {t}
  /\ UNCHANGED <<held, done>>

Finish(t) ==
  /\ t \in working
  /\ working' = working \ {t}
  /\ done' = done \cup {t}
  /\ UNCHANGED held

\* The work has stopped, what it may have left behind is not yet recovered.
Hold(t) ==
  /\ t \in working
  /\ working' = working \ {t}
  /\ held' = held \cup {t}
  /\ UNCHANGED done

Release(S) ==
  /\ S # {}
  /\ S \subseteq working \cup held
  /\ working' = working \ S
  /\ held' = held \ S
  /\ UNCHANGED done

Next ==
  \/ \E t \in Task : Start(t) \/ Finish(t) \/ Hold(t)
  \/ \E S \in SUBSET Task : Release(S)

Spec == Init /\ [][Next]_scheduleVars
===============================================================================
