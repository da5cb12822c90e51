------------------------------ MODULE TaskLife ------------------------------
(***************************************************************************)
(* What an executor tells Mesos about its one task, and when. TASK_RUNNING *)
(* comes first after TASK_STARTING, once the start has succeeded, and may  *)
(* be repeated until the task is killed; TASK_KILLED is said once, by an   *)
(* executor whose task has run; how Riak ended is said once, as            *)
(* TASK_FINISHED exactly if "finish" was taken up before; no message is    *)
(* obeyed before TASK_RUNNING or after TASK_KILLED; an executor that is    *)
(* gone says nothing.                                                      *)
(*                                                                         *)
(* It does not promise that a terminal update is the last one: the end may *)
(* be said after TASK_KILLED, and TASK_RUNNING or TASK_KILLED after the    *)
(* end. Mesos.tla gives the scheduler the life up to the first terminal    *)
(* update only.                                                            *)
(***************************************************************************)
EXTENDS Sequences, Functions

VARIABLES
    said,       \* all updates, in order
    asked,      \* "finish" was taken up
    gone        \* the executor has exited

lifeVars == <<said, asked, gone>>

Said == Range(said)

Init == said = <<>> /\ ~asked /\ ~gone

Says(status) == said' = Append(said, status) /\ UNCHANGED <<asked, gone>>

Start == said = <<>> /\ Says("STARTING")

Abort == said = <<"STARTING">> /\ Says("FAILED")

Run == said = <<"STARTING">> /\ Says("RUNNING")

\* The task has run, and a message or signal finds it alive.
Serving == "RUNNING" \in Said /\ "KILLED" \notin Said

Repeat == Serving /\ Says("RUNNING")

Kill == Serving /\ Says("KILLED")

Ask == Serving /\ asked' = TRUE /\ UNCHANGED <<said, gone>>

End ==
    /\ "RUNNING" \in Said /\ Said \cap {"FINISHED", "FAILED"} = {}
    /\ Says(IF asked THEN "FINISHED" ELSE "FAILED")

Exit == gone' = TRUE /\ UNCHANGED <<said, asked>>

Next == ~gone /\ (Start \/ Abort \/ Run \/ Repeat \/ Kill \/ Ask \/ End \/ Exit)

Spec == Init /\ [][Next]_lifeVars
=============================================================================
