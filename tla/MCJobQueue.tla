---------------------------- MODULE MCJobQueue ----------------------------
(***************************************************************************)
(* Instance for TLC of the job queue.  JobQueue: a chain of two jobs in a  *)
(* sequential channel, two jobs side by side and one that depends on both, *)
(* or two jobs that compete for a slot.  JobGraphs: how a graph of four    *)
(* jobs is built.                                                          *)
(***************************************************************************)
EXTENDS JobQueue, JobGraphs

CONSTANTS ja, jb, jc, jd, je, jf, s, w1, w2

Family == [j \in Jobs |-> CASE j = jb -> {ja} [] j = je -> {jc, jd} [] OTHER -> {}]

Places == [j \in Jobs |->
    CASE j = ja -> 1 [] j = jb -> 2 [] j = jc -> 3 [] j = jd -> 4 [] j = je -> 5 [] j = jf -> 6]

\* jc goes straight to root, so that jc and jd run at once.
Channel == [j \in Jobs |-> IF j = jc THEN Root ELSE s]

Slots == [x \in Channels |-> IF x = Root THEN 2 ELSE 1]

Tries == [j \in Jobs |-> IF j = ja THEN 2 ELSE 1]

VARIABLE scenario

queueVars == <<scenario, jobVars, graphVars>>

QueueInit == scenario \in {"run", "build"} /\ JobInit /\ GraphInit

QueueNext ==
    /\ UNCHANGED scenario
    /\ \/ scenario = "run" /\ JobNext /\ UNCHANGED graphVars
       \/ scenario = "build" /\ GraphNext /\ UNCHANGED jobVars

\* The runner is asked to go on where jobs run: a graph that is only built has no fair
\* behaviour, and is checked for its invariant.
QueueSpec == QueueInit /\ [][QueueNext]_queueVars /\ JobFairness

One == [g \in Graphs |-> 1]

=============================================================================
