----------------------------- MODULE MCProcess -----------------------------
(* Instances of WorkerTasks, Lifecycle and BatchBinding, which share no     *)
(* state: a behaviour is one of one part.                                   *)
EXTENDS MCWorkerTasks, Lifecycle, BatchBinding

VARIABLE part

MCDisk ==
    LET file(name, target, plotted, owned, size) ==
            [name |-> name, readable |-> TRUE, plotted |-> plotted, owned |-> owned, target |-> target, size |-> size]
    IN  <<file("massdb", "t1", TRUE, TRUE, 24), file("massdb", "t2", TRUE, TRUE, 26), file("massdb", "t1", TRUE, TRUE, 24),
          file("massdb", "t3", FALSE, TRUE, 24), file("plot", "t3", TRUE, FALSE, 40),
          file("other", "t3", TRUE, TRUE, 24)>>
MCPrice == <<"m1", 24>> :> 2 @@ <<"m1", 26>> :> 3
MCCoins == <<9>>

(* In the behaviours of another part the process is at its end, and the     *)
(* goroutines of WorkerTasks are gone.                                      *)
TasksOver ==
    /\ stored = {} /\ unready = {} /\ removed = {} /\ abandoned = {}
    /\ C = <<>> /\ cap = 0
    /\ handler = "gone" /\ worker = "gone" /\ then = "select" /\ second = FALSE
    /\ task = NoTask /\ apiTask = NoTask /\ api = "idle" /\ requests = 0
    /\ quit = TRUE /\ closed = TRUE /\ alive = TRUE

MCInit == \/ part = "tasks" /\ Init /\ LifeInitAt("failed") /\ BatchInit
          \/ part = "process" /\ TasksOver /\ LifeInit /\ BatchInit
          \/ part = "client" /\ TasksOver /\ LifeInitAt("failed") /\ BatchInit
MCNext == \/ part = "tasks" /\ Next /\ UNCHANGED <<lifeVars, batchVars, part>>
          \/ part = "process" /\ LifeNext /\ UNCHANGED <<vars, batchVars, part>>
          \/ part = "client" /\ BatchNext /\ UNCHANGED <<vars, lifeVars, part>>
MCSpec == MCInit /\ [][MCNext]_<<vars, lifeVars, batchVars, part>> /\ Fairness /\ LifeFairness /\ BatchFairness
=============================================================================
