----------------------------- MODULE WorkerTasks -----------------------------
(***************************************************************************)
(* The goroutines of masswallet.NtfnsHandler and how they take turns: the  *)
(* handler goroutine (handle), the worker goroutine (worker, asyncImport,  *)
(* asyncRemove), the API calls that queue tasks, and Stop.  sigSuspend and *)
(* sigResume are unbuffered, so a send and its receive are one step; every *)
(* mwdb.Update is one step, because write transactions exclude each other. *)
(* What the transactions do to the ledger is in NtfnsHandler.tla; here an  *)
(* import or a removal ends in any of the ways it can.                     *)
(***************************************************************************)
EXTENDS Naturals, Sequences, FiniteSets

CONSTANTS
    Wallet,
    MaxWaitingTaskNum,  \* 3
    MaxRequest          \* bound on API calls

ASSUME WorkerTasksAssumption ==
    IsFiniteSet(Wallet) /\ MaxWaitingTaskNum \in Nat /\ MaxRequest \in Nat

VARIABLES
    stored,     \* wallets with a keystore and a status
    unready,    \* those whose SyncedHeight is not WalletSyncedDone
    removed,    \* those marked by MarkDeleteWallet
    abandoned,  \* history: imports given up with ErrUnexpectedCreditNotFound
    C, cap,     \* h.taskChan and its capacity
    handler,    \* "select", "busy", "suspended", "gone"
    worker,     \* "init", "select", "suspend", "txn", "resume", "between", "push", "gone"
    task,       \* the task the worker holds
    second,     \* asyncRemove is past its first transaction
    then,       \* where the worker goes after sigResume
    api,        \* an ImportWallet or RemoveWallet under w.mu: "idle", "checked", "push"
    apiTask,
    requests,
    quit,       \* h.quit is closed
    closed,     \* the database is closed
    alive       \* FALSE once a goroutine has panicked

walletVars == <<stored, unready, removed, abandoned>>
workVars == <<worker, task, second, then>>
apiVars == <<api, apiTask, requests>>
endVars == <<quit, closed, alive>>
vars == <<walletVars, C, cap, handler, workVars, apiVars, endVars>>

Task == [type : {"import", "remove"}, w : Wallet]
NoTask == [type |-> "none", w |-> "none"]

-----------------------------------------------------------------------------
(* task.go *)
IsBusy == Len(C) >= MaxWaitingTaskNum

(* Mutant: no room for the task the worker holds. *)
CapacityTight(size) == IF size < MaxWaitingTaskNum THEN MaxWaitingTaskNum ELSE size

(* NewWalletTaskChan *)
Capacity(size) == IF size < MaxWaitingTaskNum + 1 THEN MaxWaitingTaskNum + 1 ELSE size

(* PushImport and PushRemove do not block: a task that does not fit is     *)
(* logged and lost.                                                        *)
Push(t) == C' = IF Len(C) < cap THEN Append(C, t) ELSE C

-----------------------------------------------------------------------------
(* handle *)
HandlerTake ==
    /\ alive /\ handler = "select"
    /\ handler' = "busy"
    /\ UNCHANGED <<walletVars, C, cap, workVars, apiVars, endVars>>

HandlerDone ==
    /\ alive /\ handler = "busy"
    /\ handler' = "select"
    /\ UNCHANGED <<walletVars, C, cap, workVars, apiVars, endVars>>

HandlerQuit ==
    /\ alive /\ handler = "select" /\ quit
    /\ handler' = "gone"
    /\ UNCHANGED <<walletVars, C, cap, workVars, apiVars, endVars>>

-----------------------------------------------------------------------------
(* worker.  It first queues what the statuses say is unfinished, in the    *)
(* order of the bucket, which the model leaves open.                       *)
Unfinished == {w \in stored : w \in removed \/ w \in unready}
PendingTask(w) == [type |-> IF w \in removed THEN "remove" ELSE "import", w |-> w]

WorkerInit ==
    /\ alive /\ worker = "init"
    /\ cap' = Capacity(Cardinality(stored))
    /\ \E order \in [1..Cardinality(Unfinished) -> Unfinished] :
          /\ \A w \in Unfinished : \E i \in DOMAIN order : order[i] = w
          /\ C' = [i \in 1..Cardinality(Unfinished) |-> PendingTask(order[i])]
    /\ worker' = "select"
    /\ UNCHANGED <<walletVars, handler, task, second, then, apiVars, endVars>>

(* A task whose wallet has no keystore ends here. *)
WorkerTake ==
    /\ alive /\ worker = "select" /\ C # <<>>
    /\ C' = Tail(C)
    /\ task' = Head(C)
    /\ second' = FALSE
    /\ worker' = IF Head(C).w \in stored THEN "suspend" ELSE "select"
    /\ UNCHANGED <<walletVars, cap, handler, then, apiVars, endVars>>

WorkerQuit ==
    /\ alive /\ worker = "select" /\ quit
    /\ worker' = "gone"
    /\ UNCHANGED <<walletVars, C, cap, handler, task, second, then, apiVars, endVars>>

(* Mutant: the worker does not wait until the handler takes the signal. *)
SuspendAsync ==
    /\ alive /\ worker = "suspend" /\ handler # "suspended"
    /\ worker' = "txn"
    /\ handler' = IF handler = "select" THEN "suspended" ELSE handler
    /\ UNCHANGED <<walletVars, C, cap, task, second, then, apiVars, endVars>>

Suspend ==
    /\ alive /\ worker = "suspend" /\ handler = "select"
    /\ worker' = "txn" /\ handler' = "suspended"
    /\ UNCHANGED <<walletVars, C, cap, task, second, then, apiVars, endVars>>

(* One range of an import: it reaches the tip, or stops short of it, or    *)
(* fails; one kind of failure ends the import.                             *)
ImportTxn ==
    /\ alive /\ worker = "txn" /\ task.type = "import"
    /\ \/ /\ unready' = unready \ {task.w} /\ abandoned' = abandoned \ {task.w}
          /\ then' = "select"
       \/ /\ unready' = unready \cup {task.w} /\ UNCHANGED abandoned
          /\ then' = "push"
       \/ UNCHANGED <<unready, abandoned>> /\ then' = "push"
       \/ UNCHANGED unready /\ abandoned' = abandoned \cup {task.w} /\ then' = "select"
    /\ worker' = "resume"
    /\ UNCHANGED <<stored, removed, C, cap, handler, task, second, apiVars, endVars>>

(* Mutant: a failed transaction returns without sigResume. *)
RemoveTxnNoResume ==
    /\ alive /\ worker = "txn" /\ task.type = "remove"
    /\ \/ then' = "between" /\ worker' = "resume" /\ UNCHANGED walletVars
       \/ then' = "push" /\ worker' = "push" /\ UNCHANGED walletVars
       \/ /\ second /\ then' = "select" /\ worker' = "resume"
          /\ stored' = stored \ {task.w} /\ unready' = unready \ {task.w}
          /\ removed' = removed \ {task.w} /\ abandoned' = abandoned \ {task.w}
    /\ UNCHANGED <<C, cap, handler, task, second, apiVars, endVars>>

(* The first transaction of asyncRemove, or one batch of the second: it    *)
(* succeeds, or it fails, or it is the last batch and deletes the wallet.  *)
RemoveTxn ==
    /\ alive /\ worker = "txn" /\ task.type = "remove"
    /\ \/ then' \in {"between", "push"} /\ UNCHANGED walletVars
       \/ /\ second /\ then' = "select"
          /\ stored' = stored \ {task.w} /\ unready' = unready \ {task.w}
          /\ removed' = removed \ {task.w} /\ abandoned' = abandoned \ {task.w}
    /\ worker' = "resume"
    /\ UNCHANGED <<C, cap, handler, task, second, apiVars, endVars>>

Resume ==
    /\ alive /\ worker = "resume" /\ handler = "suspended"
    /\ worker' = then /\ handler' = "select"
    /\ UNCHANGED <<walletVars, C, cap, task, second, then, apiVars, endVars>>

(* The check of quit between two transactions of asyncRemove: ErrTaskAbort *)
(* drops the task.                                                         *)
NextBatch ==
    /\ alive /\ worker = "between"
    /\ worker' = IF quit THEN "select" ELSE "suspend"
    /\ second' = TRUE
    /\ UNCHANGED <<walletVars, C, cap, handler, task, then, apiVars, endVars>>

(* An unfinished import or a failed removal is queued again. *)
PushAgain ==
    /\ alive /\ worker = "push"
    /\ Push(task)
    /\ worker' = "select"
    /\ UNCHANGED <<walletVars, cap, handler, task, second, then, apiVars, endVars>>

-----------------------------------------------------------------------------
(* ImportWallet and RemoveWallet, one at a time under w.mu.  UnloadWallet  *)
(* stops the API server before it stops the handler, so only calls that    *)
(* are under way meet a closed quit.  Before the worker has made the       *)
(* channel, IsBusy dereferences a nil pointer.                             *)
ApiCheck ==
    /\ alive /\ ~quit /\ api = "idle" /\ requests < MaxRequest
    /\ worker # "init" /\ ~IsBusy
    /\ api' = "checked"
    /\ requests' = requests + 1
    /\ UNCHANGED <<walletVars, C, cap, handler, workVars, apiTask, endVars>>

ApiPanic ==
    /\ alive /\ ~quit /\ api = "idle" /\ requests < MaxRequest
    /\ worker = "init"
    /\ alive' = FALSE
    /\ UNCHANGED <<walletVars, C, cap, handler, workVars, apiVars, quit, closed>>

(* An imported wallet without addresses is ready at once. *)
ApiImport ==
    /\ alive /\ api = "checked" /\ ~closed
    /\ \E w \in Wallet \ stored :
          /\ stored' = stored \cup {w}
          /\ \/ unready' = unready \cup {w} /\ api' = "push"
             \/ UNCHANGED unready /\ api' = "idle"
          /\ apiTask' = [type |-> "import", w |-> w]
    /\ UNCHANGED <<removed, abandoned, C, cap, handler, workVars, requests, endVars>>

ApiRemove ==
    /\ alive /\ api = "checked" /\ ~closed
    /\ \E w \in stored \ unready :
          /\ removed' = removed \cup {w}
          /\ apiTask' = [type |-> "remove", w |-> w]
    /\ api' = "push"
    /\ UNCHANGED <<stored, unready, abandoned, C, cap, handler, workVars, requests, endVars>>

(* Wrong passphrase, existing or unready wallet, a failed transaction. *)
ApiFails ==
    /\ alive /\ api = "checked"
    /\ api' = "idle"
    /\ UNCHANGED <<walletVars, C, cap, handler, workVars, apiTask, requests, endVars>>

ApiPush ==
    /\ alive /\ api = "push"
    /\ Push(apiTask)
    /\ api' = "idle"
    /\ UNCHANGED <<walletVars, cap, handler, workVars, apiTask, requests, endVars>>

-----------------------------------------------------------------------------
(* Stop: close(h.quit), wait for both goroutines, close the database. *)
Stop ==
    /\ alive /\ ~quit
    /\ quit' = TRUE
    /\ UNCHANGED <<walletVars, C, cap, handler, workVars, apiVars, closed, alive>>

CloseDB ==
    /\ alive /\ quit /\ ~closed
    /\ handler = "gone" /\ worker = "gone"
    /\ closed' = TRUE
    /\ UNCHANGED <<walletVars, C, cap, handler, workVars, apiVars, quit, alive>>

-----------------------------------------------------------------------------
(* Any statuses a previous run can have left. *)
Init ==
    /\ stored \in SUBSET Wallet
    /\ unready \in SUBSET stored /\ removed \in SUBSET (stored \ unready)
    /\ abandoned = {}
    /\ C = <<>> /\ cap = 0
    /\ handler = "select"
    /\ worker = "init" /\ then = "select" /\ second = FALSE
    /\ task = NoTask /\ apiTask = NoTask
    /\ api = "idle" /\ requests = 0
    /\ quit = FALSE /\ closed = FALSE /\ alive = TRUE

Handle == HandlerTake \/ HandlerDone \/ HandlerQuit
Work == WorkerInit \/ WorkerTake \/ WorkerQuit \/ ImportTxn \/ RemoveTxn \/ NextBatch \/ PushAgain
Api == ApiCheck \/ ApiPanic \/ ApiImport \/ ApiRemove \/ ApiFails \/ ApiPush
Next == Handle \/ Work \/ Suspend \/ Resume \/ Api \/ Stop \/ CloseDB

Spec == Init /\ [][Next]_vars

(* A goroutine that can run does, and a select that is offered a case      *)
(* again and again takes it (Go chooses among the ready cases at random).  *)
(* Blocks, API calls and Stop may stay away.                               *)
Fairness ==
    /\ WF_vars(HandlerDone) /\ SF_vars(HandlerQuit)
    /\ WF_vars(Work) /\ SF_vars(WorkerQuit)
    /\ SF_vars(Suspend) /\ WF_vars(Resume)
    /\ WF_vars(ApiImport \/ ApiRemove \/ ApiFails \/ ApiPush)
    /\ WF_vars(CloseDB)
FairSpec == Spec /\ Fairness

-----------------------------------------------------------------------------
(* The worker has a task that it has not finished or dropped. *)
Holding == \/ worker \in {"suspend", "txn", "between", "push"}
           \/ worker = "resume" /\ then # "select"

(* Type invariant. *)
TypeOK ==
    /\ stored \subseteq Wallet /\ unready \subseteq stored /\ removed \subseteq stored
    /\ abandoned \subseteq Wallet
    /\ C \in Seq(Task) /\ cap \in Nat
    /\ handler \in {"select", "busy", "suspended", "gone"}
    /\ worker \in {"init", "select", "suspend", "txn", "resume", "between", "push", "gone"}
    /\ then \in {"select", "between", "push"} /\ second \in BOOLEAN
    /\ task \in Task \cup {NoTask}
    /\ Holding => task \in Task
    /\ api \in {"idle", "checked", "push"} /\ requests \in Nat
    /\ apiTask \in Task \cup {NoTask}
    /\ api = "push" => apiTask \in Task
    /\ quit \in BOOLEAN /\ closed \in BOOLEAN /\ alive \in BOOLEAN

(* The handler stands still exactly while the worker is in a transaction   *)
(* and its follow-up on h.expiredMempool: the two goroutines share         *)
(* h.bestBlock and h.expiredMempool without a lock, and every exit of      *)
(* asyncImport and asyncRemove, failed or not, gives the turn back.        *)
MutualExclusion == handler = "suspended" <=> worker \in {"txn", "resume"}

(* No task is lost while the wallet runs: every wallet whose status is     *)
(* unfinished has a task that waits in the channel, is in the worker's     *)
(* hand or is about to be pushed, although a push to a full channel drops  *)
(* it and IsWorkerBusy is checked long before the push.  Imports given up  *)
(* with ErrUnexpectedCreditNotFound are exempt.                            *)
Has(type, w) ==
    \/ \E i \in DOMAIN C : C[i] = [type |-> type, w |-> w]
    \/ Holding /\ task = [type |-> type, w |-> w]
    \/ api = "push" /\ apiTask = [type |-> type, w |-> w]

TasksCovered ==
    (worker # "init" /\ ~quit) =>
        /\ \A w \in removed : Has("remove", w)
        /\ \A w \in (unready \ removed) \ abandoned : Has("import", w)

(* Why: the channel has room for what waits, for the task the worker holds *)
(* and for the one an API call that passed the check is going to push.     *)
Room ==
    worker # "init" =>
        /\ Len(C) <= cap
        /\ Holding \/ api # "idle" => Len(C) + 1 <= cap
        /\ Holding /\ api # "idle" => Len(C) + 2 <= cap

(* The inductive invariant. *)
TasksInv ==
    /\ TypeOK /\ MutualExclusion /\ TasksCovered /\ Room
    /\ worker = "init" => api = "idle"
    /\ worker # "init" => cap >= MaxWaitingTaskNum + 1
    /\ worker = "gone" => quit
    /\ Holding => task.w \in stored

(* A worker that wants its turn gets it, unless the wallet is stopped.     *)
WorkerGetsTurn == worker = "suspend" ~> (worker = "txn" \/ quit \/ ~alive)

(* "UnloadWallet stops the loaded wallet, if any, and closes the wallet    *)
(* database": Stop returns.                                                *)
StopCompletes == quit ~> closed

=============================================================================
