---------------------------- MODULE ProcessProofs ----------------------------
(***************************************************************************)
(* Proofs about the goroutines of the wallet process and the commands of   *)
(* its client.                                                             *)
(*                                                                         *)
(* WorkerTasks, for any number of wallets and any limit MaxWaitingTaskNum: *)
(* TasksInv is inductive, hence the goroutines exclude each other and no   *)
(* task is lost.                                                           *)
(*                                                                         *)
(* Lifecycle, for any number of signals and QuitClient requests: LifeInv   *)
(* says which parts run at each place that massMain and the interrupt      *)
(* handler can be at together; ClosedInOrder alone does not know that the  *)
(* callback runs once, nor why it cannot run too early.                    *)
(*                                                                         *)
(* BatchBinding, for any clients, plots, coins and batch size: BatchInv    *)
(* says which targets a command has looked at, taken and sent, and what of *)
(* it the node holds; CountsWhatIsBound alone knows none of it before the  *)
(* command ends.                                                           *)
(***************************************************************************)
EXTENDS WorkerTasks, Lifecycle, BatchBinding, FiniteSetTheorems, SequenceTheorems, TLAPS

(* What is left of Unfinished fits the channel that WorkerInit makes.      *)
LEMMA InitialTasksFit ==
    ASSUME TypeOK
    PROVE  /\ Cardinality(Unfinished) \in Nat
           /\ Capacity(Cardinality(stored)) \in Nat
           /\ Cardinality(Unfinished) <= Capacity(Cardinality(stored))
           /\ Capacity(Cardinality(stored)) >= MaxWaitingTaskNum + 1
<1>1. IsFiniteSet(stored)
  BY FS_Subset, WorkerTasksAssumption DEF TypeOK
<1>2. /\ IsFiniteSet(Unfinished)
      /\ Cardinality(Unfinished) <= Cardinality(stored)
  BY <1>1, FS_Subset DEF Unfinished
<1>3. Cardinality(stored) \in Nat /\ Cardinality(Unfinished) \in Nat
  BY <1>1, <1>2, FS_CardinalityType
<1> QED
  BY <1>2, <1>3, WorkerTasksAssumption DEF Capacity

(* A push into a channel with room keeps every waiting task and adds one.  *)
LEMMA PushKeeps ==
    ASSUME C \in Seq(Task), cap \in Nat, Len(C) < cap, NEW t \in Task, Push(t)
    PROVE  /\ C' \in Seq(Task) /\ Len(C') = Len(C) + 1
           /\ \A x : (\E i \in DOMAIN C : C[i] = x) => \E i \in DOMAIN C' : C'[i] = x
           /\ \E i \in DOMAIN C' : C'[i] = t
<1>1. C' = Append(C, t)
  BY DEF Push
<1>2. /\ C' \in Seq(Task) /\ Len(C') = Len(C) + 1
      /\ C'[Len(C) + 1] = t
      /\ \A i \in 1..Len(C) : C'[i] = C[i]
  BY <1>1
<1>3. DOMAIN C = 1..Len(C) /\ DOMAIN C' = 1..(Len(C) + 1) /\ Len(C) \in Nat
  BY <1>2
<1> QED
  BY <1>2, <1>3

(* Taking the head leaves every other task in the channel.                 *)
LEMMA TakeKeeps ==
    ASSUME C \in Seq(Task), C # <<>>, C' = Tail(C)
    PROVE  /\ C' \in Seq(Task) /\ Len(C') = Len(C) - 1 /\ Len(C) > 0
           /\ Head(C) \in Task
           /\ \A x : (\E i \in DOMAIN C : C[i] = x) =>
                  x = Head(C) \/ \E i \in DOMAIN C' : C'[i] = x
<1>1. /\ C' \in Seq(Task) /\ Len(C') = Len(C) - 1 /\ Len(C) > 0 /\ Head(C) \in Task
      /\ Head(C) = C[1]
      /\ \A i \in 1..(Len(C) - 1) : C'[i] = C[i + 1]
  OBVIOUS
<1>2. DOMAIN C = 1..Len(C) /\ DOMAIN C' = 1..(Len(C) - 1) /\ Len(C) \in Nat
  BY <1>1
<1>3. ASSUME NEW i \in 1..Len(C), i # 1
      PROVE  i - 1 \in 1..(Len(C) - 1) /\ C'[i - 1] = C[i]
  BY <1>1, <1>2, <1>3
<1> QED
  BY <1>1, <1>2, <1>3

(* The wallets' statuses before the goroutines run satisfy the invariant.  *)
LEMMA InitInv == Init => TasksInv
<1> SUFFICES ASSUME Init PROVE TasksInv
  OBVIOUS
<1>1. TypeOK
  <2>1. stored \subseteq Wallet /\ unready \subseteq stored /\ removed \subseteq stored
    BY DEF Init
  <2>2. C \in Seq(Task) /\ cap \in Nat /\ requests \in Nat
    BY DEF Init
  <2>3. quit \in BOOLEAN /\ closed \in BOOLEAN /\ alive \in BOOLEAN /\ second \in BOOLEAN
    BY DEF Init
  <2>4. ~Holding /\ api # "push" /\ abandoned \subseteq Wallet
    BY DEF Init, Holding
  <2> QED
    BY <2>1, <2>2, <2>3, <2>4 DEF Init, TypeOK
<1>2. MutualExclusion /\ TasksCovered /\ Room
  BY DEF Init, MutualExclusion, TasksCovered, Room
<1> QED
  BY <1>1, <1>2 DEF Init, TasksInv, Holding

(* The handler's own steps: it is neither suspended before nor after.      *)
LEMMA HandleStep == TasksInv /\ Handle => TasksInv'
<1> SUFFICES ASSUME TasksInv, Handle PROVE TasksInv'
  OBVIOUS
<1> USE DEF TasksInv
<1>1. /\ handler \in {"select", "busy"} /\ handler' \in {"select", "busy", "gone"}
      /\ UNCHANGED <<walletVars, C, cap, workVars, apiVars, endVars>>
  BY DEF Handle, HandlerTake, HandlerDone, HandlerQuit
<1>2. TypeOK'
  BY <1>1 DEF TypeOK, Holding, walletVars, workVars, apiVars, endVars
<1>3. MutualExclusion'
  BY <1>1 DEF MutualExclusion, workVars
<1>4. TasksCovered' /\ Room'
  BY <1>1 DEF TasksCovered, Has, Room, Holding, walletVars, workVars, apiVars, endVars
<1> QED
  BY <1>1, <1>2, <1>3, <1>4 DEF Holding, walletVars, workVars, apiVars, endVars

(* The worker's first step queues a task for every unfinished wallet.      *)
LEMMA WorkerInitStep == TasksInv /\ WorkerInit => TasksInv'
<1> SUFFICES ASSUME TasksInv, WorkerInit PROVE TasksInv'
  OBVIOUS
<1> USE DEF TasksInv, WorkerInit
<1> DEFINE n == Cardinality(Unfinished)
<1>1. n \in Nat /\ cap' \in Nat /\ n <= cap' /\ cap' >= MaxWaitingTaskNum + 1
  BY InitialTasksFit
<1>2. PICK order \in [1..n -> Unfinished] :
         /\ \A w \in Unfinished : \E i \in DOMAIN order : order[i] = w
         /\ C' = [i \in 1..n |-> PendingTask(order[i])]
  OBVIOUS
<1>3. \A i \in 1..n : order[i] \in Unfinished
  BY <1>2
<1>4. \A w \in Unfinished : PendingTask(w) \in Task
  BY DEF PendingTask, Task, Unfinished, TypeOK
<1>5. C' \in Seq(Task) /\ Len(C') = n /\ DOMAIN C' = 1..n
  <2> HIDE DEF n
  <2>1. \A i \in 1..n : PendingTask(order[i]) \in Task
    BY <1>3, <1>4
  <2> DEFINE Q(i) == PendingTask(order[i])
  <2>2. C' = [i \in 1..n |-> Q(i)]
    BY <1>2
  <2>3. \A i \in 1..n : Q(i) \in Task
    BY <2>1
  <2> HIDE DEF Q
  <2>4. C' \in [1..n -> Task]
    BY <2>2, <2>3
  <2>5. C' \in Seq(Task)
    BY <1>1, <2>4, SeqDef
  <2>6. DOMAIN C' = 1..n /\ DOMAIN C' = 1..Len(C') /\ Len(C') \in Nat
    BY <2>4, <2>5, LenProperties
  <2>7. Len(C') = n
    <3>1. ASSUME NEW a \in Nat, NEW b \in Nat, 1..a = 1..b PROVE a = b
      <4>1. a <= b
        BY <3>1, a = 0 \/ a \in 1..a
      <4>2. b <= a
        BY <3>1, b = 0 \/ b \in 1..b
      <4> QED
        BY <4>1, <4>2
    <3> QED
      BY <1>1, <2>6, <3>1
  <2> QED
    BY <2>5, <2>6, <2>7
<1>6. TypeOK'
  BY <1>1, <1>5 DEF TypeOK, Holding, walletVars, apiVars, endVars
<1>7. MutualExclusion'
  BY DEF MutualExclusion
<1>8. ASSUME NEW w \in Unfinished
      PROVE  \E i \in DOMAIN C' : C'[i] = PendingTask(w)
  <2>1. PICK i \in 1..n : order[i] = w
    BY <1>2, <1>8
  <2> QED
    BY <1>2, <1>5, <2>1
<1>9. TasksCovered'
  <2>1. \A w \in removed : w \in Unfinished /\ PendingTask(w) = [type |-> "remove", w |-> w]
    BY DEF Unfinished, PendingTask, TypeOK
  <2>2. \A w \in unready \ removed :
           w \in Unfinished /\ PendingTask(w) = [type |-> "import", w |-> w]
    BY DEF Unfinished, PendingTask, TypeOK
  <2> QED
    BY <1>8, <2>1, <2>2 DEF TasksCovered, Has, walletVars
<1>10. Room'
  BY <1>1, <1>5 DEF Room, Holding, apiVars
<1> QED
  BY <1>1, <1>6, <1>7, <1>9, <1>10 DEF Holding, apiVars, endVars

(* Taking a task moves it from the channel into the worker's hand; it is   *)
(* dropped only if its wallet is gone.                                     *)
LEMMA WorkerTakeStep == TasksInv /\ WorkerTake => TasksInv'
<1> SUFFICES ASSUME TasksInv, WorkerTake PROVE TasksInv'
  OBVIOUS
<1> USE DEF TasksInv, WorkerTake
<1>1. /\ C' \in Seq(Task) /\ Len(C') = Len(C) - 1 /\ Len(C) > 0
      /\ Head(C) \in Task
      /\ \A x : (\E i \in DOMAIN C : C[i] = x) =>
             x = Head(C) \/ \E i \in DOMAIN C' : C'[i] = x
  BY TakeKeeps DEF TypeOK
<1>2. TypeOK'
  BY <1>1 DEF TypeOK, Holding, walletVars, apiVars, endVars
<1>3. MutualExclusion'
  BY DEF MutualExclusion
<1>4. ASSUME NEW type, NEW w \in stored, Has(type, w)
      PROVE  Has(type, w)'
  <2>1. CASE \E i \in DOMAIN C : C[i] = [type |-> type, w |-> w]
    <3>1. CASE [type |-> type, w |-> w] = Head(C)
      BY <3>1, <1>4 DEF Has, Holding
    <3>2. CASE \E i \in DOMAIN C' : C'[i] = [type |-> type, w |-> w]
      BY <3>2 DEF Has
    <3> QED
      BY <1>1, <2>1, <3>1, <3>2
  <2>2. CASE api = "push" /\ apiTask = [type |-> type, w |-> w]
    BY <2>2 DEF Has, apiVars
  <2> QED
    BY <1>4, <2>1, <2>2 DEF Has, Holding
<1>5. TasksCovered'
  BY <1>4 DEF TasksCovered, TypeOK, walletVars, endVars
<1>6. Room'
  BY <1>1 DEF Room, Holding, TypeOK, apiVars
<1> QED
  BY <1>1, <1>2, <1>3, <1>5, <1>6 DEF Holding, walletVars, apiVars, endVars

(* A step that leaves the channel and the statuses alone and neither takes *)
(* nor drops a task keeps the tasks covered.                               *)
LEMMA KeepsCover ==
    ASSUME TasksCovered, worker # "init" \/ worker' = "init",
           UNCHANGED <<walletVars, C, apiVars, task>>, Holding => Holding' \/ quit', quit => quit'
    PROVE  TasksCovered'
BY DEF TasksCovered, Has, walletVars, apiVars

(* The rendezvous: both goroutines move together.                          *)
LEMMA TurnStep == TasksInv /\ (Suspend \/ Resume) => TasksInv'
<1> SUFFICES ASSUME TasksInv, Suspend \/ Resume PROVE TasksInv'
  OBVIOUS
<1> USE DEF TasksInv, Suspend, Resume
<1>1. TypeOK'
  BY DEF TypeOK, Holding, walletVars, apiVars, endVars
<1>2. MutualExclusion'
  BY DEF MutualExclusion, TypeOK
<1>3. Holding' <=> Holding
  BY DEF Holding, TypeOK
<1>4. TasksCovered'
  BY <1>3, KeepsCover DEF TypeOK, endVars
<1>5. Room'
  BY <1>3 DEF Room, apiVars
<1> QED
  BY <1>1, <1>2, <1>3, <1>4, <1>5 DEF TypeOK, walletVars, apiVars, endVars

(* The worker's steps between channel and transaction: quitting, aborting  *)
(* and going on with the next batch.                                       *)
LEMMA BetweenStep == TasksInv /\ (WorkerQuit \/ NextBatch) => TasksInv'
<1> SUFFICES ASSUME TasksInv, WorkerQuit \/ NextBatch PROVE TasksInv'
  OBVIOUS
<1> USE DEF TasksInv, WorkerQuit, NextBatch
<1>1. TypeOK'
  <2>1. CASE WorkerQuit
    BY <2>1 DEF TypeOK, Holding, walletVars, apiVars, endVars
  <2>2. CASE NextBatch
    BY <2>2 DEF TypeOK, Holding, walletVars, apiVars, endVars
  <2> QED BY <2>1, <2>2
<1>2. MutualExclusion'
  BY DEF MutualExclusion
<1>3. (Holding => Holding' \/ quit) /\ (Holding' => Holding)
  BY DEF Holding
<1>4. TasksCovered'
  BY <1>3, KeepsCover DEF endVars
<1>5. Room'
  BY <1>3 DEF Room, apiVars
<1> QED
  BY <1>1, <1>2, <1>3, <1>4, <1>5 DEF walletVars, apiVars, endVars

(* A range of an import: either it is queued again, or the wallet is ready *)
(* or given up.                                                            *)
LEMMA ImportStep == TasksInv /\ ImportTxn => TasksInv'
<1> SUFFICES ASSUME TasksInv, ImportTxn PROVE TasksInv'
  OBVIOUS
<1> USE DEF TasksInv, ImportTxn
<1>0. task \in Task /\ task = [type |-> "import", w |-> task.w] /\ task.w \in stored
  BY DEF TypeOK, Holding, Task
<1>1. TypeOK'
  BY <1>0 DEF TypeOK, Holding, apiVars, endVars
<1>2. MutualExclusion'
  BY DEF MutualExclusion
<1>3. ASSUME NEW type, NEW w, Has(type, w), type = "import" => w # task.w \/ then' = "push"
      PROVE  Has(type, w)'
  BY <1>0, <1>3 DEF Has, Holding, apiVars
<1>4. TasksCovered'
  <2> SUFFICES ASSUME ~quit, TasksCovered
               PROVE  /\ \A w \in removed : Has("remove", w)'
                      /\ \A w \in (unready' \ removed) \ abandoned' : Has("import", w)'
    BY DEF TasksCovered, endVars
  <2>1. \A w \in removed : Has("remove", w)'
    BY <1>3 DEF TasksCovered
  <2>2. ASSUME NEW w \in (unready' \ removed) \ abandoned'
        PROVE  Has("import", w)'
    <3>1. CASE w = task.w
      BY <1>0, <2>2, <3>1 DEF Has, Holding
    <3>2. CASE w # task.w
      BY <1>3, <2>2, <3>2 DEF TasksCovered
    <3> QED
      BY <3>1, <3>2
  <2> QED
    BY <2>1, <2>2
<1>5. Room'
  BY DEF Room, Holding, TypeOK, apiVars
<1> QED
  BY <1>0, <1>1, <1>2, <1>4, <1>5 DEF apiVars, endVars

(* A transaction of a removal: the wallet loses its status and its task    *)
(* together, or keeps both.                                                *)
LEMMA RemoveStep == TasksInv /\ RemoveTxn => TasksInv'
<1> SUFFICES ASSUME TasksInv, RemoveTxn PROVE TasksInv'
  OBVIOUS
<1> USE DEF TasksInv, RemoveTxn
<1>0. task \in Task /\ task = [type |-> "remove", w |-> task.w] /\ task.w \in stored
  BY DEF TypeOK, Holding, Task
<1>1. TypeOK'
  BY <1>0 DEF TypeOK, Holding, walletVars, apiVars, endVars
<1>2. MutualExclusion'
  BY DEF MutualExclusion
<1>3. ASSUME NEW type, NEW w, Has(type, w), type = "remove" => w # task.w \/ then' # "select"
      PROVE  Has(type, w)'
  BY <1>0, <1>3 DEF Has, Holding, apiVars
<1>4. TasksCovered'
  <2>1. /\ removed' \subseteq removed /\ unready' \subseteq unready
        /\ \A w \in removed' : w # task.w \/ then' # "select"
        /\ (unready' \ removed') \ abandoned' \subseteq (unready \ removed) \ abandoned
    BY DEF walletVars
  <2> QED
    BY <1>3, <2>1 DEF TasksCovered, endVars
<1>5. Room'
  BY DEF Room, Holding, TypeOK, apiVars
<1> QED
  BY <1>0, <1>1, <1>2, <1>4, <1>5 DEF Holding, walletVars, apiVars, endVars

(* The worker's push fits, so what it holds moves into the channel.        *)
LEMMA PushAgainStep == TasksInv /\ PushAgain => TasksInv'
<1> SUFFICES ASSUME TasksInv, PushAgain PROVE TasksInv'
  OBVIOUS
<1> USE DEF TasksInv, PushAgain
<1>1. C \in Seq(Task) /\ cap \in Nat /\ Len(C) < cap /\ task \in Task
  BY DEF Room, Holding, TypeOK
<1>2. /\ C' \in Seq(Task) /\ Len(C') = Len(C) + 1
      /\ \A x : (\E i \in DOMAIN C : C[i] = x) => \E i \in DOMAIN C' : C'[i] = x
      /\ \E i \in DOMAIN C' : C'[i] = task
  BY <1>1, PushKeeps
<1>3. TypeOK'
  BY <1>2 DEF TypeOK, Holding, walletVars, apiVars, endVars
<1>4. MutualExclusion'
  BY DEF MutualExclusion
<1>5. ASSUME NEW type, NEW w, Has(type, w) PROVE Has(type, w)'
  BY <1>2, <1>5 DEF Has, apiVars
<1>6. TasksCovered'
  BY <1>5 DEF TasksCovered, walletVars, endVars
<1>7. Room'
  BY <1>1, <1>2 DEF Room, Holding, apiVars
<1> QED
  BY <1>3, <1>4, <1>6, <1>7 DEF Holding, apiVars, endVars

(* An API call: the room it needs is there when it passes the check, and   *)
(* only its own push fills it.                                             *)
LEMMA ApiStep == TasksInv /\ Api => TasksInv'
<1> SUFFICES ASSUME TasksInv, Api PROVE TasksInv'
  OBVIOUS
<1> USE DEF TasksInv
<1>1. CASE ApiCheck
  <2> USE <1>1 DEF ApiCheck
  <2>1. TypeOK' /\ MutualExclusion'
    BY DEF TypeOK, MutualExclusion, Holding, walletVars, workVars, endVars
  <2>2. Holding' <=> Holding
    BY DEF Holding, workVars
  <2>3. TasksCovered'
    BY <2>2 DEF TasksCovered, Has, walletVars, workVars, endVars
  <2>4. Room'
    BY <2>2, WorkerTasksAssumption DEF Room, IsBusy, TypeOK, workVars
  <2> QED
    BY <2>1, <2>2, <2>3, <2>4 DEF walletVars, workVars, endVars
<1>2. CASE ApiPanic
  <2> USE <1>2 DEF ApiPanic
  <2>1. TypeOK' /\ MutualExclusion'
    BY DEF TypeOK, MutualExclusion, Holding, walletVars, workVars, apiVars
  <2>2. TasksCovered' /\ Room'
    BY DEF TasksCovered, Room, workVars
  <2> QED
    BY <2>1, <2>2 DEF Holding, walletVars, workVars, apiVars
<1>3. CASE ApiImport
  <2> USE <1>3 DEF ApiImport
  <2>1. PICK w \in Wallet \ stored :
           /\ stored' = stored \cup {w}
           /\ \/ unready' = unready \cup {w} /\ api' = "push"
              \/ UNCHANGED unready /\ api' = "idle"
           /\ apiTask' = [type |-> "import", w |-> w]
    OBVIOUS
  <2>2. TypeOK' /\ MutualExclusion'
    BY <2>1 DEF TypeOK, MutualExclusion, Holding, Task, workVars, endVars
  <2>3. Holding' <=> Holding
    BY DEF Holding, workVars
  <2>4. TasksCovered'
    BY <2>1, <2>3 DEF TasksCovered, Has, workVars, endVars
  <2>5. Room'
    BY <2>1, <2>3 DEF Room, TypeOK, workVars
  <2> QED
    BY <2>1, <2>2, <2>3, <2>4, <2>5 DEF workVars, endVars
<1>4. CASE ApiRemove
  <2> USE <1>4 DEF ApiRemove
  <2>1. PICK w \in stored \ unready :
           /\ removed' = removed \cup {w}
           /\ apiTask' = [type |-> "remove", w |-> w]
    OBVIOUS
  <2>2. TypeOK' /\ MutualExclusion'
    BY <2>1 DEF TypeOK, MutualExclusion, Holding, Task, workVars, endVars
  <2>3. Holding' <=> Holding
    BY DEF Holding, workVars
  <2>4. TasksCovered'
    BY <2>1, <2>3 DEF TasksCovered, Has, workVars, endVars
  <2>5. Room'
    BY <2>3 DEF Room, TypeOK, workVars
  <2> QED
    BY <2>2, <2>3, <2>4, <2>5 DEF workVars, endVars
<1>5. CASE ApiFails
  <2> USE <1>5 DEF ApiFails
  <2>1. TypeOK' /\ MutualExclusion'
    BY DEF TypeOK, MutualExclusion, Holding, walletVars, workVars, endVars
  <2>2. Holding' <=> Holding
    BY DEF Holding, workVars
  <2>3. TasksCovered'
    BY <2>2 DEF TasksCovered, Has, walletVars, workVars, endVars
  <2>4. Room'
    BY <2>2 DEF Room, TypeOK, workVars
  <2> QED
    BY <2>1, <2>2, <2>3, <2>4 DEF walletVars, workVars, endVars
<1>6. CASE ApiPush
  <2> USE <1>6 DEF ApiPush
  <2>1. C \in Seq(Task) /\ cap \in Nat /\ Len(C) < cap /\ apiTask \in Task
    BY DEF Room, TypeOK
  <2>2. /\ C' \in Seq(Task) /\ Len(C') = Len(C) + 1
        /\ \A x : (\E i \in DOMAIN C : C[i] = x) => \E i \in DOMAIN C' : C'[i] = x
        /\ \E i \in DOMAIN C' : C'[i] = apiTask
    BY <2>1, PushKeeps
  <2>3. TypeOK' /\ MutualExclusion'
    BY <2>2 DEF TypeOK, MutualExclusion, Holding, walletVars, workVars, endVars
  <2>4. Holding' <=> Holding
    BY DEF Holding, workVars
  <2>5. ASSUME NEW type, NEW w, Has(type, w) PROVE Has(type, w)'
    BY <2>2, <2>4, <2>5 DEF Has, workVars
  <2>6. TasksCovered'
    BY <2>5 DEF TasksCovered, walletVars, workVars, endVars
  <2>7. Room'
    BY <2>1, <2>2, <2>4 DEF Room, workVars
  <2> QED
    BY <2>3, <2>4, <2>6, <2>7 DEF walletVars, workVars, endVars
<1> QED
  BY <1>1, <1>2, <1>3, <1>4, <1>5, <1>6 DEF Api

(* Stopping changes neither tasks nor statuses.                            *)
LEMMA StopStep == TasksInv /\ (Stop \/ CloseDB) => TasksInv'
<1> SUFFICES ASSUME TasksInv, Stop \/ CloseDB PROVE TasksInv'
  OBVIOUS
<1> USE DEF TasksInv, Stop, CloseDB
<1>1. Holding' <=> Holding
  BY DEF Holding, workVars
<1>2. quit' \in BOOLEAN /\ closed' \in BOOLEAN /\ alive' \in BOOLEAN
  BY Zenon DEF TypeOK
<1>3. TypeOK' /\ MutualExclusion'
  BY <1>1, <1>2 DEF TypeOK, MutualExclusion, walletVars, workVars, apiVars
<1>4. TasksCovered'
  BY DEF TasksCovered, TypeOK
<1>5. Room'
  BY <1>1 DEF Room, workVars, apiVars
<1> QED
  BY <1>3, <1>1, <1>4, <1>5 DEF walletVars, workVars, apiVars

(* A step in which nothing happens. *)
LEMMA StutterStep == TasksInv /\ UNCHANGED vars => TasksInv'
BY DEF TasksInv, TypeOK, MutualExclusion, TasksCovered, Has, Room, Holding,
       vars, walletVars, workVars, apiVars, endVars

(* TasksInv is an invariant: nothing the goroutines, the API calls and     *)
(* Stop do in any order breaks it.                                         *)
THEOREM TasksInvariant == Spec => []TasksInv
<1>1. TasksInv /\ [Next]_vars => TasksInv'
  BY HandleStep, WorkerInitStep, WorkerTakeStep, TurnStep, BetweenStep, ImportStep,
     RemoveStep, PushAgainStep, ApiStep, StopStep, StutterStep
     DEF Next, Work
<1> QED
  BY InitInv, <1>1, PTL DEF Spec

(* handle and worker never touch the handler's memory at the same time,    *)
(* and the handler is never left suspended by an exit of asyncImport or    *)
(* asyncRemove.                                                            *)
THEOREM TurnsExclude == Spec => []MutualExclusion
BY TasksInvariant, PTL DEF TasksInv

(* The non-blocking pushes of task.go never drop a task: every unfinished  *)
(* wallet has one, for any number of wallets and any MaxWaitingTaskNum.    *)
THEOREM NoTaskLost == Spec => []TasksCovered
BY TasksInvariant, PTL DEF TasksInv

-----------------------------------------------------------------------------
(* Lifecycle *)

Opening == {"binding", "blocks", "server", "load", "startWallet", "onLoaded", "handler"}
Serving == {"adding", "start", "add", "monitor", "wait"}
Stopping == {"unload", "stopWallet", "wait", "close", "tell"}
AllDbs == {"binding", "blocks", "wallet"}

(* The interrupt handler has run the callback to its end. *)
Done == monitor \in {"sending", "gone"}

Shape ==
    /\ main \in Opening \cup Serving \cup Ended
    /\ DOMAIN server = {"started", "shutdown", "wg", "sync"}
    /\ notices \in Nat /\ callbacks \in {0, 1}

(* Until the handler is there, massMain is alone. *)
OpeningInv ==
    main \in Opening =>
        /\ catcher = "none" /\ callbacks = 0 /\ monitor = "none" /\ notices = 0
        /\ ~isShutdown /\ ~unheard
        /\ server.wg = 0 /\ server.sync = "none"
        /\ main \in {"binding", "blocks", "server", "load"} => walletMgr = "none"
        /\ main = "startWallet" => walletMgr = "created"
        /\ main \in {"onLoaded", "handler"} => walletMgr = "running"
        /\ apiServer = IF main = "handler" THEN "serving" ELSE "none"
        /\ main = "blocks" => openDbs = {"binding"}
        /\ main \in {"server", "load"} => openDbs = {"binding", "blocks"}
        /\ main \in {"startWallet", "onLoaded", "handler"} => openDbs = AllDbs

(* Then the handler has stopped exactly what it has come to. *)
Untouched ==
    /\ openDbs = AllDbs /\ walletMgr = "running" /\ apiServer = "serving"
    /\ server.wg = IF main \in {"monitor", "wait"} THEN 1 ELSE 0
    /\ server.sync = IF main \in {"add", "monitor", "wait"} THEN "running" ELSE "none"

ServingInv ==
    main \in Serving =>
        /\ catcher \in {"select", "stop"} \cup Stopping
        /\ callbacks = IF main = "adding" THEN 0 ELSE 1
        /\ monitor # "none" => main = "wait"
        /\ catcher \in {"select", "stop"} /\ ~Done => Untouched
        /\ catcher # "select" => isShutdown /\ ~Done /\ main # "adding"
        /\ catcher \in Stopping => /\ main \in {"monitor", "wait"}
                                   /\ server.wg = 0 /\ server.sync = "stopped"
        /\ catcher = "unload" => openDbs = AllDbs /\ walletMgr = "running" /\ apiServer = "serving"
        /\ catcher = "stopWallet" => openDbs = AllDbs /\ walletMgr = "running" /\ apiServer = "stopped"
        /\ catcher \in {"wait", "close"} => /\ openDbs = {"binding", "blocks"}
                                            /\ walletMgr = "stopped" /\ apiServer = "stopped"
        /\ catcher = "tell" \/ Done => openDbs = {} /\ walletMgr = "stopped" /\ apiServer = "stopped"
        /\ Done => isShutdown /\ server.sync = "stopped"
        /\ catcher = "select" /\ isShutdown => Done \/ main = "adding"
        /\ notices > 0 => unheard \/ Done

ExitInv ==
    main = "exited" /\ ~unheard => openDbs = {} /\ walletMgr = "stopped" /\ server.sync = "stopped"

LifeInv == Shape /\ OpeningInv /\ ServingInv /\ ExitInv

(* The process starts with nothing open. *)
LEMMA InitLifeInv == LifeInit => LifeInv
<1> SUFFICES ASSUME LifeInit
             PROVE  LifeInv
  OBVIOUS
<1>1. DOMAIN server = {"started", "shutdown", "wg", "sync"} /\ server.wg = 0 /\ server.sync = "none"
  BY DEF LifeInit, LifeInitAt
<1> QED
  BY <1>1 DEF LifeInit, LifeInitAt, LifeInv, Shape, OpeningInv, ServingInv, ExitInv, Opening, Serving, Ended

(* massMain opens the parts one by one. *)
LEMMA OpeningSteps ==
    ASSUME LifeInv,
           \/ openStateDatabase \/ setupBlockDB \/ newServer \/ LoadWallet
           \/ StartWallet \/ onLoaded \/ addInterruptHandler
    PROVE  LifeInv'
<1> USE DEF LifeInv, Shape, OpeningInv, ServingInv, ExitInv, Opening, Serving, Ended, Stopping,
            AllDbs, Done, Untouched, catchVars, loadVars, MainFails
<1>1. CASE openStateDatabase
  BY <1>1 DEF openStateDatabase
<1>2. CASE setupBlockDB
  BY <1>2 DEF setupBlockDB
<1>3. CASE newServer
  BY <1>3 DEF newServer
<1>4. CASE LoadWallet
  BY <1>4 DEF LoadWallet
<1>5. CASE StartWallet
  BY <1>5 DEF StartWallet
<1>6. CASE onLoaded
  BY <1>6 DEF onLoaded
<1>7. CASE addInterruptHandler
  BY <1>7 DEF addInterruptHandler
<1> QED
  BY <1>1, <1>2, <1>3, <1>4, <1>5, <1>6, <1>7

(* massMain after it has started the handler. *)
LEMMA ServingSteps ==
    ASSUME LifeInv, ServerStart \/ ServerAdd \/ StartMonitor \/ MainReturns
    PROVE  LifeInv'
<1> USE DEF LifeInv, Shape, OpeningInv, ServingInv, ExitInv, Opening, Serving, Ended, Stopping,
            AllDbs, Done, Untouched, catchVars, loadVars
<1>1. CASE ServerStart
  BY <1>1 DEF ServerStart
<1>2. CASE ServerAdd
  BY <1>2 DEF ServerAdd
<1>3. CASE StartMonitor
  BY <1>3 DEF StartMonitor
<1>4. CASE MainReturns
  BY <1>4 DEF MainReturns
<1> QED
  BY <1>1, <1>2, <1>3, <1>4

(* Signals and requests to quit; main may be anywhere. *)
LEMMA SignalSteps ==
    ASSUME LifeInv, Signal \/ QuitClient \/ quitClient
    PROVE  LifeInv'
<1> USE DEF LifeInv, Shape, OpeningInv, ServingInv, ExitInv, Opening, Serving, Ended, Stopping,
            AllDbs, Done, Untouched, loadVars, Alive
<1>1. CASE Signal
  BY <1>1 DEF Signal
<1>2. CASE QuitClient
  BY <1>2 DEF QuitClient
<1>3. CASE quitClient
  BY <1>3 DEF quitClient
<1> QED
  BY <1>1, <1>2, <1>3

(* The interrupt handler. *)
LEMMA CatcherStepsKeep ==
    ASSUME LifeInv, CatcherSteps
    PROVE  LifeInv'
<1> USE DEF LifeInv, Shape, OpeningInv, ServingInv, ExitInv, Opening, Serving, Ended, Stopping,
            AllDbs, Done, Untouched, loadVars, Alive
<1>1. CASE TakeSignal
  <2>1. CASE isShutdown
    BY <1>1, <2>1 DEF TakeSignal
  <2>2. CASE ~isShutdown /\ callbacks = 0
    <3>1. /\ Alive /\ catcher = "select" /\ isShutdown' /\ catcher' = "select"
          /\ notices' = notices + 1
          /\ UNCHANGED <<main, loadVars, server, callbacks, monitor>>
      BY <1>1, <2>2 DEF TakeSignal
    <3>2. unheard'
      BY <1>1, <2>2, Zenon DEF TakeSignal
    <3> QED
      BY <2>2, <3>1, <3>2
  <2>3. CASE ~isShutdown /\ callbacks = 1
    <3>1. /\ Alive /\ catcher = "select" /\ isShutdown' /\ catcher' = "stop"
          /\ notices' = notices
          /\ UNCHANGED <<main, loadVars, server, callbacks, monitor>>
      BY <1>1, <2>3 DEF TakeSignal
    <3>2. callbacks # 0
      BY <2>3
    <3>3. unheard' <=> unheard
      BY <1>1, <3>2, Zenon DEF TakeSignal
    <3> QED
      BY <2>3, <3>1, <3>3
  <2> QED
    BY <2>1, <2>2, <2>3
<1>2. CASE TakeHandler
  BY <1>2 DEF TakeHandler
<1>3. CASE ServerStop
  BY <1>3 DEF ServerStop
<1>4. CASE UnloadApi
  BY <1>4 DEF UnloadApi
<1>5. CASE UnloadWallet
  BY <1>5 DEF UnloadWallet
<1>6. CASE WaitForShutdown
  BY <1>6 DEF WaitForShutdown
<1>7. CASE CloseDbs
  BY <1>7 DEF CloseDbs
<1>8. CASE TellClosed
  BY <1>8 DEF TellClosed
<1> QED
  BY <1>1, <1>2, <1>3, <1>4, <1>5, <1>6, <1>7, <1>8 DEF CatcherSteps

(* What runs where, for any number of signals and requests to quit. *)
THEOREM LifeInvariant == LifeSpec => []LifeInv
<1>1. LifeInv /\ [LifeNext]_lifeVars => LifeInv'
  <2> SUFFICES ASSUME LifeInv, [LifeNext]_lifeVars
               PROVE  LifeInv'
    OBVIOUS
  <2>1. CASE UNCHANGED lifeVars
    BY <2>1 DEF lifeVars, LifeInv, Shape, OpeningInv, ServingInv, ExitInv, Done, Untouched
  <2>2. CASE LifeNext
    BY <2>2, OpeningSteps, ServingSteps, SignalSteps, CatcherStepsKeep DEF LifeNext, MainSteps
  <2> QED
    BY <2>1, <2>2
<1> QED
  BY <1>1, InitLifeInv, PTL DEF LifeSpec

(* The safety half of ShutdownOrderly: no database is closed under a       *)
(* component that uses it, and a process that exits has closed them all,   *)
(* unless the signal came before the handler's callback.                   *)
THEOREM ClosesInOrder == LifeSpec => []ClosedInOrder
<1>1. LifeInv => ClosedInOrder
  BY DEF LifeInv, Shape, OpeningInv, ServingInv, ExitInv, Opening, Serving, Ended, Stopping,
         AllDbs, Done, Untouched, Alive, ClosedInOrder
<1> QED
  BY <1>1, LifeInvariant, PTL


(***************************************************************************)
(* BatchBinding: the plots of a list                                       *)
(***************************************************************************)
(* The sets of an order by which a place is counted: their sizes differ    *)
(* when one of two elements is in the set of the other and not vice versa. *)
LEMMA CountsDiffer ==
    ASSUME NEW S, IsFiniteSet(S), NEW A \in SUBSET S, NEW B \in SUBSET A, NEW x \in A, x \notin B
    PROVE  /\ Cardinality(A) \in 1..Cardinality(S) /\ Cardinality(B) \in Nat
           /\ Cardinality(B) < Cardinality(A)
<1>1. IsFiniteSet(A) /\ Cardinality(A) <= Cardinality(S)
  BY FS_Subset
<1>2. IsFiniteSet(B) /\ Cardinality(B) <= Cardinality(A) /\ (Cardinality(A) = Cardinality(B) => A = B)
  BY <1>1, FS_Subset
<1>3. Cardinality(A) \in Nat /\ Cardinality(B) \in Nat /\ Cardinality(S) \in Nat
  BY <1>1, <1>2, FS_CardinalityType
<1>4. Cardinality(A) # Cardinality(B)
  BY <1>2
<1>5. Cardinality(B) < Cardinality(A)
  BY <1>2, <1>3, <1>4
<1> QED BY <1>1, <1>3, <1>5

(* Different places for the elements of a finite set: every place is taken. *)
LEMMA EveryPlace ==
    ASSUME NEW S, IsFiniteSet(S), NEW r \in [S -> 1..Cardinality(S)],
           \A x, y \in S : r[x] = r[y] => x = y
    PROVE  \A k \in 1..Cardinality(S) : \E x \in S : r[x] = k
<1> DEFINE n == Cardinality(S)
           T == 1..n
<1>1. n \in Nat
  BY FS_CardinalityType
<1>2. IsFiniteSet(T) /\ Cardinality(T) = n
  <2>1. IsFiniteSet(1..n) /\ Cardinality(1..n) = IF 1 > n THEN 0 ELSE n - 1 + 1
    <3> HIDE DEF n
    <3> QED BY <1>1, FS_Interval
  <2> HIDE DEF n
  <2> QED BY <1>1, <2>1
<1>3. r \in Injection(S, T)
  BY DEF Injection, IsInjective
<1>4. r \in Surjection(S, T)
  <2> HIDE DEF T
  <2> QED BY <1>2, <1>3, FS_Injection
<1> QED BY <1>4 DEF Surjection

(* Nth lists a set of indices. *)
LEMMA NthLists ==
    ASSUME NEW n \in Nat, NEW S \in SUBSET (1..n)
    PROVE  /\ IsFiniteSet(S)
           /\ \A k \in 1..Cardinality(S) : Nth(S, k) \in S
           /\ \A k, l \in 1..Cardinality(S) : Nth(S, k) = Nth(S, l) => k = l
           /\ \A i \in S : \E k \in 1..Cardinality(S) : Nth(S, k) = i
<1> DEFINE below(i) == {j \in S : j <= i}
           r == [i \in S |-> Cardinality(below(i))]
           m == Cardinality(S)
<1>1. IsFiniteSet(S)
  <2>1. IsFiniteSet(1..n)
    BY FS_Interval
  <2> DEFINE D == 1..n
  <2> HIDE DEF D
  <2>2. S \in SUBSET D /\ IsFiniteSet(D)
    BY <2>1 DEF D
  <2> QED BY <2>2, FS_Subset
<1>2. \A i \in S : i \in Nat
  OBVIOUS
<1>3. \A i \in S : Cardinality(below(i)) \in 1..m
  <2> SUFFICES ASSUME NEW i \in S PROVE Cardinality(below(i)) \in 1..m
    OBVIOUS
  <2>1. i \in below(i) /\ below(i) \in SUBSET S /\ {} \in SUBSET below(i) /\ i \notin {}
    BY <1>2
  <2> DEFINE A == below(i)
  <2> HIDE DEF A
  <2>2. i \in A /\ A \in SUBSET S /\ {} \in SUBSET A
    BY <2>1 DEF A
  <2>3. Cardinality(A) \in 1..Cardinality(S)
    BY <1>1, <2>2, CountsDiffer
  <2> QED BY <2>3 DEF A
<1>4. \A i, j \in S : i < j => Cardinality(below(i)) < Cardinality(below(j))
  <2> SUFFICES ASSUME NEW i \in S, NEW j \in S, i < j PROVE Cardinality(below(i)) < Cardinality(below(j))
    OBVIOUS
  <2> DEFINE A == below(j)
             B == below(i)
  <2>1. A \in SUBSET S /\ B \in SUBSET A /\ j \in A /\ j \notin B
    <3>1. i \in Nat /\ j \in Nat /\ j <= j /\ ~(j <= i)
      BY <1>2
    <3>2. \A x \in S : x <= i => x <= j
      BY <1>2, <3>1
    <3> QED BY <3>1, <3>2
  <2> HIDE DEF A, B
  <2>2. Cardinality(B) < Cardinality(A)
    BY <1>1, <2>1, CountsDiffer
  <2> QED BY <2>2 DEF A, B
<1>5. \A i, j \in S : Cardinality(below(i)) = Cardinality(below(j)) => i = j
  <2> SUFFICES ASSUME NEW i \in S, NEW j \in S, i # j PROVE Cardinality(below(i)) # Cardinality(below(j))
    OBVIOUS
  <2>0. m \in Nat
    BY <1>1, FS_CardinalityType
  <2>1. Cardinality(below(i)) \in Nat /\ Cardinality(below(j)) \in Nat
    <3> HIDE DEF below, m
    <3> QED BY <1>3, <2>0
  <2>2. i < j \/ j < i
    BY <1>2
  <2> HIDE DEF below
  <2> QED BY <1>4, <2>1, <2>2
<1>6. \A k \in 1..m : \E i \in S : Cardinality(below(i)) = k
  <2>1. r \in [S -> 1..m] /\ \A x, y \in S : r[x] = r[y] => x = y
    <3> HIDE DEF below
    <3> QED BY <1>3, <1>5
  <2>2. \A k \in 1..m : \E x \in S : r[x] = k
    <3> HIDE DEF r
    <3> QED BY <1>1, <2>1, EveryPlace
  <2> HIDE DEF below
  <2> QED BY <2>2
<1>7. \A k : Nth(S, k) = CHOOSE i \in S : Cardinality(below(i)) = k
  BY DEF Nth
<1> HIDE DEF below
<1>8. \A k \in 1..m : Nth(S, k) \in S /\ Cardinality(below(Nth(S, k))) = k
  BY <1>6, <1>7
<1>9. \A i \in S : Nth(S, Cardinality(below(i))) = i
  BY <1>3, <1>5, <1>8
<1> QED BY <1>1, <1>3, <1>8, <1>9

(* What a binding list holds. *)
Plots == [target : Target, type : {"m1", "m2"}, size : Nat]
EachOnce(plots) == \A i, j \in 1..Len(plots) : plots[i].target = plots[j].target => i = j

(* A function on 1..n is a sequence of length n. *)
LEMMA FcnSeq ==
    ASSUME NEW n \in Nat, NEW T, NEW f \in [1..n -> T]
    PROVE  f \in Seq(T) /\ Len(f) = n
OBVIOUS

(* At takes the elements of a sequence at so many places, each once. *)
LEMMA AtIs ==
    ASSUME NEW T, NEW s \in Seq(T), NEW S \in SUBSET (1..Len(s))
    PROVE  /\ At(s, S) \in Seq(T)
           /\ \A k \in 1..Len(At(s, S)) : Nth(S, k) \in S /\ At(s, S)[k] = s[Nth(S, k)]
           /\ \A k, l \in 1..Len(At(s, S)) : Nth(S, k) = Nth(S, l) => k = l
<1> DEFINE n == Cardinality(S)
           a == At(s, S)
           len == Len(s)
<1>1. len \in Nat /\ \A i \in 1..len : s[i] \in T
  OBVIOUS
<1>2. S \in SUBSET (1..len)
  OBVIOUS
<1> HIDE DEF len
<1>3. /\ IsFiniteSet(S) /\ \A k \in 1..Cardinality(S) : Nth(S, k) \in S
      /\ \A k, l \in 1..Cardinality(S) : Nth(S, k) = Nth(S, l) => k = l
  BY ONLY <1>1, <1>2, NthLists
<1>4. n \in Nat
  BY <1>3, FS_CardinalityType
<1>5. a = [k \in 1..n |-> s[Nth(S, k)]]
  BY DEF At
<1> HIDE DEF n, a
<1>6. a \in [1..n -> T]
  BY <1>1, <1>2, <1>3, <1>5 DEF n
<1>7. a \in Seq(T) /\ Len(a) = n
  BY <1>4, <1>6, FcnSeq
<1>8. \A k \in 1..n : a[k] = s[Nth(S, k)]
  BY <1>5
<1> QED BY <1>3, <1>7, <1>8 DEF n, a

(* RemoveDuplicate keeps one plot of every target. *)
LEMMA RemoveDuplicateIs ==
    ASSUME NEW plots \in Seq(Plots)
    PROVE  RemoveDuplicate(plots) \in Seq(Plots) /\ EachOnce(RemoveDuplicate(plots))
<1> DEFINE S == {i \in DOMAIN plots : \A j \in 1..(i - 1) : plots[j].target # plots[i].target}
           r == At(plots, S)
<1>1. S \in SUBSET (1..Len(plots)) /\ Len(plots) \in Nat
  OBVIOUS
<1>2. \A i, j \in S : plots[i].target = plots[j].target => i = j
  <2> SUFFICES ASSUME NEW i \in S, NEW j \in S, i < j PROVE plots[i].target # plots[j].target
    BY <1>1
  <2>1. i \in 1..(j - 1)
    BY <1>1
  <2> QED BY <2>1
<1>3. RemoveDuplicate(plots) = r
  BY DEF RemoveDuplicate
<1> HIDE DEF S
<1>4. /\ r \in Seq(Plots)
      /\ \A k \in 1..Len(r) : Nth(S, k) \in S /\ r[k] = plots[Nth(S, k)]
      /\ \A k, l \in 1..Len(r) : Nth(S, k) = Nth(S, l) => k = l
  BY <1>1, AtIs
<1>5. EachOnce(r)
  <2> SUFFICES ASSUME NEW k \in 1..Len(r), NEW l \in 1..Len(r), r[k].target = r[l].target PROVE k = l
    BY DEF EachOnce
  <2> HIDE DEF r
  <2>1. Nth(S, k) = Nth(S, l)
    BY <1>2, <1>4
  <2> QED BY <1>4, <2>1
<1> QED BY <1>3, <1>4, <1>5

(* The files of getbindinglist as plots. *)
LEMMA PlotsOfIs ==
    ASSUME NEW found \in SUBSET (DOMAIN Disk), NEW type \in {"m1", "m2"}
    PROVE  PlotsOf(At(Disk, found), type) \in Seq(Plots)
<1> DEFINE f == At(Disk, found)
           n == Len(f)
<1>1. Disk \in Seq(DiskFile) /\ found \in SUBSET (1..Len(Disk))
  BY DiskAssumption
<1>2. f \in Seq(DiskFile)
  BY <1>1, AtIs
<1>3. n \in Nat /\ DOMAIN f = 1..n /\ \A i \in 1..n : f[i] \in DiskFile
  <2> HIDE DEF f
  <2> QED BY <1>2
<1>4. PlotsOf(f, type) = [i \in 1..n |-> Plot(f[i].target, type, f[i].size)]
  <2> HIDE DEF f, n
  <2> QED BY <1>3 DEF PlotsOf
<1> HIDE DEF f, n
<1>5. \A i \in 1..n : Plot(f[i].target, type, f[i].size) \in Plots
  BY <1>3 DEF DiskFile, Plot, Plots
<1>6. PlotsOf(f, type) \in [1..n -> Plots]
  BY <1>4, <1>5
<1>7. PlotsOf(f, type) \in Seq(Plots)
  BY <1>3, <1>6, FcnSeq
<1> QED BY <1>7 DEF f

(* getOfflineBindingList finds plots, also when it is interrupted. *)
LEMMA FoundIs ==
    ASSUME NEW type \in {"m1", "m2"}, NEW flag, NEW interrupted
    PROVE  getOfflineBindingList(type, flag, interrupted) \in Seq(Plots)
<1>1. <<>> \in Seq(Plots)
  OBVIOUS
<1>2. getOfflineBindingListV1(flag) \in Seq(Plots)
  BY PlotsOfIs DEF getOfflineBindingListV1
<1>3. getOfflineBindingListV2(flag) \in Seq(Plots)
  BY PlotsOfIs DEF getOfflineBindingListV2
<1> QED BY <1>1, <1>2, <1>3 DEF getOfflineBindingList

(***************************************************************************)
(* The invariant                                                           *)
(***************************************************************************)
Once(s) == \A i, j \in 1..Len(s) : s[i] = s[j] => i = j
Fields ==
    {"pc", "isCheck", "password", "plots", "filtered", "unbound", "taken", "outputs", "unsigned", "retry",
     "txids", "sent", "total", "run", "coinbase", "nonces", "keys"}

(* What was found unbound of the plots looked at so far. *)
Filtered(k, b) ==
    /\ DOMAIN k = Fields
    /\ k.plots \in Seq(Plots) /\ EachOnce(k.plots)
    /\ k.unbound \in Seq(Target) /\ Once(k.unbound)
    /\ k.filtered \in 0..Len(k.plots)
    /\ \A i \in 1..Len(k.unbound) : \E j \in 1..k.filtered : k.unbound[i] = k.plots[j].target
    /\ \A j \in 1..k.filtered : k.plots[j].target \in b \cup ToSet(k.unbound)
    /\ k.pc \in {"price", "prepare", "create", "send", "wait", "pkNonce", "pkCreate", "pkSend"} =>
        k.filtered = Len(k.plots)

(* The outputs are the last targets taken. *)
Batched(k) ==
    /\ k.outputs \in Seq(Target) /\ k.taken \in 0..Len(k.unbound)
    /\ k.pc \in {"create", "send"} =>
        /\ Len(k.outputs) <= k.taken
        /\ \A i \in 1..Len(k.outputs) : k.outputs[i] = k.unbound[k.taken - Len(k.outputs) + i]

TargetsOf(txs) == UNION {tx.targets : tx \in txs}
Behind(k) == IF k.pc \in {"create", "send"} THEN k.taken - Len(k.outputs) ELSE k.taken
Taken(k) == {k.unbound[i] : i \in 1..Behind(k)}

(* The targets of the transactions sent are counted once and are among     *)
(* those taken before the outputs.                                         *)
Counted(k) ==
    /\ k.total \in Nat /\ IsFiniteSet(TargetsOf(k.sent)) /\ k.total = Cardinality(TargetsOf(k.sent))
    /\ \A tx, ty \in k.sent : tx # ty => tx.targets \cap ty.targets = {}
    /\ k.pc \notin Over => TargetsOf(k.sent) \subseteq Taken(k)

(* A transaction that is no longer waited for has left the pool, and one   *)
(* that sets a coinbase leaves it for the chain only.                      *)
Waited(c, k, pl, ch) ==
    /\ k.txids \subseteq k.sent
    /\ \A tx \in k.sent :
        /\ tx.by = c
        /\ tx \in pl => tx \in k.txids
        /\ tx.key # "none" => tx.targets = {} /\ tx \in pl \cup ch

(* Every pool key that is done has its transaction. *)
Sets(tx, k, p) == tx.key = p /\ tx.nonce = k.nonces[p] /\ tx.coinbase = k.coinbase
Keyed(k) ==
    /\ k.keys \subseteq DOMAIN k.nonces /\ DOMAIN k.nonces \subseteq PoolKey
    /\ \A p \in DOMAIN k.nonces : k.nonces[p] \in Nat
    /\ \A p \in DOMAIN k.nonces \ k.keys : \E tx \in k.sent : Sets(tx, k, p)
    /\ k.pc \in {"filter", "price", "prepare", "create", "send", "wait", "done"} => k.keys = {}

Finished(k, b) ==
    k.pc = "done" => k.txids = {} /\ \A i \in 1..Len(k.plots) : k.plots[i].target \in b \cup TargetsOf(k.sent)

ClientOK(c, k, b, pl, ch) ==
    /\ Filtered(k, b) /\ Batched(k) /\ Counted(k)
    /\ Waited(c, k, pl, ch) /\ Keyed(k) /\ Finished(k, b)

(* What the node has mined is bound; of each pool key it holds the last    *)
(* coinbase, and in the pool at most the transaction with the next nonce.  *)
Follows(at, tx) == at = [nonce |-> tx.nonce, coinbase |-> tx.coinbase] \/ at.nonce > tx.nonce
NodeInv ==
    /\ \A tx \in chain : tx.targets \subseteq bound
    /\ \A tx \in pool \cup chain : tx.key # "none" => tx.key \in PoolKey /\ tx.nonce \in Nat /\ tx.targets = {}
    /\ DOMAIN coinbaseOf = PoolKey /\ \A p \in PoolKey : coinbaseOf[p].nonce \in Nat
    /\ \A tx \in pool : tx.key # "none" => tx.nonce = coinbaseOf[tx.key].nonce + 1
    /\ \A tx, ty \in pool : tx.key # "none" /\ tx.key = ty.key => tx = ty
    /\ \A tx \in chain : tx.key # "none" => Follows(coinbaseOf[tx.key], tx)

BatchInv ==
    /\ listFile \in Seq(Plots)
    /\ DOMAIN cmd = Client
    /\ NodeInv
    /\ \A c \in Client : ClientOK(c, cmd[c], bound, pool, chain)

(* It implies what the command is to report. *)
LEMMA InvCounts == BatchInv => CountsWhatIsBound
<1> SUFFICES ASSUME BatchInv, NEW c \in Client
             PROVE  LET k == cmd[c]
                    IN  /\ k.total = Cardinality(UNION {tx.targets : tx \in k.sent})
                        /\ \A tx, ty \in k.sent : tx # ty => tx.targets \cap ty.targets = {}
                        /\ k.pc = "done" =>
                            /\ \A i \in DOMAIN k.plots :
                                  \/ k.plots[i].target \in bound
                                  \/ \E tx \in k.sent : Lost(tx) /\ k.plots[i].target \in tx.targets
                            /\ \A p \in DOMAIN k.nonces :
                                  \/ coinbaseOf[p] = [nonce |-> k.nonces[p], coinbase |-> k.coinbase]
                                  \/ coinbaseOf[p].nonce > k.nonces[p]
  BY DEF CountsWhatIsBound
<1> DEFINE k == cmd[c]
<1>1. ClientOK(c, k, bound, pool, chain) /\ NodeInv
  BY DEF BatchInv
<1> HIDE DEF k
<1>2. k.total = Cardinality(UNION {tx.targets : tx \in k.sent})
      /\ \A tx, ty \in k.sent : tx # ty => tx.targets \cap ty.targets = {}
  BY <1>1 DEF ClientOK, Counted, TargetsOf
<1>3. ASSUME k.pc = "done", NEW i \in DOMAIN k.plots, k.plots[i].target \notin bound
      PROVE  \E tx \in k.sent : Lost(tx) /\ k.plots[i].target \in tx.targets
  <2>1. i \in 1..Len(k.plots)
    BY <1>1 DEF ClientOK, Filtered
  <2>2. k.txids = {} /\ k.plots[i].target \in TargetsOf(k.sent)
    BY <1>1, <1>3, <2>1 DEF ClientOK, Finished
  <2>3. PICK tx \in k.sent : k.plots[i].target \in tx.targets
    BY <2>2 DEF TargetsOf
  <2>4. tx \notin pool
    BY <1>1, <2>2 DEF ClientOK, Waited
  <2>5. tx \notin chain
    BY <1>1, <1>3, <2>3 DEF NodeInv
  <2> QED BY <2>3, <2>4, <2>5 DEF Lost
<1>4. ASSUME k.pc = "done", NEW p \in DOMAIN k.nonces
      PROVE  \/ coinbaseOf[p] = [nonce |-> k.nonces[p], coinbase |-> k.coinbase]
             \/ coinbaseOf[p].nonce > k.nonces[p]
  <2>1. p \in PoolKey /\ p \notin k.keys
    BY <1>1, <1>4 DEF ClientOK, Keyed
  <2>2. PICK tx \in k.sent : Sets(tx, k, p)
    BY <1>1, <2>1 DEF ClientOK, Keyed
  <2>3. tx.key = p /\ tx.nonce = k.nonces[p] /\ tx.coinbase = k.coinbase
    BY <2>2 DEF Sets
  <2>4. tx.key # "none"
    BY <2>1, <2>3, BatchAssumption
  <2>5. k.txids = {}
    BY <1>1, <1>4 DEF ClientOK, Finished
  <2>6. tx \in chain
    BY <1>1, <2>4, <2>5 DEF ClientOK, Waited
  <2>7. Follows(coinbaseOf[p], tx)
    BY <1>1, <2>3, <2>4, <2>6 DEF NodeInv
  <2> QED BY <2>3, <2>7 DEF Follows
<1> QED BY <1>2, <1>3, <1>4 DEF k

(***************************************************************************)
(* Sequences                                                               *)
(***************************************************************************)
(* How many places there are up to n. *)
LEMMA UpTo ==
    ASSUME NEW n \in Nat
    PROVE  IsFiniteSet(1..n) /\ Cardinality(1..n) = n
<1>1. IsFiniteSet(1..n) /\ Cardinality(1..n) = IF 1 > n THEN 0 ELSE n - 1 + 1
  BY FS_Interval
<1> DEFINE z == Cardinality(1..n)
<1>2. z = IF 1 > n THEN 0 ELSE n - 1 + 1
  BY <1>1
<1> HIDE DEF z
<1>3. z = n
  BY <1>2
<1> QED BY <1>1, <1>3 DEF z

(* Places and elements of a sequence. *)
LEMMA SeqIs ==
    ASSUME NEW T, NEW s \in Seq(T)
    PROVE  /\ Len(s) \in Nat /\ DOMAIN s = 1..Len(s) /\ \A i \in 1..Len(s) : s[i] \in T
           /\ ToSet(s) = {s[i] : i \in 1..Len(s)} /\ ToSet(s) \in SUBSET T
BY DEF ToSet

(* A sequence without repetition has as many elements as places. *)
LEMMA OnceCounts ==
    ASSUME NEW T, NEW s \in Seq(T), Once(s)
    PROVE  IsFiniteSet(ToSet(s)) /\ Cardinality(ToSet(s)) = Len(s)
<1> DEFINE n == Len(s)
           D == 1..n
<1>1. n \in Nat /\ s \in [D -> ToSet(s)] /\ ToSet(s) = {s[i] : i \in D}
  BY SeqIs
<1>2. IsFiniteSet(D) /\ Cardinality(D) = n
  <2> HIDE DEF n
  <2> QED BY <1>1, UpTo
<1>3. \A i, j \in D : s[i] = s[j] => i = j
  BY DEF Once
<1> HIDE DEF D, n
<1>4. s \in Bijection(D, ToSet(s))
  BY <1>1, <1>3 DEF Bijection, Injection, Surjection, IsInjective
<1>5. IsFiniteSet(ToSet(s)) /\ Cardinality(ToSet(s)) = Cardinality(D)
  BY <1>2, <1>4, FS_Bijection DEF ExistsBijection
<1> QED BY <1>2, <1>5 DEF n

(* One sequence after another. *)
LEMMA ConcatIs ==
    ASSUME NEW T, NEW s \in Seq(T), NEW t \in Seq(T)
    PROVE  /\ s \o t \in Seq(T) /\ Len(s \o t) = Len(s) + Len(t)
           /\ \A i \in 1..Len(s \o t) :
                 (s \o t)[i] = IF i <= Len(s) THEN s[i] ELSE t[i - Len(s)]
           /\ ToSet(s \o t) = ToSet(s) \cup ToSet(t)
           /\ Once(s) /\ Once(t) /\ ToSet(s) \cap ToSet(t) = {} => Once(s \o t)
<1> DEFINE m == Len(s)
           n == Len(t)
           u == s \o t
<1>1. m \in Nat /\ n \in Nat /\ u \in Seq(T) /\ Len(u) = m + n
  OBVIOUS
<1>2. \A i \in 1..(m + n) : u[i] = IF i <= m THEN s[i] ELSE t[i - m]
  OBVIOUS
<1>3. /\ ToSet(s) = {s[i] : i \in 1..m} /\ ToSet(t) = {t[i] : i \in 1..n}
      /\ ToSet(u) = {u[i] : i \in 1..(m + n)}
  BY <1>1, SeqIs
<1> HIDE DEF m, n, u
<1>4. \A i \in 1..m : i \in 1..(m + n) /\ u[i] = s[i]
  BY <1>1, <1>2
<1>5. \A i \in 1..n : m + i \in 1..(m + n) /\ u[m + i] = t[i]
  <2> SUFFICES ASSUME NEW i \in 1..n PROVE m + i \in 1..(m + n) /\ u[m + i] = t[i]
    OBVIOUS
  <2>1. m + i \in 1..(m + n) /\ ~(m + i <= m) /\ (m + i) - m = i
    BY <1>1
  <2> QED BY <1>2, <2>1
<1>6. \A i \in 1..(m + n) : i \in 1..m \/ (i - m \in 1..n /\ u[i] = t[i - m])
  <2> SUFFICES ASSUME NEW i \in 1..(m + n), ~(i <= m) PROVE i - m \in 1..n /\ u[i] = t[i - m]
    BY <1>1
  <2> QED BY <1>1, <1>2
<1>7. ToSet(u) = ToSet(s) \cup ToSet(t)
  BY <1>3, <1>4, <1>5, <1>6
<1>8. ASSUME Once(s), Once(t), ToSet(s) \cap ToSet(t) = {}, NEW i \in 1..(m + n), NEW j \in 1..(m + n), u[i] = u[j]
      PROVE  i = j
  <2>1. CASE i \in 1..m /\ j \in 1..m
    BY <1>4, <1>8, <2>1 DEF Once, m
  <2>2. CASE i \in 1..m /\ j \notin 1..m
    BY <1>3, <1>4, <1>6, <1>8, <2>2
  <2>3. CASE i \notin 1..m /\ j \in 1..m
    BY <1>3, <1>4, <1>6, <1>8, <2>3
  <2>4. CASE i \notin 1..m /\ j \notin 1..m
    <3>1. i - m \in 1..n /\ j - m \in 1..n /\ t[i - m] = t[j - m]
      BY <1>6, <1>8, <2>4
    <3>2. i - m = j - m
      BY <1>8, <3>1 DEF Once, n
    <3> QED BY <1>1, <3>2
  <2> QED BY <2>1, <2>2, <2>3, <2>4
<1>9. Once(s) /\ Once(t) /\ ToSet(s) \cap ToSet(t) = {} => Once(u)
  BY <1>1, <1>8 DEF Once
<1> QED BY <1>1, <1>2, <1>7, <1>9 DEF m, n, u

(* filterUnboundTargets lists what is not bound, each target once. *)
LEMMA FilterIs ==
    ASSUME NEW targets \in SUBSET Target, IsFiniteSet(targets)
    PROVE  /\ filterUnboundTargets(targets) \in Seq(Target)
           /\ Once(filterUnboundTargets(targets))
           /\ ToSet(filterUnboundTargets(targets)) = targets \ bound
<1> DEFINE S == targets \ bound
           n == Cardinality(S)
           D == 1..n
           s == SetToSeq(S)
<1>1. filterUnboundTargets(targets) = s
  <2>1. S = {t \in targets : CheckTargetBinding(targets)[t] = 0}
    BY DEF CheckTargetBinding
  <2> QED BY <2>1 DEF filterUnboundTargets
<1>2. IsFiniteSet(S) /\ S \in SUBSET Target
  BY FS_Subset
<1>3. n \in Nat /\ ExistsBijection(1..n, S)
  BY <1>2, FS_CardinalityType
<1>4. PICK f \in [1..n -> S] : IsInjective(f)
  BY <1>3 DEF ExistsBijection, Bijection, Injection
<1>5. s \in [D -> S] /\ IsInjective(s)
  BY <1>4 DEF SetToSeq
<1>6. IsFiniteSet(D) /\ Cardinality(D) = n
  <2> HIDE DEF n
  <2> QED BY <1>3, UpTo
<1> HIDE DEF S, s
<1>7. s \in Seq(S) /\ Len(s) = n
  <2> HIDE DEF n
  <2> QED BY <1>3, <1>5, FcnSeq
<1>8. s \in Seq(Target)
  BY <1>2, <1>7
<1>9. Once(s)
  BY <1>5, <1>7 DEF Once, IsInjective
<1>10. ToSet(s) = S
  <2> HIDE DEF D, n
  <2>1. s \in Injection(D, S)
    BY <1>5 DEF Injection
  <2>2. s \in Surjection(D, S)
    BY <1>2, <1>6, <2>1, FS_Injection DEF n
  <2>3. \A x \in S : \E i \in D : s[i] = x
    BY <2>2 DEF Surjection
  <2> QED BY <1>5, <2>3 DEF ToSet
<1> QED BY <1>1, <1>8, <1>9, <1>10 DEF S

(***************************************************************************)
(* What a command keeps                                                    *)
(***************************************************************************)
(* A command that others do not touch: more is bound, none of its own      *)
(* transactions enters the pool, and those without targets stay in sight.  *)
LEMMA OtherStays ==
    ASSUME NEW c, NEW k, NEW b, NEW pl, NEW ch, NEW b2, NEW pl2, NEW ch2,
           ClientOK(c, k, b, pl, ch), b \subseteq b2,
           \A tx \in pl2 : tx.by = c => tx \in pl,
           \A tx \in pl \cup ch : tx.targets = {} => tx \in pl2 \cup ch2
    PROVE  ClientOK(c, k, b2, pl2, ch2)
<1>1. Filtered(k, b) /\ Batched(k) /\ Counted(k) /\ Waited(c, k, pl, ch) /\ Keyed(k) /\ Finished(k, b)
  BY DEF ClientOK
<1>2. Filtered(k, b2)
  BY <1>1 DEF Filtered
<1>3. Waited(c, k, pl2, ch2)
  BY <1>1 DEF Waited
<1>4. Finished(k, b2)
  BY <1>1 DEF Finished
<1> QED BY <1>1, <1>2, <1>3, <1>4 DEF ClientOK

(* The fields of an ended command. *)
LEMMA LeftDone ==
    ASSUME NEW rec, rec.pc = "done", NEW k, k = Left(rec)
    PROVE  /\ DOMAIN k = Fields /\ k.pc = "done" /\ k.plots = rec.plots /\ k.sent = rec.sent
           /\ k.total = rec.total /\ k.nonces = rec.nonces /\ k.coinbase = rec.coinbase
           /\ k.filtered = 0 /\ k.unbound = <<>> /\ k.taken = 0 /\ k.outputs = <<>>
           /\ k.txids = {} /\ k.keys = {}
<1>1. k = [NoCmd EXCEPT !.pc = "done", !.plots = rec.plots, !.sent = rec.sent, !.total = rec.total,
                        !.nonces = rec.nonces, !.coinbase = rec.coinbase]
  BY DEF Left
<1> QED BY <1>1 DEF NoCmd, Fields

(* A command that ends without a report forgets the rest. *)
LEMMA LeftEnds ==
    ASSUME NEW rec, rec.pc \in Over \ {"done"}, NEW k, k = Left(rec)
    PROVE  /\ DOMAIN k = Fields /\ k.pc = rec.pc /\ k.plots = <<>> /\ k.sent = {}
           /\ k.total = 0 /\ k.nonces = <<>>
           /\ k.filtered = 0 /\ k.unbound = <<>> /\ k.taken = 0 /\ k.outputs = <<>>
           /\ k.txids = {} /\ k.keys = {}
<1>1. k = [NoCmd EXCEPT !.pc = rec.pc]
  BY DEF Left
<1> QED BY <1>1 DEF NoCmd, Fields

(* A command that goes on keeps its state. *)
LEMMA LeftRuns ==
    ASSUME NEW rec, rec.pc \notin Over
    PROVE  Left(rec) = rec
BY DEF Left, Over

(* Nothing sent, nothing asked for. *)
LEMMA NothingOK ==
    ASSUME NEW c, NEW k, NEW b, NEW pl, NEW ch, DOMAIN k = Fields,
           k.pc \notin {"done", "create", "send"},
           k.plots \in Seq(Plots), EachOnce(k.plots), k.sent = {}, k.total = 0, k.nonces = <<>>,
           k.filtered = 0, k.unbound = <<>>, k.taken = 0, k.outputs = <<>>, k.txids = {}, k.keys = {},
           k.pc = "filter" \/ k.plots = <<>>
    PROVE  ClientOK(c, k, b, pl, ch)
<1>1. Filtered(k, b)
  BY DEF Filtered, Once
<1>2. Batched(k)
  BY DEF Batched
<1>3. TargetsOf(k.sent) = {}
  BY DEF TargetsOf
<1>4. Counted(k)
  <2>1. IsFiniteSet(TargetsOf(k.sent)) /\ Cardinality(TargetsOf(k.sent)) = 0
    BY <1>3, FS_EmptySet
  <2>2. TargetsOf(k.sent) \subseteq Taken(k)
    BY <1>3
  <2>3. k.total \in Nat /\ k.total = Cardinality(TargetsOf(k.sent))
    BY <2>1
  <2> QED BY <2>1, <2>2, <2>3 DEF Counted
<1>5. Waited(c, k, pl, ch)
  BY DEF Waited
<1>6. Keyed(k)
  <2>1. DOMAIN k.nonces = {}
    OBVIOUS
  <2> QED BY <2>1 DEF Keyed
<1>7. Finished(k, b)
  BY DEF Finished
<1> QED BY <1>1, <1>2, <1>4, <1>5, <1>6, <1>7 DEF ClientOK

(* A command that ends leaves a sound report. *)
LEMMA LeftOK ==
    ASSUME NEW c, NEW rec, NEW b, NEW pl, NEW ch,
           rec.pc \in Over \ {"done"} \/ ClientOK(c, rec, b, pl, ch)
    PROVE  ClientOK(c, Left(rec), b, pl, ch)
<1>1. CASE rec.pc \in Over \ {"done"}
  <2> DEFINE k == Left(rec)
  <2>1. /\ DOMAIN k = Fields /\ k.pc = rec.pc /\ k.plots = <<>> /\ k.sent = {}
        /\ k.total = 0 /\ k.nonces = <<>>
        /\ k.filtered = 0 /\ k.unbound = <<>> /\ k.taken = 0 /\ k.outputs = <<>>
        /\ k.txids = {} /\ k.keys = {}
    BY <1>1, LeftEnds
  <2> HIDE DEF k
  <2>2. k.pc \notin {"done", "create", "send"}
    BY <1>1, <2>1 DEF Over
  <2>3. k.plots \in Seq(Plots) /\ EachOnce(k.plots)
    BY <2>1 DEF EachOnce
  <2>4. ClientOK(c, k, b, pl, ch)
    BY <2>1, <2>2, <2>3, NothingOK
  <2> QED BY <2>4 DEF k
<1>2. CASE rec.pc = "done" /\ ClientOK(c, rec, b, pl, ch)
  <2> DEFINE k == Left(rec)
  <2>1. /\ DOMAIN k = Fields /\ k.pc = "done" /\ k.plots = rec.plots /\ k.sent = rec.sent
        /\ k.total = rec.total /\ k.nonces = rec.nonces /\ k.coinbase = rec.coinbase
        /\ k.filtered = 0 /\ k.unbound = <<>> /\ k.taken = 0 /\ k.outputs = <<>>
        /\ k.txids = {} /\ k.keys = {}
    BY <1>2, LeftDone
  <2> HIDE DEF k
  <2>2. /\ Filtered(rec, b) /\ Counted(rec) /\ Waited(c, rec, pl, ch) /\ Keyed(rec) /\ Finished(rec, b)
    BY <1>2 DEF ClientOK
  <2>3. Filtered(k, b)
    <3>1. k.plots \in Seq(Plots) /\ EachOnce(k.plots)
      BY <2>1, <2>2 DEF Filtered
    <3>2. Len(k.plots) \in Nat
      BY <3>1
    <3>3. k.unbound \in Seq(Target) /\ Once(k.unbound) /\ Len(k.unbound) = 0
      BY <2>1 DEF Once
    <3> QED BY <2>1, <3>1, <3>2, <3>3 DEF Filtered
  <2>4. Batched(k)
    BY <2>1 DEF Batched
  <2>5. Counted(k)
    BY <2>1, <2>2 DEF Counted, Over
  <2>6. Waited(c, k, pl, ch)
    <3>1. rec.txids = {}
      BY <1>2, <2>2 DEF Finished
    <3> QED BY <2>1, <2>2, <3>1 DEF Waited
  <2>7. Keyed(k)
    <3>1. rec.keys = {}
      BY <1>2, <2>2 DEF Keyed
    <3> QED BY <2>1, <2>2, <3>1 DEF Keyed, Sets
  <2>8. Finished(k, b)
    BY <1>2, <2>1, <2>2 DEF Finished
  <2>9. ClientOK(c, k, b, pl, ch)
    BY <2>3, <2>4, <2>5, <2>6, <2>7, <2>8 DEF ClientOK
  <2> QED BY <2>9 DEF k
<1>3. CASE rec.pc \notin Over /\ ClientOK(c, rec, b, pl, ch)
  BY <1>3, LeftRuns
<1> QED BY <1>1, <1>2, <1>3

(* A step of one command. *)
LEMMA CommandSteps ==
    ASSUME BatchInv, NEW c \in Client, NEW rec, Set(c, rec),
           rec.pc \in Over \ {"done"} \/ ClientOK(c, rec, bound', pool', chain'),
           listFile' \in Seq(Plots), NodeInv', bound \subseteq bound',
           \A d \in Client \ {c} : \A tx \in pool' : tx.by = d => tx \in pool,
           \A tx \in pool \cup chain : tx.targets = {} => tx \in pool' \cup chain'
    PROVE  BatchInv'
<1>1. DOMAIN cmd = Client /\ \A d \in Client : ClientOK(d, cmd[d], bound, pool, chain)
  BY DEF BatchInv
<1>2. cmd' = [cmd EXCEPT ![c] = Left(rec)]
  BY DEF Set
<1>3. DOMAIN cmd' = Client /\ cmd'[c] = Left(rec) /\ \A d \in Client \ {c} : cmd'[d] = cmd[d]
  BY <1>1, <1>2
<1>4. ClientOK(c, Left(rec), bound', pool', chain')
  BY LeftOK
<1>5. ASSUME NEW d \in Client \ {c} PROVE ClientOK(d, cmd[d], bound', pool', chain')
  <2>1. ClientOK(d, cmd[d], bound, pool, chain) /\ \A tx \in pool' : tx.by = d => tx \in pool
    BY <1>1
  <2> QED BY <2>1, OtherStays
<1>6. \A d \in Client : ClientOK(d, cmd'[d], bound', pool', chain')
  BY <1>3, <1>4, <1>5
<1>7. \A d \in Client : ClientOK(d, cmd[d], bound, pool, chain)'
  BY <1>6 DEF ClientOK, Filtered, Batched, Counted, Waited, Keyed, Finished, Sets, TargetsOf, Behind, Taken
<1> QED BY <1>3, <1>7 DEF BatchInv

(* A step of one command that leaves the node alone. *)
LEMMA CommandAlone ==
    ASSUME BatchInv, NEW c \in Client, NEW rec, Set(c, rec), UNCHANGED <<listFile, pool, chain, bound, coinbaseOf>>,
           rec.pc \in Over \ {"done"} \/ ClientOK(c, rec, bound, pool, chain)
    PROVE  BatchInv'
<1>1. listFile' \in Seq(Plots) /\ NodeInv
  BY DEF BatchInv
<1>2. NodeInv'
  BY <1>1 DEF NodeInv, Follows
<1>3. bound' = bound /\ pool' = pool /\ chain' = chain
  OBVIOUS
<1>4. rec.pc \in Over \ {"done"} \/ ClientOK(c, rec, bound', pool', chain')
  BY <1>3
<1> QED BY <1>1, <1>2, <1>3, <1>4, CommandSteps

(***************************************************************************)
(* The steps                                                               *)
(***************************************************************************)
(* A step of no command. *)
LEMMA NodeSteps ==
    ASSUME BatchInv, cmd' = cmd, listFile' \in Seq(Plots), NodeInv', bound \subseteq bound', pool' \subseteq pool,
           \A tx \in pool \cup chain : tx.targets = {} => tx \in pool' \cup chain'
    PROVE  BatchInv'
<1>1. DOMAIN cmd = Client /\ \A d \in Client : ClientOK(d, cmd[d], bound, pool, chain)
  BY DEF BatchInv
<1>2. ASSUME NEW d \in Client PROVE ClientOK(d, cmd[d], bound', pool', chain')
  <2>1. ClientOK(d, cmd[d], bound, pool, chain) /\ \A tx \in pool' : tx.by = d => tx \in pool
    BY <1>1
  <2> QED BY <2>1, OtherStays
<1>3. \A d \in Client : ClientOK(d, cmd'[d], bound', pool', chain')
  BY <1>2
<1>4. \A d \in Client : ClientOK(d, cmd[d], bound, pool, chain)'
  BY <1>3 DEF ClientOK, Filtered, Batched, Counted, Waited, Keyed, Finished, Sets, TargetsOf, Behind, Taken
<1> QED BY <1>1, <1>4 DEF BatchInv

(* getbindinglist writes plots to the file, each target once. *)
LEMMA StepGetBindingList ==
    ASSUME BatchInv, NEW type \in {"m1", "m2"}, NEW flag, NEW overwrite, NEW interrupted,
           GetBindingList(type, flag, overwrite, interrupted)
    PROVE  BatchInv'
<1> DEFINE found == getOfflineBindingList(type, flag, interrupted)
           list == RemoveDuplicate(found)
<1>1. found \in Seq(Plots)
  BY FoundIs
<1>2. list \in Seq(Plots)
  <2> HIDE DEF found
  <2> QED BY <1>1, RemoveDuplicateIs
<1>3. listFile' = listFile \/ listFile' = list
  BY DEF GetBindingList
<1>4. UNCHANGED <<cmd, pool, chain, bound, coinbaseOf>>
  BY DEF GetBindingList, nodeVars
<1> HIDE DEF list
<1>5. listFile' \in Seq(Plots) /\ NodeInv
  BY <1>2, <1>3 DEF BatchInv
<1>6. NodeInv'
  BY <1>4, <1>5 DEF NodeInv, Follows
<1> QED BY <1>4, <1>5, <1>6, NodeSteps

(* batchbinding starts with the plots of the file and nothing sent. *)
LEMMA StepStartBatch ==
    ASSUME BatchInv, NEW c \in Client, NEW isCheck, NEW password, StartBatch(c, isCheck, password)
    PROVE  BatchInv'
<1> DEFINE list == RemoveDuplicate(listFile)
           rec == [NoCmd EXCEPT !.pc = "filter", !.run = runs, !.isCheck = isCheck, !.password = password,
                                !.plots = list]
<1>1. Set(c, rec) /\ UNCHANGED <<listFile, pool, chain, bound, coinbaseOf>>
  BY DEF StartBatch, nodeVars
<1>2. list \in Seq(Plots) /\ EachOnce(list)
  BY RemoveDuplicateIs DEF BatchInv
<1> HIDE DEF list
<1>3. /\ DOMAIN rec = Fields /\ rec.pc = "filter" /\ rec.plots = list /\ rec.sent = {}
      /\ rec.total = 0 /\ rec.nonces = <<>>
      /\ rec.filtered = 0 /\ rec.unbound = <<>> /\ rec.taken = 0 /\ rec.outputs = <<>>
      /\ rec.txids = {} /\ rec.keys = {}
  BY DEF NoCmd, Fields
<1> HIDE DEF rec
<1>4. ClientOK(c, rec, bound, pool, chain)
  BY <1>2, <1>3, NothingOK
<1> QED BY <1>1, <1>4, CommandAlone

(* batchbindpoolpk starts with nothing sent. *)
LEMMA StepStartPoolPk ==
    ASSUME BatchInv, NEW c \in Client, NEW coinbase, NEW password, StartPoolPk(c, coinbase, password)
    PROVE  BatchInv'
<1> DEFINE rec == [NoCmd EXCEPT !.pc = "pkNonce", !.run = runs, !.coinbase = coinbase, !.password = password]
<1>1. Set(c, rec) /\ UNCHANGED <<listFile, pool, chain, bound, coinbaseOf>>
  BY DEF StartPoolPk, nodeVars
<1>2. /\ DOMAIN rec = Fields /\ rec.pc = "pkNonce" /\ rec.plots = <<>> /\ rec.sent = {}
      /\ rec.total = 0 /\ rec.nonces = <<>>
      /\ rec.filtered = 0 /\ rec.unbound = <<>> /\ rec.taken = 0 /\ rec.outputs = <<>>
      /\ rec.txids = {} /\ rec.keys = {}
  BY DEF NoCmd, Fields
<1> HIDE DEF rec
<1>3. rec.plots \in Seq(Plots) /\ EachOnce(rec.plots)
  BY <1>2 DEF EachOnce
<1>4. ClientOK(c, rec, bound, pool, chain)
  BY <1>2, <1>3, NothingOK
<1> QED BY <1>1, <1>4, CommandAlone

(* The command goes on with what it has. *)
LEMMA GoesOn ==
    ASSUME NEW c, NEW k, NEW rec, NEW b, NEW pl, NEW ch, ClientOK(c, k, b, pl, ch), DOMAIN rec = Fields,
           rec.plots = k.plots, rec.filtered = k.filtered, rec.unbound = k.unbound, rec.taken = k.taken,
           rec.outputs = k.outputs, rec.txids = k.txids, rec.sent = k.sent, rec.total = k.total,
           rec.coinbase = k.coinbase, rec.nonces = k.nonces, rec.keys = k.keys,
           \/ k.pc = "price" /\ rec.pc = "prepare"
           \/ k.pc = "create" /\ rec.pc \in {"create", "send"}
           \/ k.pc = "pkCreate" /\ rec.pc = "pkSend"
    PROVE  ClientOK(c, rec, b, pl, ch)
<1>1. Filtered(k, b) /\ Batched(k) /\ Counted(k) /\ Waited(c, k, pl, ch) /\ Keyed(k) /\ Finished(k, b)
  BY DEF ClientOK
<1>2. Filtered(rec, b)
  BY <1>1 DEF Filtered
<1>3. Batched(rec)
  BY <1>1 DEF Batched
<1>4. Behind(rec) = Behind(k)
  BY DEF Behind
<1>5. Taken(rec) = Taken(k)
  BY <1>4 DEF Taken
<1>6. Counted(rec)
  BY <1>1, <1>5 DEF Counted, Over
<1>7. Waited(c, rec, pl, ch)
  BY <1>1 DEF Waited
<1>8. Keyed(rec)
  BY <1>1 DEF Keyed, Sets
<1>9. Finished(rec, b)
  BY DEF Finished
<1> QED BY <1>2, <1>3, <1>6, <1>7, <1>8, <1>9 DEF ClientOK

(* Prices and balance end the command or let it go on. *)
LEMMA StepCheckBalance ==
    ASSUME BatchInv, NEW c \in Client, CheckBalance(c)
    PROVE  BatchInv'
<1> DEFINE k == cmd[c]
<1>1. PICK pc \in {"failed", "insufficient", "prepare"} : Set(c, [k EXCEPT !.pc = pc])
  BY DEF CheckBalance
<1>2. k.pc = "price" /\ UNCHANGED <<listFile, pool, chain, bound, coinbaseOf>>
  BY DEF CheckBalance, nodeVars
<1>3. ClientOK(c, k, bound, pool, chain) /\ DOMAIN k = Fields
  BY DEF BatchInv, ClientOK, Filtered
<1> DEFINE rec == [k EXCEPT !.pc = pc]
<1> HIDE DEF k
<1>4. /\ DOMAIN rec = Fields /\ rec.pc = pc
      /\ rec.plots = k.plots /\ rec.filtered = k.filtered /\ rec.unbound = k.unbound /\ rec.taken = k.taken
      /\ rec.outputs = k.outputs /\ rec.txids = k.txids /\ rec.sent = k.sent /\ rec.total = k.total
      /\ rec.coinbase = k.coinbase /\ rec.nonces = k.nonces /\ rec.keys = k.keys
  BY <1>3 DEF Fields
<1>5. Set(c, rec)
  BY <1>1
<1> HIDE DEF rec
<1>6. rec.pc \in Over \ {"done"} \/ ClientOK(c, rec, bound, pool, chain)
  <2>1. CASE pc = "prepare"
    BY <1>2, <1>3, <1>4, <2>1, GoesOn
  <2>2. CASE pc # "prepare"
    BY <1>4, <2>2 DEF Over
  <2> QED BY <2>1, <2>2
<1> QED BY <1>2, <1>5, <1>6, CommandAlone

(* A creation, a retry of it or its failure leaves targets and counts alone. *)
LEMMA StepCreate ==
    ASSUME BatchInv, NEW c \in Client, Create(c)
    PROVE  BatchInv'
<1> DEFINE k == cmd[c]
<1>1. PICK rec : /\ Set(c, rec)
                 /\ \/ rec = [k EXCEPT !.pc = "failed"]
                    \/ \E u : rec = [k EXCEPT !.unsigned = u, !.pc = "send"]
                    \/ \E n : rec = [k EXCEPT !.retry = n]
  <2>1. \/ Set(c, [k EXCEPT !.pc = "failed"])
        \/ \E u : Set(c, [k EXCEPT !.unsigned = u, !.pc = "send"])
        \/ Set(c, [k EXCEPT !.retry = k.retry + 1])
    BY DEF Create, Pick
  <2> QED BY <2>1
<1>2. k.pc = "create" /\ UNCHANGED <<listFile, pool, chain, bound, coinbaseOf>>
  BY DEF Create, nodeVars
<1>3. ClientOK(c, k, bound, pool, chain) /\ DOMAIN k = Fields
  BY DEF BatchInv, ClientOK, Filtered
<1> HIDE DEF k
<1>4. /\ DOMAIN rec = Fields /\ rec.pc \in {"failed", "send", "create"}
      /\ rec.plots = k.plots /\ rec.filtered = k.filtered /\ rec.unbound = k.unbound /\ rec.taken = k.taken
      /\ rec.outputs = k.outputs /\ rec.txids = k.txids /\ rec.sent = k.sent /\ rec.total = k.total
      /\ rec.coinbase = k.coinbase /\ rec.nonces = k.nonces /\ rec.keys = k.keys
  BY <1>1, <1>2, <1>3 DEF Fields
<1>5. rec.pc \in Over \ {"done"} \/ ClientOK(c, rec, bound, pool, chain)
  <2>1. CASE rec.pc = "failed"
    BY <2>1 DEF Over
  <2>2. CASE rec.pc # "failed"
    BY <1>2, <1>3, <1>4, <2>2, GoesOn
  <2> QED BY <2>1, <2>2
<1> QED BY <1>1, <1>2, <1>5, CommandAlone

(* So does the creation of a transaction for a pool key. *)
LEMMA StepPoolPkCreate ==
    ASSUME BatchInv, NEW c \in Client, PoolPkCreate(c)
    PROVE  BatchInv'
<1> DEFINE k == cmd[c]
<1>1. PICK rec : /\ Set(c, rec)
                 /\ \/ rec = [k EXCEPT !.pc = "insufficient"]
                    \/ \E u : rec = [k EXCEPT !.unsigned = u, !.pc = "pkSend"]
  BY DEF PoolPkCreate, Pick
<1>2. k.pc = "pkCreate" /\ UNCHANGED <<listFile, pool, chain, bound, coinbaseOf>>
  BY DEF PoolPkCreate, nodeVars
<1>3. ClientOK(c, k, bound, pool, chain) /\ DOMAIN k = Fields
  BY DEF BatchInv, ClientOK, Filtered
<1> HIDE DEF k
<1>4. /\ DOMAIN rec = Fields /\ rec.pc \in {"insufficient", "pkSend"}
      /\ rec.plots = k.plots /\ rec.filtered = k.filtered /\ rec.unbound = k.unbound /\ rec.taken = k.taken
      /\ rec.outputs = k.outputs /\ rec.txids = k.txids /\ rec.sent = k.sent /\ rec.total = k.total
      /\ rec.coinbase = k.coinbase /\ rec.nonces = k.nonces /\ rec.keys = k.keys
  BY <1>1, <1>2, <1>3 DEF Fields
<1>5. rec.pc \in Over \ {"done"} \/ ClientOK(c, rec, bound, pool, chain)
  <2>1. CASE rec.pc = "insufficient"
    BY <2>1 DEF Over
  <2>2. CASE rec.pc = "pkSend"
    BY <1>2, <1>3, <1>4, <2>2, GoesOn
  <2> QED BY <1>4, <2>1, <2>2
<1> QED BY <1>1, <1>2, <1>5, CommandAlone

(* The nonces asked for make every pool key one that is still to be sent. *)
LEMMA StepPoolPkNonce ==
    ASSUME BatchInv, NEW c \in Client, PoolPkNonce(c)
    PROVE  BatchInv'
<1> DEFINE k == cmd[c]
           nonces == [p \in PoolKey |-> CheckPoolPkCoinbase(PoolKey)[p].nonce + 1]
           rec == [k EXCEPT !.pc = "pkCreate", !.keys = PoolKey, !.nonces = nonces]
<1>1. k.pc = "pkNonce" /\ Set(c, rec) /\ UNCHANGED <<listFile, pool, chain, bound, coinbaseOf>>
  BY DEF PoolPkNonce, nodeVars
<1>2. ClientOK(c, k, bound, pool, chain) /\ DOMAIN k = Fields /\ NodeInv
  BY DEF BatchInv, ClientOK, Filtered
<1>3. DOMAIN nonces = PoolKey /\ \A p \in PoolKey : nonces[p] \in Nat
  <2>1. \A p \in PoolKey : coinbaseOf[p].nonce + 1 \in Nat
    BY <1>2 DEF NodeInv
  <2>2. \A p \in PoolKey : nonces[p] = coinbaseOf[p].nonce + 1
    BY DEF CheckPoolPkCoinbase
  <2> QED BY <2>1, <2>2
<1> HIDE DEF k, nonces
<1>4. /\ DOMAIN rec = Fields /\ rec.pc = "pkCreate"
      /\ rec.plots = k.plots /\ rec.filtered = k.filtered /\ rec.unbound = k.unbound /\ rec.taken = k.taken
      /\ rec.outputs = k.outputs /\ rec.txids = k.txids /\ rec.sent = k.sent /\ rec.total = k.total
      /\ rec.nonces = nonces /\ rec.keys = PoolKey
  BY <1>2 DEF Fields
<1> HIDE DEF rec
<1>5. Filtered(k, bound) /\ Batched(k) /\ Counted(k) /\ Waited(c, k, pool, chain)
  BY <1>2 DEF ClientOK
<1>6. Filtered(rec, bound)
  BY <1>1, <1>4, <1>5 DEF Filtered
<1>7. Batched(rec)
  BY <1>1, <1>4, <1>5 DEF Batched
<1>8. Taken(rec) = Taken(k)
  BY <1>1, <1>4 DEF Taken, Behind
<1>9. Counted(rec)
  BY <1>1, <1>4, <1>5, <1>8 DEF Counted, Over
<1>10. Waited(c, rec, pool, chain)
  BY <1>4, <1>5 DEF Waited
<1>11. Keyed(rec)
  BY <1>3, <1>4 DEF Keyed
<1>12. Finished(rec, bound)
  BY <1>4 DEF Finished
<1>13. ClientOK(c, rec, bound, pool, chain)
  BY <1>6, <1>7, <1>9, <1>10, <1>11, <1>12 DEF ClientOK
<1> QED BY <1>1, <1>13, CommandAlone

(* What is waited for no longer is not in the pool. *)
LEMMA StepPollStatus ==
    ASSUME BatchInv, NEW c \in Client, PollStatus(c)
    PROVE  BatchInv'
<1> DEFINE k == cmd[c]
<1>1. PICK tx \in k.txids : ~Packing(tx) /\ Set(c, [k EXCEPT !.txids = k.txids \ {tx}])
  BY DEF PollStatus
<1>2. k.pc = "wait" /\ UNCHANGED <<listFile, pool, chain, bound, coinbaseOf>>
  BY DEF PollStatus, nodeVars
<1>3. ClientOK(c, k, bound, pool, chain) /\ DOMAIN k = Fields
  BY DEF BatchInv, ClientOK, Filtered
<1> DEFINE rec == [k EXCEPT !.txids = k.txids \ {tx}]
<1> HIDE DEF k
<1>4. /\ DOMAIN rec = Fields /\ rec.pc = "wait" /\ rec.txids = k.txids \ {tx}
      /\ rec.plots = k.plots /\ rec.filtered = k.filtered /\ rec.unbound = k.unbound /\ rec.taken = k.taken
      /\ rec.outputs = k.outputs /\ rec.sent = k.sent /\ rec.total = k.total
      /\ rec.coinbase = k.coinbase /\ rec.nonces = k.nonces /\ rec.keys = k.keys
  BY <1>2, <1>3 DEF Fields
<1>5. Set(c, rec) /\ tx \notin pool
  BY <1>1 DEF Packing
<1> HIDE DEF rec
<1>6. Filtered(k, bound) /\ Batched(k) /\ Counted(k) /\ Waited(c, k, pool, chain) /\ Keyed(k)
  BY <1>3 DEF ClientOK
<1>7. Filtered(rec, bound)
  BY <1>2, <1>4, <1>6 DEF Filtered
<1>8. Batched(rec)
  BY <1>4, <1>6 DEF Batched
<1>9. Taken(rec) = Taken(k)
  BY <1>2, <1>4 DEF Taken, Behind
<1>10. Counted(rec)
  BY <1>2, <1>4, <1>6, <1>9 DEF Counted, Over
<1>11. Waited(c, rec, pool, chain)
  BY <1>4, <1>5, <1>6 DEF Waited
<1>12. Keyed(rec)
  BY <1>2, <1>4, <1>6 DEF Keyed, Sets
<1>13. Finished(rec, bound)
  BY <1>4 DEF Finished
<1>14. ClientOK(c, rec, bound, pool, chain)
  BY <1>7, <1>8, <1>10, <1>11, <1>12, <1>13 DEF ClientOK
<1> QED BY <1>2, <1>5, <1>14, CommandAlone

(* The node mines: targets become bound, a pool key gets its next coinbase. *)
LEMMA StepNodePacks ==
    ASSUME BatchInv, NodePacks
    PROVE  BatchInv'
<1>1. PICK tx \in pool :
        /\ pool' = pool \ {tx} /\ chain' = chain \cup {tx}
        /\ bound' = bound \cup tx.targets
        /\ coinbaseOf' = [p \in PoolKey |-> IF p = tx.key THEN [nonce |-> tx.nonce, coinbase |-> tx.coinbase]
                                            ELSE coinbaseOf[p]]
  BY DEF NodePacks
<1>2. listFile' = listFile /\ cmd' = cmd
  BY DEF NodePacks
<1>3. NodeInv /\ listFile \in Seq(Plots)
  BY DEF BatchInv
<1>4. \A ty \in chain' : ty.targets \subseteq bound'
  BY <1>1, <1>3 DEF NodeInv
<1>5. \A ty \in pool' \cup chain' : ty.key # "none" => ty.key \in PoolKey /\ ty.nonce \in Nat /\ ty.targets = {}
  BY <1>1, <1>3 DEF NodeInv
<1>6. \A p \in PoolKey : p # tx.key => coinbaseOf'[p] = coinbaseOf[p]
  BY <1>1
<1>7. tx.key \in PoolKey => coinbaseOf'[tx.key] = [nonce |-> tx.nonce, coinbase |-> tx.coinbase]
  BY <1>1
<1>8. tx.key \in PoolKey => tx.nonce \in Nat /\ tx.nonce = coinbaseOf[tx.key].nonce + 1
  BY <1>1, <1>3, BatchAssumption DEF NodeInv
<1>9. DOMAIN coinbaseOf' = PoolKey /\ \A p \in PoolKey : coinbaseOf'[p].nonce \in Nat
  BY <1>1, <1>3, <1>6, <1>7, <1>8 DEF NodeInv
<1>10. \A ty \in pool' : ty.key # "none" => ty.nonce = coinbaseOf'[ty.key].nonce + 1
  <2> SUFFICES ASSUME NEW ty \in pool', ty.key # "none" PROVE ty.nonce = coinbaseOf'[ty.key].nonce + 1
    OBVIOUS
  <2>1. ty \in pool /\ ty # tx
    BY <1>1
  <2>2. ty.key # tx.key /\ ty.key \in PoolKey
    BY <1>3, <2>1 DEF NodeInv
  <2>3. ty.nonce = coinbaseOf[ty.key].nonce + 1
    BY <1>3, <2>1 DEF NodeInv
  <2> QED BY <1>6, <2>2, <2>3
<1>11. \A ty, tz \in pool' : ty.key # "none" /\ ty.key = tz.key => ty = tz
  BY <1>1, <1>3 DEF NodeInv
<1>12. \A ty \in chain' : ty.key # "none" => Follows(coinbaseOf'[ty.key], ty)
  <2> SUFFICES ASSUME NEW ty \in chain', ty.key # "none" PROVE Follows(coinbaseOf'[ty.key], ty)
    OBVIOUS
  <2>1. ty.key \in PoolKey /\ ty.nonce \in Nat
    BY <1>5
  <2>2. CASE ty = tx
    BY <1>7, <2>1, <2>2 DEF Follows
  <2>3. CASE ty # tx
    <3>1. Follows(coinbaseOf[ty.key], ty)
      BY <1>1, <1>3, <2>3 DEF NodeInv
    <3>2. CASE ty.key # tx.key
      BY <1>6, <2>1, <3>1, <3>2
    <3>3. CASE ty.key = tx.key
      <4> DEFINE m == coinbaseOf[ty.key].nonce
      <4>1. m \in Nat /\ m >= ty.nonce /\ tx.nonce = m + 1
        BY <1>3, <1>8, <2>1, <3>1, <3>3 DEF Follows, NodeInv
      <4> HIDE DEF m
      <4>2. tx.nonce > ty.nonce
        BY <2>1, <4>1
      <4> QED BY <1>7, <2>1, <3>3, <4>2 DEF Follows
    <3> QED BY <3>2, <3>3
  <2> QED BY <2>2, <2>3
<1>13. NodeInv'
  BY <1>4, <1>5, <1>9, <1>10, <1>11, <1>12 DEF NodeInv, Follows
<1>14. bound \subseteq bound' /\ pool' \subseteq pool /\ pool \cup chain \subseteq pool' \cup chain'
  BY <1>1
<1> QED BY <1>2, <1>3, <1>13, <1>14, NodeSteps

(* Confirmations change nothing else. *)
LEMMA StepNodeBuries ==
    ASSUME BatchInv, NodeBuries
    PROVE  BatchInv'
<1>1. UNCHANGED <<listFile, cmd, pool, chain, bound, coinbaseOf>>
  BY DEF NodeBuries
<1>2. listFile' \in Seq(Plots) /\ NodeInv
  BY <1>1 DEF BatchInv
<1>3. NodeInv'
  BY <1>1, <1>2 DEF NodeInv, Follows
<1> QED BY <1>1, <1>2, <1>3, NodeSteps

(* What another wallet binds only takes transactions with targets away. *)
LEMMA StepOtherBinds ==
    ASSUME BatchInv, OtherBinds
    PROVE  BatchInv'
<1>1. PICK t : bound' = bound \cup {t} /\ pool' = pool \ {tx \in pool : t \in tx.targets}
  BY DEF OtherBinds
<1>2. UNCHANGED <<listFile, cmd, chain, coinbaseOf>>
  BY DEF OtherBinds
<1>3. listFile' \in Seq(Plots) /\ NodeInv
  BY <1>2 DEF BatchInv
<1>4. pool' \subseteq pool /\ bound \subseteq bound'
  BY <1>1
<1>5. NodeInv'
  BY <1>2, <1>3, <1>4 DEF NodeInv, Follows
<1>6. \A tx \in pool \cup chain : tx.targets = {} => tx \in pool' \cup chain'
  BY <1>1, <1>2
<1> QED BY <1>2, <1>3, <1>4, <1>5, <1>6, NodeSteps

(* As many targets sent as were unbound: they are the same targets. *)
LEMMA StepReport ==
    ASSUME BatchInv, NEW c \in Client, Report(c)
    PROVE  BatchInv'
<1> DEFINE k == cmd[c]
           rec == [k EXCEPT !.pc = IF k.total < Len(k.unbound) THEN "partial" ELSE "done"]
<1>1. k.pc = "wait" /\ k.txids = {} /\ Set(c, rec) /\ UNCHANGED <<listFile, pool, chain, bound, coinbaseOf>>
  BY DEF Report, nodeVars
<1>2. ClientOK(c, k, bound, pool, chain) /\ DOMAIN k = Fields
  BY DEF BatchInv, ClientOK, Filtered
<1> HIDE DEF k
<1>3. /\ DOMAIN rec = Fields /\ rec.pc = IF k.total < Len(k.unbound) THEN "partial" ELSE "done"
      /\ rec.plots = k.plots /\ rec.filtered = k.filtered /\ rec.unbound = k.unbound /\ rec.taken = k.taken
      /\ rec.outputs = k.outputs /\ rec.txids = k.txids /\ rec.sent = k.sent /\ rec.total = k.total
      /\ rec.coinbase = k.coinbase /\ rec.nonces = k.nonces /\ rec.keys = k.keys
  BY <1>2 DEF Fields
<1> HIDE DEF rec
<1>4. Filtered(k, bound) /\ Batched(k) /\ Counted(k) /\ Waited(c, k, pool, chain) /\ Keyed(k)
  BY <1>2 DEF ClientOK
<1>5. ASSUME ~(k.total < Len(k.unbound)) PROVE ClientOK(c, rec, bound, pool, chain)
  <2>0. rec.pc = "done"
    BY <1>3, <1>5
  <2>1. Filtered(rec, bound)
    BY <1>3, <1>4, <2>0 DEF Filtered
  <2>2. Batched(rec)
    BY <1>3, <1>4, <2>0 DEF Batched
  <2>3. Counted(rec)
    BY <1>3, <1>4, <2>0 DEF Counted, Over
  <2>4. Waited(c, rec, pool, chain)
    BY <1>3, <1>4 DEF Waited
  <2>5. Keyed(rec)
    BY <1>1, <1>3, <1>4 DEF Keyed, Sets
  <2> DEFINE A == TargetsOf(k.sent)
             B == ToSet(k.unbound)
             n == Len(k.unbound)
  <2>6. k.unbound \in Seq(Target) /\ Once(k.unbound) /\ k.filtered = Len(k.plots)
    BY <1>1, <1>4 DEF Filtered
  <2>7. IsFiniteSet(B) /\ Cardinality(B) = n /\ n \in Nat /\ B = {k.unbound[i] : i \in 1..n}
    BY <2>6, OnceCounts, SeqIs
  <2>8. Taken(k) \subseteq B
    <3>1. Behind(k) \in 0..n
      BY <1>1, <1>4 DEF Batched, Behind
    <3> HIDE DEF n
    <3>2. \A i \in 1..Behind(k) : i \in 1..n
      BY <2>7, <3>1
    <3> QED BY <2>7, <3>2 DEF Taken
  <2>9. A \subseteq B /\ k.total \in Nat /\ k.total = Cardinality(A)
    BY <1>1, <1>4, <2>8 DEF Counted, Over
  <2>10. IsFiniteSet(A) /\ Cardinality(A) <= Cardinality(B) /\ (Cardinality(A) = Cardinality(B) => A = B)
    <3> HIDE DEF A, B
    <3> QED BY <2>7, <2>9, FS_Subset
  <2>11. A = B
    <3>1. ~(k.total < n)
      BY <1>5
    <3> HIDE DEF A, B, n
    <3>2. k.total = n
      BY <2>7, <2>9, <2>10, <3>1
    <3> QED BY <2>7, <2>9, <2>10, <3>2
  <2>12. \A j \in 1..Len(k.plots) : k.plots[j].target \in bound \cup B
    BY <1>4, <2>6 DEF Filtered
  <2>13. Finished(rec, bound)
    BY <1>1, <1>3, <2>11, <2>12 DEF Finished
  <2> QED BY <2>1, <2>2, <2>3, <2>4, <2>5, <2>13 DEF ClientOK
<1>6. rec.pc \in Over \ {"done"} \/ ClientOK(c, rec, bound, pool, chain)
  <2>1. CASE k.total < Len(k.unbound)
    BY <1>3, <2>1 DEF Over
  <2> QED BY <1>5, <2>1
<1> QED BY <1>1, <1>6, CommandAlone

(* The next outputs are the targets after those taken. *)
LEMMA StepPrepare ==
    ASSUME BatchInv, NEW c \in Client, Prepare(c)
    PROVE  BatchInv'
<1> DEFINE k == cmd[c]
           to == IF k.taken + BatchSize <= Len(k.unbound) THEN k.taken + BatchSize ELSE Len(k.unbound)
           outs == SubSeq(k.unbound, k.taken + 1, to)
           rec == [k EXCEPT !.outputs = outs, !.taken = to, !.retry = 0, !.pc = "create"]
<1>1. k.pc = "prepare" /\ Set(c, rec) /\ UNCHANGED <<listFile, pool, chain, bound, coinbaseOf>>
  BY DEF Prepare, nodeVars
<1>2. ClientOK(c, k, bound, pool, chain) /\ DOMAIN k = Fields
  BY DEF BatchInv, ClientOK, Filtered
<1> HIDE DEF k
<1>3. Filtered(k, bound) /\ Batched(k) /\ Counted(k) /\ Waited(c, k, pool, chain) /\ Keyed(k)
  BY <1>2 DEF ClientOK
<1> DEFINE u == k.unbound
           n == Len(u)
           tk == k.taken
<1>4. u \in Seq(Target) /\ n \in Nat /\ tk \in 0..n
  BY <1>3 DEF Filtered, Batched
<1>5. to \in tk..n
  <2>1. to = IF tk + BatchSize <= n THEN tk + BatchSize ELSE n
    OBVIOUS
  <2> HIDE DEF tk, n, to
  <2> QED BY <1>4, <2>1, BatchAssumption
<1>6. outs \in Seq(Target) /\ Len(outs) = to - tk /\ \A i \in 1..(to - tk) : outs[i] = u[tk + i]
  <2>1. outs = SubSeq(u, tk + 1, to)
    OBVIOUS
  <2> HIDE DEF to, tk, u, outs
  <2>2. tk + 1 \in 1..(n + 1) /\ to \in 0..n /\ to \in tk..n
    BY <1>4, <1>5
  <2> QED BY <1>4, <2>1, <2>2 DEF n
<1> HIDE DEF to, outs
<1>7. /\ DOMAIN rec = Fields /\ rec.pc = "create"
      /\ rec.plots = k.plots /\ rec.filtered = k.filtered /\ rec.unbound = k.unbound /\ rec.taken = to
      /\ rec.outputs = outs /\ rec.txids = k.txids /\ rec.sent = k.sent /\ rec.total = k.total
      /\ rec.coinbase = k.coinbase /\ rec.nonces = k.nonces /\ rec.keys = k.keys
  BY <1>2 DEF Fields
<1> HIDE DEF rec
<1>8. Filtered(rec, bound)
  BY <1>1, <1>3, <1>7 DEF Filtered
<1>9. tk \in Nat /\ to \in Nat /\ to - (to - tk) = tk /\ to - tk <= to
  <2> HIDE DEF tk, n
  <2> QED BY <1>4, <1>5
<1>10. Batched(rec)
  <2>1. rec.outputs \in Seq(Target) /\ rec.taken \in 0..Len(rec.unbound)
    <3>1. to \in 0..n
      <4> HIDE DEF tk, n
      <4> QED BY <1>4, <1>5
    <3> QED BY <1>6, <1>7, <3>1
  <2>2. Len(rec.outputs) <= rec.taken
    <3> HIDE DEF tk
    <3> QED BY <1>6, <1>7, <1>9
  <2>3. \A i \in 1..Len(rec.outputs) : rec.outputs[i] = rec.unbound[rec.taken - Len(rec.outputs) + i]
    <3>1. rec.taken - Len(rec.outputs) = tk /\ Len(rec.outputs) = to - tk
      <4> HIDE DEF tk
      <4> QED BY <1>6, <1>7, <1>9
    <3> HIDE DEF tk
    <3> QED BY <1>6, <1>7, <3>1
  <2> QED BY <2>1, <2>2, <2>3 DEF Batched
<1>11. Taken(rec) = Taken(k)
  <2>1. Behind(k) = tk
    BY <1>1 DEF Behind
  <2>2. Behind(rec) = tk
    <3> HIDE DEF tk
    <3> QED BY <1>6, <1>7, <1>9 DEF Behind
  <2> QED BY <1>7, <2>1, <2>2 DEF Taken
<1>12. Counted(rec)
  BY <1>1, <1>3, <1>7, <1>11 DEF Counted, Over
<1>13. Waited(c, rec, pool, chain)
  BY <1>3, <1>7 DEF Waited
<1>14. Keyed(rec)
  BY <1>1, <1>3, <1>7 DEF Keyed, Sets
<1>15. Finished(rec, bound)
  BY <1>7 DEF Finished
<1>16. ClientOK(c, rec, bound, pool, chain)
  BY <1>8, <1>10, <1>12, <1>13, <1>14, <1>15 DEF ClientOK
<1> QED BY <1>1, <1>16, CommandAlone

(* The image of an interval is finite. *)
LEMMA ImageIs ==
    ASSUME NEW m \in Nat, NEW n \in Nat, NEW g \in [m..n -> Target], NEW D, D = {g[i] : i \in m..n}
    PROVE  IsFiniteSet(D) /\ D \in SUBSET Target
<1> DEFINE I == m..n
<1>1. IsFiniteSet(I)
  BY FS_Interval
<1>2. g \in [I -> Target] /\ D = {g[i] : i \in I}
  OBVIOUS
<1> HIDE DEF I
<1>3. g \in Surjection(I, D)
  BY <1>2 DEF Surjection
<1>4. IsFiniteSet(D)
  BY <1>1, <1>3, FS_Surjection
<1> QED BY <1>2, <1>4

(* The next plots are of other targets than those looked at. *)
LEMMA StepFilter ==
    ASSUME BatchInv, NEW c \in Client, Filter(c)
    PROVE  BatchInv'
<1> DEFINE k == cmd[c]
           plots == k.plots
           n == Len(plots)
           f == k.filtered
           to == IF f + BatchSize < n THEN f + BatchSize ELSE n
           D == {plots[i].target : i \in (f + 1)..to}
           s == filterUnboundTargets(D)
           u == k.unbound
           ub == u \o s
           pc == IF ~(to = n) THEN "filter"
                 ELSE IF ub = <<>> THEN "none" ELSE IF k.isCheck THEN "checked" ELSE "price"
           rec == [k EXCEPT !.filtered = to, !.unbound = ub, !.pc = pc]
<1>1. k.pc = "filter" /\ Set(c, rec) /\ UNCHANGED <<listFile, pool, chain, bound, coinbaseOf>>
  BY DEF Filter, nodeVars
<1>2. ClientOK(c, k, bound, pool, chain) /\ DOMAIN k = Fields
  BY DEF BatchInv, ClientOK, Filtered
<1> HIDE DEF k
<1>3. Filtered(k, bound) /\ Batched(k) /\ Counted(k) /\ Waited(c, k, pool, chain) /\ Keyed(k)
  BY <1>2 DEF ClientOK
<1>4. /\ plots \in Seq(Plots) /\ EachOnce(plots) /\ u \in Seq(Target) /\ Once(u)
      /\ f \in 0..n /\ n \in Nat /\ \A i \in 1..n : plots[i].target \in Target
  <2>1. plots \in Seq(Plots) /\ EachOnce(plots) /\ u \in Seq(Target) /\ Once(u) /\ f \in 0..n
    BY <1>3 DEF Filtered
  <2>2. n \in Nat /\ \A i \in 1..n : plots[i] \in Plots
    BY <2>1, SeqIs
  <2> QED BY <2>1, <2>2 DEF Plots
<1>5. /\ \A i \in 1..Len(u) : \E j \in 1..f : u[i] = plots[j].target
      /\ \A j \in 1..f : plots[j].target \in bound \cup ToSet(u)
  BY <1>3 DEF Filtered
<1>6. to \in f..n /\ to \in Nat /\ f \in Nat
  <2> HIDE DEF f, n
  <2> QED BY <1>4, BatchAssumption
<1>7. \A i, j \in 1..n : plots[i].target = plots[j].target => i = j
  BY <1>4 DEF EachOnce
<1>8. pc \in {"filter", "none", "checked", "price"} /\ (pc = "price" => to = n)
  OBVIOUS
<1>9. IsFiniteSet(D) /\ D \in SUBSET Target
  <2> DEFINE g == [i \in (f + 1)..to |-> plots[i].target]
  <2>1. D = {g[i] : i \in (f + 1)..to}
    OBVIOUS
  <2> HIDE DEF to, f, n, plots
  <2>2. \A i \in (f + 1)..to : i \in 1..n
    BY <1>4, <1>6
  <2>3. g \in [(f + 1)..to -> Target]
    BY <1>4, <2>2
  <2>4. f + 1 \in Nat
    BY <1>6
  <2> HIDE DEF g, D
  <2> QED BY <1>6, <2>1, <2>3, <2>4, ImageIs
<1> HIDE DEF pc, to, f, n, plots, u
<1>10. s \in Seq(Target) /\ Once(s) /\ ToSet(s) = D \ bound
  <2> HIDE DEF D
  <2> QED BY <1>9, FilterIs
<1>11. ToSet(u) \cap ToSet(s) = {}
  <2> SUFFICES ASSUME NEW t \in ToSet(u), t \in D PROVE FALSE
    BY <1>10
  <2>1. PICK i \in 1..Len(u) : t = u[i]
    BY <1>4, SeqIs
  <2>2. PICK j \in 1..f : t = plots[j].target
    BY <1>5, <2>1
  <2>3. PICK l \in (f + 1)..to : t = plots[l].target
    OBVIOUS
  <2>4. j \in 1..n /\ l \in 1..n /\ j # l
    BY <1>4, <1>6
  <2> QED BY <1>7, <2>2, <2>3, <2>4
<1> HIDE DEF s
<1>12. /\ ub \in Seq(Target) /\ Len(ub) = Len(u) + Len(s)
       /\ \A i \in 1..Len(ub) : ub[i] = IF i <= Len(u) THEN u[i] ELSE s[i - Len(u)]
       /\ ToSet(ub) = ToSet(u) \cup ToSet(s) /\ Once(ub)
  BY <1>4, <1>10, <1>11, ConcatIs
<1>13. Len(u) \in Nat /\ Len(s) \in Nat
  BY <1>4, <1>10
<1> HIDE DEF ub
<1>14. /\ DOMAIN rec = Fields /\ rec.pc = pc
       /\ rec.plots = plots /\ rec.filtered = to /\ rec.unbound = ub /\ rec.taken = k.taken
       /\ rec.outputs = k.outputs /\ rec.txids = k.txids /\ rec.sent = k.sent /\ rec.total = k.total
       /\ rec.coinbase = k.coinbase /\ rec.nonces = k.nonces /\ rec.keys = k.keys
  BY <1>2 DEF Fields, plots
<1> HIDE DEF rec
<1>15. ASSUME pc \in {"filter", "price"} PROVE ClientOK(c, rec, bound, pool, chain)
  <2>1. \A i \in 1..Len(ub) : \E j \in 1..to : ub[i] = plots[j].target
    <3> SUFFICES ASSUME NEW i \in 1..Len(ub) PROVE \E j \in 1..to : ub[i] = plots[j].target
      OBVIOUS
    <3>1. ub[i] \in ToSet(u) \cup D
      BY <1>10, <1>12, SeqIs
    <3>2. CASE ub[i] \in ToSet(u)
      <4>1. PICK l \in 1..Len(u) : ub[i] = u[l]
        BY <1>4, <3>2, SeqIs
      <4>2. PICK j \in 1..f : ub[i] = plots[j].target
        BY <1>5, <4>1
      <4>3. j \in 1..to
        BY <1>4, <1>6
      <4> QED BY <4>2, <4>3
    <3>3. CASE ub[i] \in D
      <4>1. PICK j \in (f + 1)..to : ub[i] = plots[j].target
        BY <3>3
      <4>2. j \in 1..to
        BY <1>6
      <4> QED BY <4>1, <4>2
    <3> QED BY <3>1, <3>2, <3>3
  <2>2. \A j \in 1..to : plots[j].target \in bound \cup ToSet(ub)
    <3> SUFFICES ASSUME NEW j \in 1..to PROVE plots[j].target \in bound \cup ToSet(ub)
      OBVIOUS
    <3>1. CASE j <= f
      <4>1. j \in 1..f
        BY <1>6, <3>1
      <4> QED BY <1>5, <1>12, <4>1
    <3>2. CASE ~(j <= f)
      <4>1. j \in (f + 1)..to
        BY <1>6, <3>2
      <4>2. plots[j].target \in D
        BY <4>1
      <4> QED BY <1>10, <1>12, <4>2
    <3> QED BY <3>1, <3>2
  <2>3. to \in 0..Len(plots) /\ (pc = "price" => to = Len(plots))
    BY <1>4, <1>6, <1>8 DEF n
  <2>4. Filtered(rec, bound)
    <3> HIDE DEF D
    <3> QED BY <1>4, <1>12, <1>14, <1>15, <2>1, <2>2, <2>3 DEF Filtered
  <2> DEFINE tk == k.taken
  <2>5. tk \in 0..Len(u) /\ Behind(k) = tk /\ Behind(rec) = tk
    BY <1>1, <1>3, <1>14, <1>15 DEF Batched, Behind, u
  <2>6. tk \in 0..Len(ub)
    <3> HIDE DEF tk
    <3> QED BY <1>12, <1>13, <2>5
  <2>7. Batched(rec)
    BY <1>3, <1>14, <1>15, <2>6 DEF Batched
  <2>8. Taken(rec) = Taken(k)
    <3>1. \A i \in 1..tk : ub[i] = u[i]
      <4> HIDE DEF tk
      <4>1. \A i \in 1..tk : i \in 1..Len(ub) /\ i <= Len(u)
        BY <1>12, <1>13, <2>5
      <4> QED BY <1>12, <4>1
    <3> QED BY <1>14, <2>5, <3>1 DEF Taken, u
  <2>9. Counted(rec)
    BY <1>1, <1>3, <1>14, <2>8 DEF Counted, Over
  <2>10. Waited(c, rec, pool, chain)
    BY <1>3, <1>14 DEF Waited
  <2>11. Keyed(rec)
    BY <1>1, <1>3, <1>14 DEF Keyed, Sets
  <2>12. Finished(rec, bound)
    BY <1>14, <1>15 DEF Finished
  <2> QED BY <2>4, <2>7, <2>9, <2>10, <2>11, <2>12 DEF ClientOK
<1>16. rec.pc \in Over \ {"done"} \/ ClientOK(c, rec, bound, pool, chain)
  <2>1. CASE pc \in {"none", "checked"}
    BY <1>14, <2>1 DEF Over
  <2> QED BY <1>8, <1>15, <2>1
<1> QED BY <1>1, <1>16, CommandAlone

(* The outputs sent are of other targets than those sent before. *)
LEMMA StepSignSend ==
    ASSUME BatchInv, NEW c \in Client, SignSend(c)
    PROVE  BatchInv'
<1> DEFINE k == cmd[c]
           tx == BindingTx(c, k)
           ok == k.password /\ ~AlreadyBound(tx.targets)
           pc == IF Len(k.outputs) = BatchSize THEN "prepare" ELSE "wait"
           kept == CountSent(k, ok, tx)
           rec == IF k.password THEN [kept EXCEPT !.unsigned = NoCoins, !.pc = pc]
                  ELSE [k EXCEPT !.unsigned = NoCoins, !.pc = "failed"]
<1>1. k.pc = "send" /\ Set(c, rec) /\ UNCHANGED <<listFile, chain, bound, coinbaseOf>>
  BY DEF SignSend
<1>2. pool' = IF ok THEN pool \cup {tx} ELSE pool
  BY DEF SignSend
<1>3. ClientOK(c, k, bound, pool, chain) /\ DOMAIN k = Fields
  BY DEF BatchInv, ClientOK, Filtered
<1>4. tx.by = c /\ tx.targets = ToSet(k.outputs) /\ tx.key = "none"
  BY DEF BindingTx
<1>5. pc \in {"prepare", "wait"}
  OBVIOUS
<1>6. ok \in BOOLEAN /\ (ok => k.password)
  OBVIOUS
<1> HIDE DEF k, tx, pc, ok
<1>7. Filtered(k, bound) /\ Batched(k) /\ Counted(k) /\ Waited(c, k, pool, chain) /\ Keyed(k)
  BY <1>3 DEF ClientOK
<1>8. /\ DOMAIN kept = Fields /\ kept.txids = IF ok THEN k.txids \cup {tx} ELSE k.txids
      /\ kept.sent = IF ok THEN k.sent \cup {tx} ELSE k.sent
      /\ kept.total = IF ok THEN k.total + Len(k.outputs) ELSE k.total
      /\ kept.plots = k.plots /\ kept.filtered = k.filtered /\ kept.unbound = k.unbound /\ kept.taken = k.taken
      /\ kept.outputs = k.outputs
      /\ kept.coinbase = k.coinbase /\ kept.nonces = k.nonces /\ kept.keys = k.keys
  BY <1>3, <1>6 DEF Fields, CountSent
<1> HIDE DEF kept
<1>9. CASE ~k.password
  <2>1. rec.pc = "failed" /\ ~ok
    BY <1>3, <1>6, <1>9 DEF Fields
  <2>2. pool' = pool
    BY <1>2, <2>1
  <2>3. rec.pc \in Over \ {"done"}
    BY <2>1 DEF Over
  <2> HIDE DEF rec
  <2> QED BY <1>1, <2>2, <2>3, CommandAlone
<1>10. CASE k.password
  <2>1. /\ DOMAIN rec = Fields /\ rec.pc = pc
        /\ rec.txids = kept.txids /\ rec.sent = kept.sent /\ rec.total = kept.total
        /\ rec.plots = k.plots /\ rec.filtered = k.filtered /\ rec.unbound = k.unbound /\ rec.taken = k.taken
        /\ rec.outputs = k.outputs
        /\ rec.coinbase = k.coinbase /\ rec.nonces = k.nonces /\ rec.keys = k.keys
    BY <1>8, <1>10 DEF Fields
  <2> HIDE DEF rec
  <2> DEFINE u == k.unbound
             n == Len(u)
             outs == k.outputs
             m == Len(outs)
             tk == k.taken
             A == TargetsOf(k.sent)
             B == ToSet(outs)
  <2>2. /\ u \in Seq(Target) /\ Once(u) /\ n \in Nat /\ outs \in Seq(Target) /\ m \in Nat
        /\ tk \in 0..n /\ m <= tk /\ \A i \in 1..m : outs[i] = u[tk - m + i]
    BY <1>1, <1>7 DEF Filtered, Batched
  <2>3. Behind(k) = tk - m /\ Behind(rec) = tk
    BY <1>1, <1>5, <2>1 DEF Behind
  <2>4. Taken(k) = {u[i] : i \in 1..(tk - m)} /\ Taken(rec) = {u[i] : i \in 1..tk}
    BY <2>1, <2>3 DEF Taken
  <2>5. A \subseteq Taken(k) /\ k.total \in Nat /\ IsFiniteSet(A) /\ k.total = Cardinality(A)
    BY <1>1, <1>7 DEF Counted, Over
  <2>6. B = {outs[i] : i \in 1..m}
    BY <2>2, SeqIs
  <2>7. Once(outs)
    <3> SUFFICES ASSUME NEW i \in 1..m, NEW j \in 1..m, outs[i] = outs[j] PROVE i = j
      BY DEF Once
    <3> HIDE DEF tk, m, outs, n, u
    <3>1. tk - m + i \in 1..n /\ tk - m + j \in 1..n
      BY <2>2
    <3>2. u[tk - m + i] = u[tk - m + j]
      BY <2>2
    <3>3. tk - m + i = tk - m + j
      BY <2>2, <3>1, <3>2 DEF Once, n
    <3> QED BY <2>2, <3>3
  <2>8. IsFiniteSet(B) /\ Cardinality(B) = m
    BY <2>2, <2>7, OnceCounts
  <2>9. Taken(k) \cap B = {}
    <3> HIDE DEF tk, m, outs, n, u, B
    <3> SUFFICES ASSUME NEW i \in 1..(tk - m), NEW j \in 1..m, u[i] = outs[j] PROVE FALSE
      BY <2>4, <2>6
    <3>1. i \in 1..n /\ tk - m + j \in 1..n /\ i # tk - m + j
      BY <2>2
    <3>2. u[i] = u[tk - m + j]
      BY <2>2
    <3> QED BY <2>2, <3>1, <3>2 DEF Once, n
  <2>10. Taken(k) \subseteq Taken(rec) /\ B \subseteq Taken(rec)
    <3> HIDE DEF tk, m, outs, n, u, B
    <3>1. \A i \in 1..(tk - m) : i \in 1..tk
      BY <2>2
    <3>2. \A j \in 1..m : tk - m + j \in 1..tk
      BY <2>2
    <3> QED BY <2>2, <2>4, <2>6, <3>1, <3>2
  <2>11. A \cap B = {}
    BY <2>5, <2>9
  <2>12. TargetsOf(rec.sent) = IF ok THEN A \cup B ELSE A
    <3>1. CASE ok
      BY <1>4, <1>8, <2>1, <3>1 DEF TargetsOf
    <3>2. CASE ~ok
      BY <1>8, <2>1, <3>2
    <3> QED BY <3>1, <3>2
  <2>13. IsFiniteSet(A \cup B) /\ Cardinality(A \cup B) = k.total + m
    <3> HIDE DEF A, B, m
    <3>1. IsFiniteSet(A \cup B) /\ Cardinality(A \cup B) = Cardinality(A) + Cardinality(B) - Cardinality(A \cap B)
      BY <2>5, <2>8, FS_Union
    <3>2. Cardinality(A \cap B) = 0
      BY <2>11, FS_EmptySet
    <3>3. Cardinality(A \cup B) = k.total + m - 0
      BY <2>5, <2>8, <3>1, <3>2
    <3> QED BY <2>2, <2>5, <3>1, <3>3
  <2>14. Counted(rec)
    <3>1. rec.total \in Nat /\ IsFiniteSet(TargetsOf(rec.sent)) /\ rec.total = Cardinality(TargetsOf(rec.sent))
      <4> HIDE DEF A, B
      <4>1. CASE ok
        <5>1. TargetsOf(rec.sent) = A \cup B
          BY <2>12, <4>1
        <5>2. rec.total = k.total + m
          BY <1>8, <2>1, <4>1
        <5>3. k.total + m \in Nat
          <6> HIDE DEF m
          <6> QED BY <2>2, <2>5
        <5> HIDE DEF m
        <5> QED BY <2>13, <5>1, <5>2, <5>3
      <4>2. CASE ~ok
        BY <1>8, <2>1, <2>5, <2>12, <4>2
      <4> QED BY <4>1, <4>2
    <3>2. TargetsOf(rec.sent) \subseteq Taken(rec)
      <4> HIDE DEF A, B
      <4> QED BY <2>5, <2>10, <2>12
    <3>3. \A x, y \in k.sent : x # y => x.targets \cap y.targets = {}
      BY <1>7 DEF Counted
    <3>4. \A x \in k.sent : x.targets \cap tx.targets = {}
      <4>1. \A x \in k.sent : x.targets \subseteq A
        BY DEF TargetsOf
      <4> HIDE DEF A
      <4> QED BY <1>4, <2>11, <4>1
    <3>5. \A x, y \in rec.sent : x # y => x.targets \cap y.targets = {}
      BY <1>8, <2>1, <3>3, <3>4
    <3> QED BY <3>1, <3>2, <3>5 DEF Counted
  <2>15. Filtered(rec, bound)
    BY <1>1, <1>5, <1>7, <2>1 DEF Filtered
  <2>16. Batched(rec)
    BY <1>5, <1>7, <2>1 DEF Batched
  <2>17. Waited(c, rec, pool', chain)
    BY <1>2, <1>4, <1>7, <1>8, <2>1 DEF Waited
  <2>18. Keyed(rec)
    <3>1. k.keys = {}
      BY <1>1, <1>7 DEF Keyed
    <3>2. k.sent \subseteq rec.sent
      BY <1>8, <2>1
    <3> QED BY <1>5, <1>7, <2>1, <3>1, <3>2 DEF Keyed, Sets
  <2>19. Finished(rec, bound)
    BY <1>5, <2>1 DEF Finished
  <2>20. ClientOK(c, rec, bound', pool', chain')
    <3>1. ClientOK(c, rec, bound, pool', chain)
      BY <2>14, <2>15, <2>16, <2>17, <2>18, <2>19 DEF ClientOK
    <3> QED BY <1>1, <3>1
  <2>21. NodeInv'
    <3>1. NodeInv
      BY DEF BatchInv
    <3>2. \A x \in pool' : x \in pool \/ x.key = "none"
      BY <1>2, <1>4
    <3> QED BY <1>1, <3>1, <3>2 DEF NodeInv, Follows
  <2>22. listFile' \in Seq(Plots) /\ bound \subseteq bound' /\ pool \cup chain \subseteq pool' \cup chain'
    BY <1>1, <1>2 DEF BatchInv
  <2>23. \A d \in Client \ {c} : \A x \in pool' : x.by = d => x \in pool
    BY <1>2, <1>4
  <2> QED BY <1>1, <2>20, <2>21, <2>22, <2>23, CommandSteps
<1> QED BY <1>9, <1>10

(* The node takes the transaction of a pool key with the next nonce only. *)
LEMMA StepPoolPkSend ==
    ASSUME BatchInv, NEW c \in Client, PoolPkSend(c)
    PROVE  BatchInv'
<1> DEFINE k == cmd[c]
           tx(p) == [by |-> c, run |-> k.run, ins |-> k.unsigned, change |-> Change(k.unsigned, 0),
                     targets |-> {}, key |-> p, nonce |-> k.nonces[p], coinbase |-> k.coinbase]
           ok(p) == /\ k.password /\ k.nonces[p] = coinbaseOf[p].nonce + 1
                    /\ \A x \in pool : x.key # p
           rec(p) == IF ok(p)
                     THEN [k EXCEPT !.txids = k.txids \cup {tx(p)}, !.sent = k.sent \cup {tx(p)},
                                    !.unsigned = NoCoins, !.keys = k.keys \ {p},
                                    !.pc = IF k.keys = {p} THEN "wait" ELSE "pkCreate"]
                     ELSE [k EXCEPT !.unsigned = NoCoins, !.pc = "failed"]
<1>1. PICK p \in k.keys : Set(c, rec(p)) /\ pool' = IF ok(p) THEN pool \cup {tx(p)} ELSE pool
  BY DEF PoolPkSend
<1>2. k.pc = "pkSend" /\ UNCHANGED <<listFile, chain, bound, coinbaseOf>>
  BY DEF PoolPkSend
<1>3. ClientOK(c, k, bound, pool, chain) /\ DOMAIN k = Fields /\ NodeInv
  BY DEF BatchInv, ClientOK, Filtered
<1> DEFINE t == tx(p)
           r == rec(p)
<1>4. t.by = c /\ t.targets = {} /\ t.key = p /\ t.nonce = k.nonces[p] /\ t.coinbase = k.coinbase
  OBVIOUS
<1>5. Set(c, r) /\ pool' = IF ok(p) THEN pool \cup {t} ELSE pool
  BY <1>1
<1>6. r = IF ok(p)
          THEN [k EXCEPT !.txids = k.txids \cup {t}, !.sent = k.sent \cup {t},
                         !.unsigned = NoCoins, !.keys = k.keys \ {p},
                         !.pc = IF k.keys = {p} THEN "wait" ELSE "pkCreate"]
          ELSE [k EXCEPT !.unsigned = NoCoins, !.pc = "failed"]
  OBVIOUS
<1> HIDE DEF k, t, r
<1>7. Filtered(k, bound) /\ Batched(k) /\ Counted(k) /\ Waited(c, k, pool, chain) /\ Keyed(k)
  BY <1>3 DEF ClientOK
<1>8. CASE ~ok(p)
  <2>1. r.pc = "failed"
    BY <1>3, <1>6, <1>8 DEF Fields
  <2>2. pool' = pool
    BY <1>5, <1>8
  <2>3. r.pc \in Over \ {"done"}
    BY <2>1 DEF Over
  <2> QED BY <1>2, <1>5, <2>2, <2>3, CommandAlone
<1>9. CASE ok(p)
  <2>1. /\ DOMAIN r = Fields /\ r.pc = (IF k.keys = {p} THEN "wait" ELSE "pkCreate")
        /\ r.txids = k.txids \cup {t} /\ r.sent = k.sent \cup {t} /\ r.total = k.total
        /\ r.plots = k.plots /\ r.filtered = k.filtered /\ r.unbound = k.unbound /\ r.taken = k.taken
        /\ r.outputs = k.outputs
        /\ r.coinbase = k.coinbase /\ r.nonces = k.nonces /\ r.keys = k.keys \ {p}
    BY <1>3, <1>6, <1>9 DEF Fields
  <2>2. pool' = pool \cup {t}
    BY <1>5, <1>9
  <2>3. p \in PoolKey /\ p # "none" /\ p \in DOMAIN k.nonces /\ k.nonces[p] \in Nat
    BY <1>7, BatchAssumption DEF Keyed
  <2>4. Filtered(r, bound)
    BY <1>2, <1>7, <2>1 DEF Filtered
  <2>5. Batched(r)
    BY <1>7, <2>1 DEF Batched
  <2>6. Taken(r) = Taken(k)
    BY <1>2, <2>1 DEF Taken, Behind
  <2>7. TargetsOf(r.sent) = TargetsOf(k.sent)
    BY <1>4, <2>1 DEF TargetsOf
  <2>8. Counted(r)
    <3>1. \A x, y \in r.sent : x # y => x.targets \cap y.targets = {}
      BY <1>4, <1>7, <2>1 DEF Counted
    <3>2. /\ r.total \in Nat /\ IsFiniteSet(TargetsOf(r.sent)) /\ r.total = Cardinality(TargetsOf(r.sent))
          /\ TargetsOf(r.sent) \subseteq Taken(r)
      BY <1>2, <1>7, <2>1, <2>6, <2>7 DEF Counted, Over
    <3> QED BY <3>1, <3>2 DEF Counted
  <2>9. Waited(c, r, pool', chain)
    BY <1>4, <1>7, <2>1, <2>2 DEF Waited
  <2>10. Keyed(r)
    <3>1. Sets(t, r, p)
      BY <1>4, <2>1 DEF Sets
    <3>2. \A q \in DOMAIN k.nonces \ k.keys : \E x \in k.sent : Sets(x, r, q)
      BY <1>7, <2>1 DEF Keyed, Sets
    <3>3. \A q \in DOMAIN r.nonces \ r.keys : \E x \in r.sent : Sets(x, r, q)
      BY <2>1, <3>1, <3>2
    <3>4. /\ r.keys \subseteq DOMAIN r.nonces /\ DOMAIN r.nonces \subseteq PoolKey
          /\ \A q \in DOMAIN r.nonces : r.nonces[q] \in Nat
      BY <1>7, <2>1 DEF Keyed
    <3>5. r.pc \in {"filter", "price", "prepare", "create", "send", "wait", "done"} => r.keys = {}
      BY <2>1
    <3> QED BY <3>3, <3>4, <3>5 DEF Keyed
  <2>11. Finished(r, bound)
    BY <2>1 DEF Finished
  <2>12. ClientOK(c, r, bound', pool', chain')
    <3>1. ClientOK(c, r, bound, pool', chain)
      BY <2>4, <2>5, <2>8, <2>9, <2>10, <2>11 DEF ClientOK
    <3> QED BY <1>2, <3>1
  <2>13. NodeInv'
    <3>1. t.nonce = coinbaseOf[p].nonce + 1 /\ \A x \in pool : x.key # p
      BY <1>4, <1>9
    <3> HIDE DEF ok
    <3>2. \A x \in pool' : x.key # "none" => x.nonce = coinbaseOf[x.key].nonce + 1
      BY <1>3, <1>4, <2>2, <3>1 DEF NodeInv
    <3>3. \A x, y \in pool' : x.key # "none" /\ x.key = y.key => x = y
      BY <1>3, <1>4, <2>2, <3>1 DEF NodeInv
    <3>4. \A x \in pool' \cup chain : x.key # "none" => x.key \in PoolKey /\ x.nonce \in Nat /\ x.targets = {}
      BY <1>3, <1>4, <2>2, <2>3 DEF NodeInv
    <3> QED BY <1>2, <1>3, <3>2, <3>3, <3>4 DEF NodeInv, Follows
  <2>14. listFile' \in Seq(Plots) /\ bound \subseteq bound' /\ pool \cup chain \subseteq pool' \cup chain'
    BY <1>2, <2>2 DEF BatchInv
  <2>15. \A d \in Client \ {c} : \A x \in pool' : x.by = d => x \in pool
    BY <1>4, <2>2
  <2> HIDE DEF ok
  <2> QED BY <1>5, <2>12, <2>13, <2>14, <2>15, CommandSteps
<1> QED BY <1>8, <1>9

(* The invariant holds at the start, whatever the node holds. *)
LEMMA BatchStarts == BatchInit => BatchInv
<1> SUFFICES ASSUME BatchInit PROVE BatchInv
  OBVIOUS
<1>1. listFile \in Seq(Plots) /\ DOMAIN cmd = Client
  BY DEF BatchInit, NoFile
<1>2. NodeInv
  BY DEF BatchInit, NodeInv
<1> DEFINE k == NoCmd
<1>3. /\ DOMAIN k = Fields /\ k.pc = "idle" /\ k.plots = <<>> /\ k.sent = {}
      /\ k.total = 0 /\ k.nonces = <<>>
      /\ k.filtered = 0 /\ k.unbound = <<>> /\ k.taken = 0 /\ k.outputs = <<>>
      /\ k.txids = {} /\ k.keys = {}
  BY DEF NoCmd, Fields
<1>4. \A c \in Client : cmd[c] = k
  BY DEF BatchInit
<1> HIDE DEF k
<1>5. k.plots \in Seq(Plots) /\ EachOnce(k.plots)
  BY <1>3 DEF EachOnce
<1>6. \A c \in Client : ClientOK(c, k, bound, pool, chain)
  BY <1>3, <1>5, NothingOK
<1> QED BY <1>1, <1>2, <1>4, <1>6 DEF BatchInv

(* Every step of a client, of the node or of another wallet keeps it. *)
LEMMA BatchSteps == BatchInv /\ [BatchNext]_batchVars => BatchInv'
<1> SUFFICES ASSUME BatchInv, [BatchNext]_batchVars PROVE BatchInv'
  OBVIOUS
<1>1. CASE UNCHANGED batchVars
  <2>1. UNCHANGED <<listFile, cmd, pool, chain, bound, coinbaseOf>>
    BY <1>1 DEF batchVars
  <2>2. listFile' \in Seq(Plots) /\ NodeInv
    BY <2>1 DEF BatchInv
  <2>3. NodeInv'
    BY <2>1, <2>2 DEF NodeInv, Follows
  <2> QED BY <2>1, <2>2, <2>3, NodeSteps
<1>2. ASSUME NEW type \in {"m1", "m2"}, NEW flag, NEW overwrite, NEW interrupted,
             GetBindingList(type, flag, overwrite, interrupted)
      PROVE  BatchInv'
  BY <1>2, StepGetBindingList
<1>3. ASSUME NEW c \in Client, ClientSteps(c) PROVE BatchInv'
  BY <1>3, StepFilter, StepCheckBalance, StepPrepare, StepCreate, StepSignSend, StepPoolPkNonce,
     StepPoolPkCreate, StepPoolPkSend, StepPollStatus, StepReport DEF ClientSteps
<1>4. ASSUME NEW c \in Client, NEW isCheck, NEW password, StartBatch(c, isCheck, password) PROVE BatchInv'
  BY <1>4, StepStartBatch
<1>5. ASSUME NEW c \in Client, NEW password, StartPoolPk(c, c, password) PROVE BatchInv'
  BY <1>5, StepStartPoolPk
<1>6. CASE NodePacks \/ NodeBuries \/ OtherBinds
  BY <1>6, StepNodePacks, StepNodeBuries, StepOtherBinds
<1> QED BY <1>1, <1>2, <1>3, <1>4, <1>5, <1>6 DEF BatchNext

(* Whatever clients and node do, BatchInv is an invariant of the commands. *)
THEOREM CommandsInvariant == BatchSpec => []BatchInv
BY BatchStarts, BatchSteps, PTL DEF BatchSpec

(* What batchbinding and batchbindpoolpk report is so on the chain.        *)
THEOREM CountsAreBound == BatchSpec => []CountsWhatIsBound
BY CommandsInvariant, InvCounts, PTL
=============================================================================
