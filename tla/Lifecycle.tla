----------------------------- MODULE Lifecycle -----------------------------
(***************************************************************************)
(* The process around the wallet: massMain opens the databases, creates    *)
(* the node and lets the Loader open the wallet and serve the API;         *)
(* mainInterruptHandler shuts all of it down on a signal or on a QuitClient *)
(* request (mass.go, loader.go, server.go, signal.go, api_server.go).      *)
(*                                                                         *)
(* What Stop of the wallet waits for is in WorkerTasks; here it ends.      *)
(***************************************************************************)
EXTENDS Naturals

CONSTANTS
    MaxInterrupts       \* bound: signals and QuitClient requests

VARIABLES
    main,           \* where massMain is, or how the process ended
    openDbs,        \* subset of {"binding", "blocks", "wallet"}
    server,         \* [started, shutdown, wg, sync]: sync is the sync manager
    walletMgr,      \* "none", "created", "running", "stopped"
    apiServer,      \* "none", "serving", "stopped"
    interruptChan,  \* signals queued, or NilChan
    catcher,        \* mainInterruptHandler: "none", "select" or a step of the callback
    callbacks,      \* registered handlers
    isShutdown,
    late,           \* the callback runs because it was added after the signal
    quits,          \* QuitClient goroutines about to send
    monitor,        \* the goroutine between closeDbChannel and shutdownChannel
    notices,        \* goroutines that send to shutdownChannel
    interrupts,
    unheard         \* history: a signal was taken when no callback was registered

lifeVars == <<main, openDbs, server, walletMgr, apiServer, interruptChan, catcher, callbacks,
              isShutdown, late, quits, monitor, notices, interrupts, unheard>>
loadVars == <<openDbs, walletMgr, apiServer>>
catchVars == <<interruptChan, catcher, callbacks, isShutdown, late, quits, notices, interrupts, unheard>>

NilChan == 2        \* interruptChannel before addInterruptHandler; its capacity is 1
Ended == {"exited", "failed", "killed", "panic"}
Alive == main \notin Ended

-----------------------------------------------------------------------------
(* massMain up to the interrupt handler.  An error closes what massMain     *)
(* itself has opened.                                                       *)

MainFails(opened) ==
    /\ openDbs' = opened \ {"binding", "blocks"}
    /\ main' = "failed"

openStateDatabase ==
    /\ main = "binding"
    /\ \/ main' = "blocks" /\ openDbs' = {"binding"}
       \/ MainFails({})
    /\ UNCHANGED <<server, walletMgr, apiServer, catchVars, monitor>>

setupBlockDB ==
    /\ main = "blocks"
    /\ \/ main' = "server" /\ openDbs' = openDbs \cup {"blocks"}
       \/ MainFails(openDbs)
    /\ UNCHANGED <<server, walletMgr, apiServer, catchVars, monitor>>

newServer ==
    /\ main = "server"
    /\ \/ main' = "load" /\ UNCHANGED openDbs
       \/ MainFails(openDbs)
    /\ UNCHANGED <<server, walletMgr, apiServer, catchVars, monitor>>

(* createWallet or openWallet: the database and the manager *)
LoadWallet ==
    /\ main = "load"
    /\ \/ main' = "startWallet" /\ openDbs' = openDbs \cup {"wallet"} /\ walletMgr' = "created"
       \/ MainFails(openDbs) /\ UNCHANGED walletMgr     \* NewWalletManager fails: closed again
    /\ UNCHANGED <<server, apiServer, catchVars, monitor>>

(* WalletManager.Start; on failure the wallet's database stays open. *)
StartWallet ==
    /\ main = "startWallet"
    /\ \/ main' = "onLoaded" /\ walletMgr' = "running" /\ UNCHANGED openDbs
       \/ MainFails(openDbs) /\ UNCHANGED walletMgr
    /\ UNCHANGED <<server, apiServer, catchVars, monitor>>

onLoaded ==
    /\ main = "onLoaded"
    /\ \/ main' = "handler" /\ apiServer' = "serving" /\ UNCHANGED openDbs
       \/ MainFails(openDbs) /\ UNCHANGED apiServer     \* the port is taken
    /\ UNCHANGED <<server, walletMgr, catchVars, monitor>>

(* addInterruptHandler makes the channel, then waits for its goroutine. *)
addInterruptHandler ==
    /\ main = "handler"
    /\ interruptChan' = 0 /\ catcher' = "select"
    /\ main' = "adding"
    /\ UNCHANGED <<loadVars, server, callbacks, isShutdown, late, quits, monitor, notices, interrupts, unheard>>

(* server.Start: the sync manager, then wg.Add. *)
ServerStart ==
    /\ main = "start"
    /\ server' = [server EXCEPT !.started = TRUE, !.sync = "running"]
    /\ main' = "add"
    /\ UNCHANGED <<loadVars, catchVars, monitor>>
ServerAdd ==
    /\ main = "add"
    /\ server' = [server EXCEPT !.wg = @ + 1]
    /\ main' = "monitor"
    /\ UNCHANGED <<loadVars, catchVars, monitor>>

(* Mutant form: nobody listens to closeDbChannel. *)
WaitAlone ==
    /\ main = "monitor"
    /\ main' = "wait"
    /\ UNCHANGED <<loadVars, server, catchVars, monitor>>

StartMonitor ==
    /\ main = "monitor"
    /\ monitor' = "waiting" /\ main' = "wait"
    /\ UNCHANGED <<loadVars, server, catchVars>>

(* <-shutdownChannel *)
MainReturns ==
    /\ main = "wait"
    /\ \/ monitor = "sending" /\ monitor' = "gone" /\ UNCHANGED notices
       \/ notices > 0 /\ notices' = notices - 1 /\ UNCHANGED monitor
    /\ main' = "exited"
    /\ UNCHANGED <<loadVars, server, interruptChan, catcher, callbacks, isShutdown, late, quits, interrupts, unheard>>

-----------------------------------------------------------------------------
(* Signals.  Before signal.Notify a signal ends the process; afterwards it  *)
(* is dropped when the channel is full.                                     *)
Signal ==
    /\ Alive /\ interrupts < MaxInterrupts
    /\ interrupts' = interrupts + 1
    /\ main' = IF interruptChan = NilChan THEN "killed" ELSE main
    /\ interruptChan' = IF interruptChan = 0 THEN 1 ELSE interruptChan
    /\ UNCHANGED <<loadVars, server, catcher, callbacks, isShutdown, late, quits, monitor, notices, unheard>>

(* The goroutine of QuitClient sends to the channel as it is then: for ever *)
(* when it is still nil.                                                    *)
QuitClient ==
    /\ Alive /\ apiServer = "serving" /\ interrupts < MaxInterrupts
    /\ interrupts' = interrupts + 1
    /\ quits' = IF interruptChan = NilChan THEN quits ELSE quits + 1
    /\ UNCHANGED <<main, loadVars, server, interruptChan, catcher, callbacks, isShutdown, late, monitor, notices, unheard>>
quitClient ==
    /\ Alive /\ quits > 0 /\ interruptChan = 0
    /\ interruptChan' = 1 /\ quits' = quits - 1
    /\ UNCHANGED <<main, loadVars, server, catcher, callbacks, isShutdown, late, monitor, notices, interrupts, unheard>>

-----------------------------------------------------------------------------
(* mainInterruptHandler *)

TakeSignal ==
    /\ Alive /\ catcher = "select" /\ interruptChan = 1
    /\ interruptChan' = 0 /\ isShutdown' = TRUE
    /\ catcher' = IF ~isShutdown /\ callbacks > 0 THEN "stop" ELSE "select"
    /\ notices' = IF ~isShutdown /\ callbacks = 0 THEN notices + 1 ELSE notices
    /\ unheard' = (unheard \/ (~isShutdown /\ callbacks = 0))
    /\ UNCHANGED <<main, loadVars, server, callbacks, late, quits, monitor, interrupts>>

TakeHandler ==
    /\ main = "adding" /\ catcher = "select"
    /\ main' = "start"
    /\ callbacks' = callbacks + 1
    /\ catcher' = IF isShutdown THEN "stop" ELSE "select"
    /\ late' = isShutdown
    /\ UNCHANGED <<loadVars, server, interruptChan, isShutdown, quits, monitor, notices, interrupts, unheard>>

(* server.Stop: wg.Done panics when Start has not come to wg.Add. *)
ServerStop ==
    /\ Alive /\ catcher = "stop"
    /\ server' = [server EXCEPT !.shutdown = TRUE, !.sync = "stopped", !.wg = IF @ = 0 THEN 0 ELSE @ - 1]
    /\ main' = IF server.wg = 0 THEN "panic" ELSE main
    /\ catcher' = "unload"
    /\ UNCHANGED <<loadVars, interruptChan, callbacks, isShutdown, late, quits, monitor, notices, interrupts, unheard>>

(* UnloadWallet: APIServer.Stop, WalletManager.Stop *)
UnloadApi ==
    /\ Alive /\ catcher = "unload"
    /\ apiServer' = "stopped"
    /\ catcher' = "stopWallet"
    /\ UNCHANGED <<main, openDbs, server, walletMgr, interruptChan, callbacks, isShutdown, late, quits, monitor, notices, interrupts, unheard>>
UnloadWallet ==
    /\ Alive /\ catcher = "stopWallet"
    /\ walletMgr' = "stopped" /\ openDbs' = openDbs \ {"wallet"}
    /\ catcher' = "wait"
    /\ UNCHANGED <<main, server, apiServer, interruptChan, callbacks, isShutdown, late, quits, monitor, notices, interrupts, unheard>>

WaitForShutdown ==
    /\ Alive /\ catcher = "wait" /\ server.wg = 0
    /\ catcher' = "close"
    /\ UNCHANGED <<main, loadVars, server, interruptChan, callbacks, isShutdown, late, quits, monitor, notices, interrupts, unheard>>
CloseDbs ==
    /\ Alive /\ catcher = "close"
    /\ openDbs' = openDbs \ {"binding", "blocks"}
    /\ catcher' = "tell"
    /\ UNCHANGED <<main, server, walletMgr, apiServer, interruptChan, callbacks, isShutdown, late, quits, monitor, notices, interrupts, unheard>>

(* closeDbChannel <- struct{}{}; a callback run for a signal is followed by *)
(* a notice of its own.                                                     *)
TellClosed ==
    /\ Alive /\ catcher = "tell" /\ monitor = "waiting"
    /\ monitor' = "sending" /\ catcher' = "select"
    /\ notices' = IF late THEN notices ELSE notices + 1
    /\ UNCHANGED <<main, loadVars, server, interruptChan, callbacks, isShutdown, late, quits, interrupts, unheard>>

-----------------------------------------------------------------------------
LifeInitAt(m) ==
    /\ main = m /\ openDbs = {}
    /\ server = [started |-> FALSE, shutdown |-> FALSE, wg |-> 0, sync |-> "none"]
    /\ walletMgr = "none" /\ apiServer = "none"
    /\ interruptChan = NilChan /\ catcher = "none" /\ callbacks = 0
    /\ isShutdown = FALSE /\ late = FALSE /\ quits = 0
    /\ monitor = "none" /\ notices = 0 /\ interrupts = 0 /\ unheard = FALSE
LifeInit == LifeInitAt("binding")

MainSteps ==
    \/ openStateDatabase \/ setupBlockDB \/ newServer \/ LoadWallet \/ StartWallet \/ onLoaded
    \/ addInterruptHandler \/ ServerStart \/ ServerAdd \/ StartMonitor \/ MainReturns
CatcherSteps ==
    \/ TakeSignal \/ TakeHandler \/ ServerStop \/ UnloadApi \/ UnloadWallet
    \/ WaitForShutdown \/ CloseDbs \/ TellClosed
LifeNext == MainSteps \/ CatcherSteps \/ Signal \/ QuitClient \/ quitClient

LifeSpec == LifeInit /\ [][LifeNext]_lifeVars

(* Go schedules main, the catcher and the sender of a quit request. *)
LifeFairness == WF_lifeVars(MainSteps) /\ WF_lifeVars(CatcherSteps) /\ WF_lifeVars(quitClient)

-----------------------------------------------------------------------------
(* The wallet's database is closed after the API that calls the wallet, the *)
(* node's after the wallet and the sync manager.  When main returns, all    *)
(* databases are closed, unless the signal was taken before the callback    *)
(* was registered.                                                          *)
ClosedInOrder ==
    /\ Alive /\ walletMgr \in {"created", "running"} => {"wallet", "blocks", "binding"} \subseteq openDbs
    /\ Alive /\ (apiServer = "serving" \/ server.sync = "running") => "blocks" \in openDbs
    /\ main = "exited" /\ ~unheard => openDbs = {} /\ walletMgr = "stopped" /\ server.sync = "stopped"

(* A process that runs never has a database closed under a component that   *)
(* still uses it, and a shutdown that has begun ends: the handler, the      *)
(* goroutine that hands its word on and main never wait for one another,    *)
(* however many signals and QuitClient requests arrive and when.  It ends   *)
(* in a panic of wg.Done only when the signal came before Start was done.   *)
ShutdownOrderly ==
    /\ []ClosedInOrder
    /\ isShutdown ~> (main = "exited" \/ (main = "panic" /\ monitor = "none"))
=============================================================================
