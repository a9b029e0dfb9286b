---------------------------- MODULE MatchRuntime ----------------------------
(***************************************************************************)
(* The lifecycle owner of a match and its progress gate                    *)
(* (match/runtime.py), with the threads that meet there: command threads   *)
(* calling dispatch(), worker threads calling run(), threads waiting for a *)
(* pause boundary, and the browser's MATCH_ENDED subscriber, which calls   *)
(* mark_match_ended() on the worker's own thread (cli/play.py, _on_event). *)
(*                                                                         *)
(* The runtime lock is held from a Begin or Mark action to the matching    *)
(* Commit or MarkStopsGate; the gate's own lock makes each gate operation  *)
(* one step.  A waiting thread leaves Condition.wait() only after a        *)
(* notify_all(), and then evaluates its condition afresh.                  *)
(***************************************************************************)
EXTENDS Naturals

CONSTANTS
  Ids,            \* command ids clients may use
  Workers,        \* threads that may call run()
  HasSuccessor,   \* was a successor factory injected?
  MaxTick,        \* bound on the ticks of a match (the runaway limit)
  MaxIndex,       \* bound on the successor matches
  None            \* no command, no tick

ASSUME RuntimeAssumption ==
  /\ HasSuccessor \in BOOLEAN
  /\ MaxTick \in Nat \ {0}
  /\ MaxIndex \in Nat
  /\ None \notin Ids
  /\ None \notin Nat

VARIABLES
  status,         \* the published status payload
  receipts,       \* command id -> retained receipt
  stopRequested,
  workerStarted,
  pauseEpochs,    \* pause command id -> gate epoch
  held,           \* the runtime lock: free, or the operation inside it
  open, stopped, epoch,          \* the gate
  blockedEpoch, blockedTick,     \* the gate's last recorded boundary
  worker,         \* worker threads
  waiter,         \* pause command id -> the thread awaiting its boundary
  evidence,       \* matches whose MATCH_ENDED the ledger facade holds
  answers         \* command id -> statuses the client has been sent

gate == <<open, stopped, epoch, blockedEpoch, blockedTick>>
owner == <<status, receipts, stopRequested, workerStarted, pauseEpochs, held, answers>>
runtimeVars == <<owner, gate, worker, waiter, evidence>>
-----------------------------------------------------------------------------
Statuses == {"ready", "running", "paused", "ended", "failed"}
Modes == {"one_game", "continuous"}
Actions == {"start", "pause", "resume", "stop"}

Payload == [status : Statuses, mode : Modes \cup {None}, revision : Nat,
            index : Nat, last : Ids \cup {None}]

Receipt == [action : Actions, expected : Nat, reply : Payload]

ASSUME NoneAssumption == None \notin Receipt

\* The successor FSM reads the mode of the last START: the payload keeps it.
Free == [op |-> "free", id |-> None, mode |-> None]
Idle == held = Free

NewWorker == [pc |-> "new", match |-> 0, tick |-> 0, woken |-> FALSE]
WorkerStates == {"new", "loop", "blocked", "ticking", "stopping", "announcing",
                 "marking", "ended", "raised", "failing", "done"}
Alive(w) == worker[w].pc \notin {"new", "done"}

NewWaiter == [pc |-> "none", woken |-> FALSE, tick |-> 0]
WaiterStates == {"none", "waiting", "released", "refused"}

RuntimeInit ==
  /\ status = [status |-> "ready", mode |-> None, revision |-> 0, index |-> 0, last |-> None]
  /\ receipts = [c \in Ids |-> None]
  /\ stopRequested = FALSE
  /\ workerStarted = FALSE
  /\ pauseEpochs = [c \in Ids |-> 0]
  /\ held = Free
  /\ open = TRUE /\ stopped = FALSE /\ epoch = 0
  /\ blockedEpoch = 0 /\ blockedTick = None
  /\ worker = [w \in Workers |-> NewWorker]
  /\ waiter = [c \in Ids |-> NewWaiter]
  /\ evidence = {}
  /\ answers = [c \in Ids |-> {}]

\* Condition.notify_all(), from a thread other than the gate's waiters, or from
\* worker self, which is not in wait() at that moment.
Woken(ws) == [w \in Workers |-> [ws[w] EXCEPT !.woken = @ \/ ws[w].pc = "blocked"]]
WokenWaiters == [c \in Ids |-> [waiter[c] EXCEPT !.woken = @ \/ waiter[c].pc = "waiting"]]

NotifyAll == worker' = Woken(worker) /\ waiter' = WokenWaiters

Arrives(w, pc, tick) ==
  [worker EXCEPT ![w] = [pc |-> pc, match |-> worker[w].match, tick |-> tick, woken |-> FALSE]]

Goto(w, pc) == Arrives(w, pc, worker[w].tick)
-----------------------------------------------------------------------------
(* The gate *)
GateStart ==
  /\ stopped' = FALSE /\ open' = TRUE
  /\ NotifyAll
  /\ UNCHANGED <<epoch, blockedEpoch, blockedTick>>

\* Mutant: pause() opens an epoch and leaves the gate as it is.
GatePauseLeavesOpen ==
  /\ epoch' = epoch + 1
  /\ NotifyAll
  /\ UNCHANGED <<open, stopped, blockedEpoch, blockedTick>>

GatePause ==
  /\ open' = (open /\ stopped)
  /\ epoch' = epoch + 1
  /\ NotifyAll
  /\ UNCHANGED <<stopped, blockedEpoch, blockedTick>>

\* Mutant: resume() notifies nobody.
GateResumeSilently ==
  /\ ~stopped
  /\ open' = TRUE
  /\ UNCHANGED <<worker, waiter, stopped, epoch, blockedEpoch, blockedTick>>

GateResume ==
  /\ ~stopped
  /\ open' = TRUE
  /\ NotifyAll
  /\ UNCHANGED <<stopped, epoch, blockedEpoch, blockedTick>>

GateStop ==
  /\ stopped' = TRUE /\ open' = FALSE
  /\ UNCHANGED <<epoch, blockedEpoch, blockedTick>>

-----------------------------------------------------------------------------
(* dispatch() *)
\* A command with a fresh id passes the compare-and-swap on the revision.  Any
\* other delivery raises and changes nothing, save the replay of a receipt.
Begin(c, action, mode) ==
  /\ Idle
  /\ receipts[c] = None
  /\ held' = [op |-> action, id |-> c, mode |-> mode]
  /\ UNCHANGED <<status, receipts, answers>>

BeginStart(c, mode) ==
  /\ \/ status.status = "ready"
     \/ /\ status.status = "ended"
        /\ status.mode = "continuous" /\ mode = "continuous"
        /\ HasSuccessor
        /\ status.index < MaxIndex
  /\ Begin(c, "start", mode)
  /\ GateStart
  /\ stopRequested' = FALSE
  /\ workerStarted' = FALSE
  /\ UNCHANGED <<pauseEpochs, evidence>>

BeginPause(c) ==
  /\ status.status = "running"
  /\ Begin(c, "pause", None)
  /\ GatePause
  /\ pauseEpochs' = [pauseEpochs EXCEPT ![c] = epoch + 1]
  /\ UNCHANGED <<stopRequested, workerStarted, evidence>>

\* On a stopped gate resume() raises and the command is not admitted.
BeginResume(c) ==
  /\ status.status = "paused"
  /\ Begin(c, "resume", None)
  /\ GateResume
  /\ UNCHANGED <<stopRequested, workerStarted, pauseEpochs, evidence>>

BeginStop(c) ==
  /\ status.status \in {"running", "paused"}
  /\ workerStarted
  /\ Begin(c, "stop", None)
  /\ GateStop
  /\ NotifyAll
  /\ stopRequested' = TRUE
  /\ UNCHANGED <<workerStarted, pauseEpochs, evidence>>

\* Mutant: the revision is not advanced by PAUSE and RESUME.
AdmittedSameRevision ==
  [status   |-> CASE held.op \in {"start", "resume"} -> "running"
                  [] held.op = "pause" -> "paused"
                  [] OTHER -> status.status,
   mode     |-> IF held.op = "start" THEN held.mode ELSE status.mode,
   revision |-> IF held.op \in {"pause", "resume"} THEN status.revision
                ELSE status.revision + 1,
   index    |-> IF held.op = "start" /\ status.status = "ended"
                THEN status.index + 1 ELSE status.index,
   last     |-> held.id]

\* The status the admitted command commits.
Admitted ==
  [status   |-> CASE held.op \in {"start", "resume"} -> "running"
                  [] held.op = "pause" -> "paused"
                  [] OTHER -> status.status,
   mode     |-> IF held.op = "start" THEN held.mode ELSE status.mode,
   revision |-> status.revision + 1,
   index    |-> IF held.op = "start" /\ status.status = "ended"
                THEN status.index + 1 ELSE status.index,
   last     |-> held.id]

\* The receipt is retained, and the reply sent: it may be lost on its way.
Commit ==
  /\ held.op \in Actions
  /\ status' = Admitted
  /\ receipts' = [receipts EXCEPT ![held.id] =
                    [action |-> held.op, expected |-> status.revision, reply |-> Admitted]]
  /\ answers' = [answers EXCEPT ![held.id] = @ \cup {Admitted}]
  /\ held' = Free
  /\ UNCHANGED <<stopRequested, workerStarted, pauseEpochs, gate, worker, waiter, evidence>>

\* The client retries a command, which it may have an answer to.
Redeliver(c) ==
  /\ Idle
  /\ receipts[c] # None
  /\ answers' = [answers EXCEPT ![c] = @ \cup {receipts[c].reply}]
  /\ UNCHANGED <<status, receipts, stopRequested, workerStarted, pauseEpochs, held,
                 gate, worker, waiter, evidence>>

Dispatch ==
  \E c \in Ids :
    \/ \E mode \in Modes : BeginStart(c, mode)
    \/ BeginPause(c)
    \/ BeginResume(c)
    \/ BeginStop(c)
-----------------------------------------------------------------------------
(* run() and the runner's tick loop *)
\* Mutant: run() does not look for a worker already started.
RunTwice(w) ==
  /\ Idle
  /\ worker[w].pc = "new"
  /\ status.status = "running"
  /\ ~stopRequested
  /\ workerStarted' = TRUE
  /\ worker' = [worker EXCEPT ![w] =
                  [pc |-> "loop", match |-> status.index, tick |-> 0, woken |-> FALSE]]
  /\ UNCHANGED <<status, receipts, stopRequested, pauseEpochs, held, answers,
                 gate, waiter, evidence>>

Run(w) ==
  /\ Idle
  /\ worker[w].pc = "new"
  /\ status.status = "running"
  /\ ~stopRequested
  /\ ~workerStarted
  /\ workerStarted' = TRUE
  /\ worker' = [worker EXCEPT ![w] =
                  [pc |-> "loop", match |-> status.index, tick |-> 0, woken |-> FALSE]]
  /\ UNCHANGED <<status, receipts, stopRequested, pauseEpochs, held, answers,
                 gate, waiter, evidence>>

\* At the checkpoint, on arrival or when woken inside it.
AtCheckpoint(w) ==
  \/ worker[w].pc = "loop"
  \/ worker[w].pc = "blocked" /\ worker[w].woken

\* Mutant: a worker that blocks does not notify the waiters.
BlockSilently(w) ==
  /\ AtCheckpoint(w)
  /\ ~open /\ ~stopped
  /\ blockedEpoch' = epoch
  /\ blockedTick' = worker[w].tick + 1
  /\ worker' = [worker EXCEPT ![w] = [@ EXCEPT !.pc = "blocked", !.woken = FALSE]]
  /\ UNCHANGED <<owner, open, stopped, epoch, evidence, waiter>>

Block(w) ==
  /\ AtCheckpoint(w)
  /\ ~open /\ ~stopped
  /\ blockedEpoch' = epoch
  /\ blockedTick' = worker[w].tick + 1
  /\ worker' = [Woken(worker) EXCEPT ![w] = [@ EXCEPT !.pc = "blocked", !.woken = FALSE]]
  /\ waiter' = WokenWaiters
  /\ UNCHANGED <<owner, open, stopped, epoch, evidence>>

Pass(w) ==
  /\ AtCheckpoint(w)
  /\ open /\ ~stopped
  /\ worker' = Goto(w, "ticking")
  /\ UNCHANGED <<owner, gate, waiter, evidence>>

\* ProgressGateStoppedError: the runner will publish MATCH_ENDED (aborted).
Halt(w) ==
  /\ AtCheckpoint(w)
  /\ stopped
  /\ worker' = Goto(w, "stopping")
  /\ UNCHANGED <<owner, gate, waiter, evidence>>

TickContinues(w) ==
  /\ worker[w].pc = "ticking"
  /\ worker[w].tick + 1 < MaxTick
  /\ worker' = Arrives(w, "loop", worker[w].tick + 1)
  /\ UNCHANGED <<owner, gate, waiter, evidence>>

\* A deciding tick, or the abort of a stopped match, publishes MATCH_ENDED: the
\* ledger facade has staged it when the browser's subscriber receives it.
PublishEnded(w) ==
  /\ worker[w].pc \in {"ticking", "stopping"}
  /\ evidence' = evidence \cup {worker[w].match}
  /\ worker' = Arrives(w, "announcing", IF worker[w].pc = "ticking" THEN worker[w].tick + 1
                                         ELSE worker[w].tick)
  /\ UNCHANGED <<owner, gate, waiter>>

\* mark_match_ended(), under the lock: first the status, then the gate.
MarkCommits(w) ==
  /\ worker[w].pc = "announcing"
  /\ Idle
  /\ status.status \in {"running", "paused"}
  /\ status.index \in evidence
  /\ status' = [status EXCEPT !.status = "ended", !.revision = @ + 1]
  /\ held' = [op |-> "mark", id |-> None, mode |-> None]
  /\ worker' = Goto(w, "marking")
  /\ UNCHANGED <<receipts, stopRequested, workerStarted, pauseEpochs, answers,
                 gate, waiter, evidence>>

MarkStopsGate(w) ==
  /\ worker[w].pc = "marking"
  /\ GateStop
  /\ worker' = Woken(Goto(w, "ended"))
  /\ waiter' = WokenWaiters
  /\ held' = Free
  /\ UNCHANGED <<status, receipts, stopRequested, workerStarted, pauseEpochs, answers, evidence>>

\* Already ENDED (returned), FAILED or without evidence (raised, and contained
\* by the subscriber).
MarkDeclined(w) ==
  /\ worker[w].pc = "announcing"
  /\ Idle
  /\ ~(status.status \in {"running", "paused"} /\ status.index \in evidence)
  /\ worker' = Goto(w, "ended")
  /\ UNCHANGED <<owner, gate, waiter, evidence>>

WorkerReturns(w) ==
  /\ worker[w].pc = "ended"
  /\ worker' = Goto(w, "done")
  /\ UNCHANGED <<owner, gate, waiter, evidence>>

\* Anything the runner's tick or a subscriber raises, the last publish included.
WorkerRaises(w) ==
  /\ worker[w].pc \in {"ticking", "stopping", "ended"}
  /\ worker' = Goto(w, "raised")
  /\ UNCHANGED <<owner, gate, waiter, evidence>>

FailStopsGate(w) ==
  /\ worker[w].pc = "raised"
  /\ GateStop
  /\ worker' = Woken(Goto(w, "failing"))
  /\ waiter' = WokenWaiters
  /\ UNCHANGED <<owner, evidence>>

\* Mutant: the failure does not look for a terminal status.
FailAlways(w) ==
  /\ worker[w].pc = "failing"
  /\ Idle
  /\ stopRequested' = TRUE
  /\ status' = [status EXCEPT !.status = "failed", !.revision = @ + 1]
  /\ worker' = Goto(w, "done")
  /\ UNCHANGED <<receipts, workerStarted, pauseEpochs, held, answers, gate, waiter, evidence>>

FailCommits(w) ==
  /\ worker[w].pc = "failing"
  /\ Idle
  /\ stopRequested' = TRUE
  /\ status' = IF status.status \in {"ended", "failed"} THEN status
               ELSE [status EXCEPT !.status = "failed", !.revision = @ + 1]
  /\ worker' = Goto(w, "done")
  /\ UNCHANGED <<receipts, workerStarted, pauseEpochs, held, answers, gate, waiter, evidence>>

WorkerStep(w) ==
  \/ Block(w) \/ Pass(w) \/ Halt(w)
  \/ TickContinues(w) \/ PublishEnded(w)
  \/ MarkCommits(w) \/ MarkStopsGate(w) \/ MarkDeclined(w)
  \/ WorkerReturns(w)
  \/ FailStopsGate(w) \/ FailCommits(w)
-----------------------------------------------------------------------------
(* wait_for_pause_boundary() *)
AtBoundary(c) ==
  \/ waiter[c].pc = "none" /\ Idle /\ pauseEpochs[c] # 0
  \/ waiter[c].pc = "waiting" /\ waiter[c].woken

Settle(c, pc, tick) ==
  /\ waiter' = [waiter EXCEPT ![c] = [pc |-> pc, woken |-> FALSE, tick |-> tick]]
  /\ UNCHANGED <<owner, gate, worker, evidence>>

WaitForBoundary(c) ==
  /\ AtBoundary(c)
  /\ blockedEpoch < pauseEpochs[c] /\ ~stopped
  /\ Settle(c, "waiting", 0)

BoundaryReached(c) ==
  /\ AtBoundary(c)
  /\ blockedEpoch >= pauseEpochs[c]
  /\ Settle(c, "released", blockedTick - 1)

BoundaryRefused(c) ==
  /\ AtBoundary(c)
  /\ blockedEpoch < pauseEpochs[c] /\ stopped
  /\ Settle(c, "refused", 0)

WaiterStep(c) == WaitForBoundary(c) \/ BoundaryReached(c) \/ BoundaryRefused(c)
-----------------------------------------------------------------------------
RuntimeNext ==
  \/ Dispatch
  \/ Commit
  \/ \E c \in Ids : Redeliver(c) \/ WaiterStep(c)
  \/ \E w \in Workers : Run(w) \/ WorkerStep(w) \/ WorkerRaises(w)

RuntimeSpec == RuntimeInit /\ [][RuntimeNext]_runtimeVars

\* Threads are scheduled: a dispatch in progress, a worker and a woken waiter
\* proceed.  Nobody promises that a client sends anything, nor that a worker
\* raises.
Fairness ==
  /\ WF_runtimeVars(Commit)
  /\ \A w \in Workers : WF_runtimeVars(WorkerStep(w))
  /\ \A c \in Ids : WF_runtimeVars(WaiterStep(c))

FairSpec == RuntimeSpec /\ Fairness
-----------------------------------------------------------------------------
(***************************************************************************)
(* Properties                                                              *)
(***************************************************************************)
\* Two admitted commands never won the same compare-and-swap, and a command id
\* is answered with one status however often it is delivered.
RevisionCAS ==
  \A c, d \in Ids :
    receipts[c] # None /\ receipts[d] # None /\ c # d =>
      receipts[c].expected # receipts[d].expected

OneAnswer ==
  \A c \in Ids : \A a, b \in answers[c] : a = b

\* Commands are settled once: both of the above.
SettledOnce == RevisionCAS /\ OneAnswer

\* While the status says PAUSED and no command is under way the gate is closed:
\* no checkpoint can admit a tick.
PausedGateClosed == Idle /\ status.status = "paused" => ~open

\* A boundary reported for a pause is the truth while that pause is in force, the
\* gate neither stopped nor resumed: the match's worker has completed exactly that many ticks and is held there.
BoundaryIsTrue ==
  \A c \in Ids :
    /\ waiter[c].pc = "released"
    /\ Idle /\ status.status = "paused" /\ status.last = c /\ ~stopped
    => \E w \in Workers :
         /\ worker[w].match = status.index
         /\ worker[w].tick = waiter[c].tick
         /\ worker[w].pc = "blocked"

\* At most one thread drives a match, and no two threads tick at the same time,
\* not even the worker of a finished match and its successor's.
OneDriver ==
  /\ \A v, w \in Workers : Alive(v) /\ Alive(w) /\ v # w => worker[v].match # worker[w].match
  /\ \A v, w \in Workers :
       worker[v].pc = "ticking" /\ worker[w].pc = "ticking" => v = w

\* FAILED "is the un-fakeable record that this match produced no canonical
\* terminal" (runtime.py, module docstring), while no successor is started.
FailedHasNoTerminal ==
  status.status = "failed" /\ status.index = 0 => status.index \notin evidence

\* What the status says of the match's worker is so, of which there is one at
\* most: PAUSED, a reported boundary and FAILED, all of the above.
StatusIsTrue == PausedGateClosed /\ BoundaryIsTrue /\ OneDriver /\ FailedHasNoTerminal

\* Once the match has a worker, a thread waiting for a pause boundary is let go,
\* the pause resumed before the boundary or overtaken by the end of the match
\* included, unless a successor is started meanwhile.
WaitersReleased ==
  \A c \in Ids :
    waiter[c].pc = "waiting" /\ workerStarted ~> waiter[c].pc # "waiting" \/ status.index > 0

\* An admitted STOP ends the match, and one that is started and not held in a
\* pause for ever terminates.
Terminates ==
  /\ stopRequested ~> status.status \in {"ended", "failed"}
  /\ workerStarted ~> status.status \in {"paused", "ended", "failed"}

\* Nobody is left behind, neither a waiter nor the match: both of the above.
NobodyLeftBehind == WaitersReleased /\ Terminates
=============================================================================
