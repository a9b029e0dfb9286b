--------------------------- MODULE BrowserSession ---------------------------
(***************************************************************************)
(* The browser play server (cli/play.py): admission of a match, the run    *)
(* task, the retirement of a finished session, the prompt watchers, and    *)
(* the command connection, whose handler reads the next frame only when it *)
(* has answered the one before.                                            *)
(*                                                                         *)
(* Coroutines and callbacks of the event loop are atomic between awaits;   *)
(* the worker of a match runs on a thread of its own.  A match is named by *)
(* the start request that admits it.  The runtime is abstracted to its     *)
(* status and its gate (module MatchRuntime), the human turn to whether    *)
(* the client has been sent the prompt (module HumanTurn), and commands    *)
(* carry the revision they need: the others are refused and change         *)
(* nothing.                                                                *)
(***************************************************************************)
EXTENDS ModelCatalog

CONSTANTS
  Faulty,      \* the deployments whose admissions may meet a fault
  MaxTick,     \* match -> bound on its ticks
  MaxQueue,    \* bound on the frames the client sends ahead of the answers
  Stale        \* the subscription left by a failed admission

ASSUME BrowserAssumption ==
  /\ Faulty \subseteq DOMAIN Deployments
  /\ MaxTick \in [Matches -> Nat \ {0}]
  /\ MaxQueue \in Nat \ {0}
  /\ Stale \notin Matches \cup {None}

VARIABLES
  server,     \* the deployment this server was started with
  spent,      \* model identity -> how often its fixed grant was spent
  clients,    \* matches whose HTTP client is open
  session,    \* the one admitted match
  token,      \* the match whose bus the server is subscribed to
  records,    \* start requests that were accepted
  closed,     \* matches whose stack has been closed
  reported,   \* has a terminal failure been reported, ever?
  runtime,    \* match -> status of its runtime
  stopped,    \* matches whose gate is stopped
  worker,     \* match -> where its worker thread is
  tick,       \* match -> ticks completed
  prompted,   \* matches whose open prompt the client has been sent
  watcher,    \* match -> its prompt watcher task
  tracked,    \* the watcher tasks the server knows of
  retiring,   \* a retirement task is scheduled
  drains,     \* retirement tasks awaiting the watchers they cancelled
  queue,      \* frames the client has sent
  handler     \* the command handler: reading, or awaiting a pause boundary

thread == <<runtime, stopped, worker, tick>>
tasks == <<watcher, tracked, retiring, drains>>
admission == <<server, spent, records>>
stacks == <<closed, clients>>
vars == <<session, token, admission, stacks, reported, thread, prompted, tasks, queue, handler>>
-----------------------------------------------------------------------------
Frames == {[kind |-> "start", match |-> m] : m \in Matches}
            \cup [kind : {"pause", "resume", "stop", "action", "cancel"}, match : {None}]

Gone == {"none", "returned", "raised", "reaped"}
Alive(m) == worker[m] \notin Gone
Reading == [pc |-> "reading", match |-> None]

deployment == Servers[server]

(* One of the seats is played by a human.                                   *)
HumanSeat(m) == Known(deployment, m) /\ HumanSeats(deployment, m) # {}

Init ==
  /\ server \in DOMAIN Servers
  /\ spent = [i \in DOMAIN deployment.grant |-> 0]
  /\ clients = {}
  /\ session = None /\ token = None
  /\ records = {} /\ closed = {}
  /\ reported = FALSE
  /\ runtime = [m \in Matches |-> "none"]
  /\ stopped = {}
  /\ worker = [m \in Matches |-> "none"]
  /\ tick = [m \in Matches |-> 0]
  /\ prompted = {}
  /\ watcher = [m \in Matches |-> "none"]
  /\ tracked = {}
  /\ retiring = FALSE /\ drains = {}
  /\ queue = <<>>
  /\ handler = Reading

Pending(m) == watcher[m] \in {"waiting", "cancelling"}

\* LiveMatchStack.close(): the inbox is shut, then the client is closed, once.
Close(matches) ==
  /\ closed' = closed \cup matches
  /\ clients' = clients \ matches

\* _report_terminal_failure(): only the first report closes a session.
ReportFailure ==
  /\ reported' = TRUE
  /\ Close(IF reported \/ session = None THEN {} ELSE {session})
-----------------------------------------------------------------------------
(* The command handler *)
Read(kind) ==
  /\ handler = Reading
  /\ queue # <<>>
  /\ Head(queue).kind = kind
  /\ queue' = Tail(queue)

\* _admit_start(): the factory's stack is subscribed to, the runtime is started,
\* and the run task and the watchers are created.  A watcher whose name a
\* pending task already has is not created.
Admit(m) ==
  /\ session' = m
  /\ token' = IF token = None THEN m ELSE token
  /\ records' = records \cup {m}
  /\ runtime' = [runtime EXCEPT ![m] = "running"]
  /\ worker' = [worker EXCEPT ![m] = "starting"]
  /\ IF HumanSeat(m) /\ \A n \in tracked : ~Pending(n)
     THEN /\ watcher' = [watcher EXCEPT ![m] = "waiting"]
          /\ tracked' = tracked \cup {m}
     ELSE UNCHANGED <<watcher, tracked>>
  /\ clients' = IF OwnsClient(deployment, m) THEN clients \cup {m} ELSE clients
  /\ UNCHANGED <<server, closed, reported, stopped, tick, prompted, retiring, drains>>

\* The factory succeeds and a later step of the admission raises: the stack is
\* closed and forgotten, the subscription to its bus is not.
AdmitRaises ==
  /\ token' = IF token = None THEN Stale ELSE token
  /\ UNCHANGED <<session, server, records, stacks, reported, thread, prompted, tasks>>

\* The factory raises, at a stage of the launch: whoever has opened the client
\* closes it, and the server is as it was.
FactoryRaises(m, stage) ==
  /\ clients' = IF Opens(deployment, m, stage) /\ stage \notin Closing THEN clients \cup {m} ELSE clients
  /\ UNCHANGED <<session, token, server, records, closed, reported, thread, prompted, tasks>>

\* What was spent for a launch that fails stays spent.
Launch(m) ==
  LET stage == Stage(deployment, m, spent)
  IN  /\ spent' = SpentAfter(deployment, m, spent)
      /\ \/ stage = "served" /\ Admit(m)
         \/ stage = "served" /\ server \in Faulty
              /\ (AdmitRaises \/ \E fault \in Faults : FactoryRaises(m, fault))
         \/ stage # "served" /\ FactoryRaises(m, stage)

\* Mutant: the server does not look for a match already admitted.
ReadStartAnytime ==
  /\ Read("start")
  /\ UNCHANGED handler
  /\ LET m == Head(queue).match
     IN  IF m \in records
         THEN UNCHANGED <<session, token, admission, stacks, reported, thread, prompted, tasks>>
         ELSE Launch(m)

ReadStart ==
  /\ Read("start")
  /\ UNCHANGED handler
  /\ LET m == Head(queue).match
     IN  IF m \in records \/ session # None
         THEN UNCHANGED <<session, token, admission, stacks, reported, thread, prompted, tasks>>
         ELSE Launch(m)

\* dispatch_runtime(PAUSE), and the boundary awaited before the answer.
ReadPause ==
  /\ Read("pause")
  /\ IF session # None /\ runtime[session] = "running"
     THEN /\ runtime' = [runtime EXCEPT ![session] = "paused"]
          /\ handler' = [pc |-> "pausing", match |-> session]
     ELSE UNCHANGED <<runtime, handler>>
  /\ UNCHANGED <<session, token, admission, stacks, reported, stopped, worker, tick, prompted, tasks>>

\* Mutant: the boundary is awaited even when the gate is stopped.
PauseAnsweredAtBoundary ==
  /\ handler.pc = "pausing"
  /\ worker[handler.match] = "gated"
  /\ handler' = Reading
  /\ UNCHANGED <<session, token, admission, stacks, reported, thread, prompted, tasks, queue>>

PauseAnswered ==
  /\ handler.pc = "pausing"
  /\ worker[handler.match] = "gated" \/ handler.match \in stopped
  /\ handler' = Reading
  /\ UNCHANGED <<session, token, admission, stacks, reported, thread, prompted, tasks, queue>>

ReadResume ==
  /\ Read("resume")
  /\ runtime' = IF session # None /\ runtime[session] = "paused" /\ session \notin stopped
                THEN [runtime EXCEPT ![session] = "running"] ELSE runtime
  /\ UNCHANGED <<session, token, admission, stacks, reported, stopped, worker, tick,
                 prompted, tasks, handler>>

\* STOP needs a worker that has started.
ReadStop ==
  /\ Read("stop")
  /\ stopped' = IF /\ session # None
                   /\ runtime[session] \in {"running", "paused"}
                   /\ worker[session] \notin {"none", "starting"}
                THEN stopped \cup {session} ELSE stopped
  /\ UNCHANGED <<session, token, admission, stacks, reported, runtime, worker, tick,
                 prompted, tasks, handler>>

\* The action the prompt asked for reaches the waiting pilot.
ReadAction ==
  /\ Read("action")
  /\ IF session # None /\ session \in prompted /\ session \notin closed
     THEN /\ prompted' = prompted \ {session}
          /\ worker' = [worker EXCEPT ![session] = "decided"]
     ELSE UNCHANGED <<prompted, worker>>
  /\ UNCHANGED <<session, token, admission, stacks, reported, runtime, stopped, tick,
                 tasks, handler>>

\* browser_cancel: the session is closed, and the connection with it.
ReadCancel ==
  /\ handler = Reading
  /\ queue # <<>> /\ Head(queue).kind = "cancel"
  /\ queue' = <<>>
  /\ Close(IF session = None THEN {} ELSE {session})
  /\ UNCHANGED <<session, token, admission, reported, thread, prompted, tasks, handler>>

Handle ==
  \/ ReadStart \/ ReadPause \/ PauseAnswered \/ ReadResume \/ ReadStop
  \/ ReadAction \/ ReadCancel
-----------------------------------------------------------------------------
(* The client *)
Send(f) ==
  /\ Len(queue) < MaxQueue
  /\ queue' = Append(queue, f)
  /\ UNCHANGED <<session, token, admission, stacks, reported, thread, prompted, tasks, handler>>

\* A client that has been sent a prompt answers it.
SendAction ==
  /\ session \in prompted
  /\ \A i \in DOMAIN queue : queue[i].kind # "action"
  /\ Send([kind |-> "action", match |-> None])

SendCommand ==
  \E f \in {g \in Frames : g.kind # "action"} : Len(queue) + 1 < MaxQueue /\ Send(f)
-----------------------------------------------------------------------------
(* The worker's thread *)
Work(m, from, to) ==
  /\ worker[m] = from
  /\ worker' = [worker EXCEPT ![m] = to]
  /\ UNCHANGED <<session, token, admission, stacks, reported, prompted, tasks, queue, handler>>

\* run() raises when a PAUSE was admitted, or the session closed, before the
\* thread got there.
Enter(m) ==
  /\ Work(m, "starting", IF m \notin closed /\ runtime[m] = "running" THEN "loop" ELSE "raised")
  /\ UNCHANGED <<runtime, stopped, tick>>

Checkpoint(m) ==
  /\ \E from \in {"loop", "gated"} :
       Work(m, from, IF m \in stopped THEN "ending"
                     ELSE IF runtime[m] = "paused" THEN "gated" ELSE "deciding")
  /\ worker'[m] # worker[m]
  /\ UNCHANGED <<runtime, stopped, tick>>

AskHuman(m) ==
  /\ HumanSeat(m)
  /\ Work(m, "deciding", "asking")
  /\ UNCHANGED <<runtime, stopped, tick>>

\* The tick is resolved; it may decide the match.
Resolve(m) ==
  /\ Work(m, IF HumanSeat(m) THEN "decided" ELSE "deciding", "loop")
  /\ tick[m] + 1 < MaxTick[m]
  /\ tick' = [tick EXCEPT ![m] = @ + 1]
  /\ UNCHANGED <<runtime, stopped>>

ResolveLast(m) ==
  /\ Work(m, IF HumanSeat(m) THEN "decided" ELSE "deciding", "ending")
  /\ tick' = [tick EXCEPT ![m] = @ + 1]
  /\ UNCHANGED <<runtime, stopped>>

\* MATCH_ENDED is published: the subscribed server marks the runtime.
Finish(m) ==
  /\ Work(m, "ending", "returned")
  /\ IF token = m /\ session = m
     THEN /\ runtime' = [runtime EXCEPT ![m] = "ended"]
          /\ stopped' = stopped \cup {m}
     ELSE UNCHANGED <<runtime, stopped>>
  /\ UNCHANGED tick

Fail(m) ==
  /\ runtime' = [runtime EXCEPT ![m] = "failed"]
  /\ stopped' = stopped \cup {m}
  /\ UNCHANGED tick

\* Mutant: only a stopped gate cancels the wait.
AskCancelledByGate(m) == m \in stopped /\ Work(m, "asking", "raised") /\ Fail(m)

\* The shutdown of the human inbox cancels the wait.
AskCancelled(m) == m \in closed /\ Work(m, "asking", "raised") /\ Fail(m)

\* A tick raises.
TickRaises(m) ==
  /\ \E from \in {"deciding", "decided"} : Work(m, from, "raised")
  /\ Fail(m)

WorkerStep(m) ==
  \/ Enter(m) \/ Checkpoint(m) \/ AskHuman(m) \/ Resolve(m) \/ ResolveLast(m)
  \/ Finish(m) \/ AskCancelled(m)
-----------------------------------------------------------------------------
(* The run task, the retirement and the watchers *)
RunTaskDone(m) ==
  /\ worker[m] \in {"returned", "raised"}
  /\ worker' = [worker EXCEPT ![m] = "reaped"]
  /\ IF worker[m] = "raised" THEN ReportFailure ELSE UNCHANGED <<reported, stacks>>
  /\ retiring' = TRUE
  /\ UNCHANGED <<session, token, admission, runtime, stopped, tick, prompted, watcher,
                 tracked, drains, queue, handler>>

\* The session is forgotten at once; its watchers are cancelled and awaited.
RetireSession ==
  /\ retiring
  /\ session # None
  /\ Close({session})
  /\ token' = None
  /\ session' = None
  /\ prompted' = {}
  /\ watcher' = [m \in Matches |-> IF m \in tracked /\ Pending(m) THEN "cancelling" ELSE watcher[m]]
  /\ retiring' = FALSE
  /\ drains' = drains \cup {tracked}
  /\ UNCHANGED <<admission, reported, thread, tracked, queue, handler>>

\* Whatever watchers the server has come to know since are forgotten as well.
RetireDone ==
  /\ \E waits \in drains :
       /\ \A m \in waits : ~Pending(m)
       /\ drains' = drains \ {waits}
  /\ tracked' = {}
  /\ UNCHANGED <<session, token, admission, stacks, reported, thread, prompted, watcher,
                 retiring, queue, handler>>

\* The watcher sends the prompt the pilot published.
WatcherSends(m) ==
  /\ watcher[m] = "waiting"
  /\ worker[m] = "asking"
  /\ m \notin closed /\ m \notin prompted
  /\ prompted' = prompted \cup {m}
  /\ UNCHANGED <<session, token, admission, stacks, reported, thread, tasks, queue, handler>>

\* The connection it sends on has gone.
WatcherRaises(m) ==
  /\ watcher[m] = "waiting"
  /\ worker[m] = "asking"
  /\ m \notin closed /\ m \notin prompted
  /\ watcher' = [watcher EXCEPT ![m] = "done"]
  /\ ReportFailure
  /\ UNCHANGED <<session, token, admission, thread, prompted, tracked, retiring, drains, queue, handler>>

\* Cancelled by the closed coordinator, or by the retirement.
WatcherEnds(m) ==
  /\ \/ watcher[m] = "cancelling"
     \/ watcher[m] = "waiting" /\ m \in closed
  /\ watcher' = [watcher EXCEPT ![m] = "done"]
  /\ UNCHANGED <<session, token, admission, stacks, reported, thread, prompted, tracked,
                 retiring, drains, queue, handler>>

LoopStep ==
  \/ \E m \in Matches : RunTaskDone(m) \/ WatcherSends(m) \/ WatcherEnds(m)
  \/ RetireSession \/ RetireDone
-----------------------------------------------------------------------------
Next ==
  \/ Handle
  \/ SendAction \/ SendCommand
  \/ \E m \in Matches : WorkerStep(m) \/ TickRaises(m) \/ WatcherRaises(m)
  \/ LoopStep

Spec == Init /\ [][Next]_vars

\* The handler, the loop and the worker are scheduled, and the player answers a
\* prompt.  Nothing else is promised: which of its ready tasks the loop takes is
\* left open.
Fairness ==
  /\ WF_vars(Handle)
  /\ WF_vars(SendAction)
  /\ WF_vars(\E m \in Matches : WorkerStep(m))
  /\ WF_vars(LoopStep)

FairSpec == Spec /\ Fairness
-----------------------------------------------------------------------------
(***************************************************************************)
(* Properties                                                              *)
(***************************************************************************)
\* A match whose worker is still running is the admitted one: a new match is
\* never admitted beside it, and retirement never abandons it.
AliveIsSession == \A m \in Matches : Alive(m) => session = m

\* A client that is open belongs to the admitted match, and to no other: a launch
\* that fails, at whatever stage, has closed what it opened, and a session that
\* is closed or retired has nothing open.
ClientsAreHeld == clients \subseteq {session} \ closed

\* A seat that chose an option of a catalog is played as the option's source says:
\* by its provider, as that overlay configures it, and its pilot.
AsDeclared(d, m) ==
    d.index # None =>
        \A id \in DOMAIN d.index.source : \A o \in DOMAIN d.index.source[id].option :
            LET source == d.index.source[id]
                option == source.option[o]
                provider == source.identity[option.identity]
            IN  \A s \in DOMAIN Sides :
                  option.kind = "model" /\ d.request[m].seat[s] = source.alias[o] =>
                      /\ ProviderOf(d, Option(d, m, s)) = provider
                      /\ d.provider[provider] = source.provider[provider]
                      /\ d.spec[Option(d, m, s).pilot] = source.spec[option.pilot]

\* An admitted match is played by those who may: a human seat by the human of the
\* session, a live provider by a grant that was spent for this match and not more
\* often than it allows, its seats by two decision-makers, and an option of a
\* catalog by the provider and the pilot that its own source declares for it.
Entitled(m) ==
  /\ \A s \in HumanSeats(deployment, m) :
       Sides[s] \in deployment.permissions /\ Option(deployment, m, s).identity = deployment.human
  /\ \A i \in DOMAIN LiveIdentities(deployment, m) :
       LET id == LiveIdentities(deployment, m)[i]
       IN  \/ deployment.live = "per start"
           \/ deployment.grant[id].match = m /\ spent[id] \in 1 .. deployment.grant[id].budget
  /\ \A s, t \in Programmed(deployment, m) :
       s # t => Programmer(deployment, m, s) # Programmer(deployment, m, t)
  /\ AsDeclared(deployment, m)

\* One match at a time holds the worker and the client, and it is entitled to them.
OneMatchHoldsAll ==
  /\ AliveIsSession /\ ClientsAreHeld
  /\ \A m \in records : Entitled(m)
  /\ \A i \in DOMAIN spent : spent[i] <= deployment.grant[i].budget

\* The admitted match is served, whatever became of the one before it: the server
\* listens to its bus and, while it is open, a watcher brings its prompts to the
\* browser (play.py:870 and :1103, a start after a retirement or a failure).
HumanHasWatcher ==
  session # None /\ HumanSeat(session) /\ session \notin closed => watcher[session] = "waiting"
SubscribedToSession == session # None => token = session
EveryMatchIsServed == HumanHasWatcher /\ SubscribedToSession

\* The first match of the process is played to its end and retired, unless it is
\* paused.  A later one may hang (EveryMatchIsServed, reported).
AdmittedRetires ==
  \A m \in Matches :
    session = m /\ records \subseteq {m} ~> session # m \/ runtime[m] = "paused"

\* Once a PAUSE of a running worker is admitted the handler reads on, be it with
\* the boundary or because the match ends first, unless the tick under way waits
\* for the player.  The server must hear the end (EveryMatchIsServed, reported).
PauseIsAnswered ==
  \A m \in Matches :
    handler = [pc |-> "pausing", match |-> m] /\ Alive(m) /\ worker[m] # "starting" /\ token = m
      ~> handler.pc = "reading" \/ worker[m] = "asking"
=============================================================================
