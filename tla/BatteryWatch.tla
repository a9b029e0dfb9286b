---------------------------- MODULE BatteryWatch ----------------------------
(***************************************************************************)
(* A battery under its watchdog: cli/battery_watch.py and                  *)
(* battery/watchdog.py.                                                    *)
(*                                                                         *)
(* The operator announces a plan, launches a driver through battery-watch, *)
(* and may launch again over the same lane: a makeup run of one seed, or   *)
(* the whole plan.  The watchdog polls the process, reads the row count as *)
(* its heartbeat, and ends in exactly one of four ways, which it pushes    *)
(* through every channel; a follow-on command is chained only when the     *)
(* battery completed and somebody was told.                                *)
(*                                                                         *)
(* Driver and watchdog are two processes.  Between two polls the driver    *)
(* may do anything, and it may hang.                                       *)
(***************************************************************************)
EXTENDS AdaptationBattery, SequencesExt

CONSTANTS Drivers,      \* the drivers to launch
          Channels,     \* how many notification channels may be configured
          StallPolls,   \* stall deadline, in poll intervals
          MaxLaunches,  \* bound: launches over one lane
          MaxMatches    \* bound: matches the lane of a driver may hold

ASSUME WatchAssumption ==
    /\ Drivers \subseteq {"salience", "objectives", "adaptation", "livefire"}
    /\ Channels \in Nat \ {0} /\ StallPolls \in Nat \ {0}
    /\ MaxLaunches \in Nat /\ MaxMatches \in [Drivers -> Nat]

VARIABLES
    watch,      \* the watchdog's own state
    plan,       \* the seeds this launch was asked for
    honest,     \* history: the lane was flown and made up by the book
    launches    \* launches so far

vars == <<lane, process, phases, producer, watch, plan, honest, launches>>

NoContract == [min |-> 0, max |-> 0]

Asleep ==
    [pc |-> "done", contract |-> NoContract, rows |-> 0, quiet |-> 0,
     state |-> "none", tried |-> 0, told |-> 0, chained |-> FALSE, code |-> "none"]

Init ==
    /\ LaneInit /\ AdaptationInit
    /\ \E k \in Drivers : DriverInit(k)
    /\ watch = Asleep
    /\ plan = {} /\ honest = TRUE
    /\ launches = 0

-----------------------------------------------------------------------------
(* Launching.                                                              *)

(* What a clean run of a driver leaves in the file: expected_row_bounds    *)
(* for the adaptation battery, one row per seed otherwise.                 *)
RowBounds(k) ==
    IF k = "adaptation" THEN [min |-> 2 * N + 1, max |-> 2 * N + Attempts]
    ELSE [min |-> Cardinality(Seeds), max |-> Cardinality(Seeds)]

Contract == IF kind = "livefire" THEN NoContract ELSE RowBounds(kind)

(* What an operator may ask for, a base and a number of seeds: the plan, or *)
(* a part of it.  The adaptation battery has seeds of its own.             *)
Requests ==
    IF Evidence
    THEN {r \in (SeedBase .. SeedBase + SeedCount - 1) \X (1 .. SeedCount) :
              r[1] + r[2] <= SeedBase + SeedCount}
    ELSE {<<0, 0>>}

(* Seeds are flown in increasing order.                                    *)
InOrder(r) == [i \in 1 .. r[2] |-> r[1] + i]
Asked(r) == r[1] + 1 .. r[1] + r[2]

(* What an operator is told to do: let a driver end by itself, save its    *)
(* summary before it is overwritten, and fly only the seeds without a row. *)
ByTheBook(p) ==
    /\ exit # "killed"
    /\ summary.skips # {} => summary \in kept
    /\ p \cap RawSeeds = {}

(* The channels and the row contract are settled before anything starts.   *)
Launch(r, wipe) ==
    /\ watch.pc = "done" /\ exit # "alive"
    /\ launches < MaxLaunches
    /\ launches' = launches + 1
    /\ watch' = [Asleep EXCEPT !.pc = "started", !.contract = Contract]
    /\ plan' = Asked(r)
    /\ honest' = (wipe \/ (honest /\ ByTheBook(Asked(r))))
    /\ exit' = "alive" /\ todo' = InOrder(r)
    /\ pc' = IF wipe THEN "wipe" ELSE "boot"
    /\ flown' = <<>> /\ skipped' = {} /\ phase' = "baseline" /\ phaseRows' = NoRows
    /\ flight' = {} /\ errors' = {} /\ delivered' = {}
    /\ UNCHANGED <<kind, lane, casualties>>

(* No channel, or half a row contract: exit 4 and no driver.               *)
Refuse ==
    /\ watch.pc = "done" /\ watch.code # "exit4" /\ exit # "alive"
    /\ launches < MaxLaunches
    /\ launches' = launches + 1
    /\ watch' = [Asleep EXCEPT !.code = "exit4"]
    /\ UNCHANGED <<lane, process, phases, producer, plan, honest>>

-----------------------------------------------------------------------------
(* Supervision.                                                            *)

Watching(at) == watch.pc = at /\ UNCHANGED <<plan, honest, launches>>
DriverKeeps == UNCHANGED <<lane, process, phases, producer>>

Satisfies(rows) ==
    watch.contract = NoContract
        \/ (watch.contract.min <= rows /\ rows <= watch.contract.max)

Verdict(rows) ==
    IF exit # "exit0" THEN "crashed"
    ELSE IF ~ Satisfies(rows) THEN "incomplete" ELSE "completed"

(* The head of the loop.  A process that has ended is given time for its   *)
(* last writes, then its rows are counted; otherwise the watchdog sleeps.  *)
Polls(w) ==
    watch' = IF exit = "alive" THEN [w EXCEPT !.pc = "sleep"]
             ELSE [w EXCEPT !.pc = "notify", !.rows = Len(raw), !.state = Verdict(Len(raw))]

(* The rows already in the file are not progress.                          *)
FirstCount ==
    /\ Watching("started")
    /\ Polls([watch EXCEPT !.rows = Len(raw)])
    /\ DriverKeeps

(* After a sleep the rows say whether the driver works; whether it still   *)
(* lives is only asked next.                                               *)
Progress ==
    /\ Watching("sleep") /\ Len(raw) > watch.rows
    /\ Polls([watch EXCEPT !.rows = Len(raw), !.quiet = 0])
    /\ DriverKeeps

(* Mutant of Quiet: every poll restarts the deadline.                      *)
QuietRestarts ==
    /\ Watching("sleep") /\ Len(raw) <= watch.rows /\ watch.quiet + 1 < StallPolls
    /\ Polls([watch EXCEPT !.quiet = 0])
    /\ DriverKeeps

Quiet ==
    /\ Watching("sleep") /\ Len(raw) <= watch.rows /\ watch.quiet + 1 < StallPolls
    /\ Polls([watch EXCEPT !.quiet = @ + 1])
    /\ DriverKeeps

(* The deadline: SIGTERM, a grace, SIGKILL.                                *)
Stall ==
    /\ Watching("sleep") /\ Len(raw) <= watch.rows /\ watch.quiet + 1 >= StallPolls
    /\ watch' = [watch EXCEPT !.pc = "notify", !.state = "stalled"]
    /\ IF exit = "alive" THEN Exits("killed") ELSE UNCHANGED <<exit, pc>>
    /\ UNCHANGED <<lane, kind, todo, flown, skipped, casualties, phases, producer>>

(* A command that fails, hangs or is missing, a webhook that cannot be      *)
(* reached or says no: the channel has not delivered.                      *)
Delivery == {0, 1}

(* Every channel is tried; a dead one does not mute the rest.              *)
Notify ==
    /\ Watching("notify") /\ watch.tried < Channels
    /\ \E ok \in Delivery :
          watch' = [watch EXCEPT !.tried = @ + 1, !.told = @ + ok]
    /\ DriverKeeps

(* --on-complete-exec, and whether a total delivery failure may chain too. *)
ShouldChain(chain, forced) ==
    /\ chain # "none"
    /\ watch.state = "completed"
    /\ watch.told > 0 \/ forced

WatchExit ==
    IF watch.told = 0 THEN "exit3"
    ELSE IF watch.state = "completed" THEN "exit0"
    ELSE IF watch.state = "incomplete" THEN "exit2" ELSE "exit1"

(* The chain decision and the exit code.  A follow-on command that cannot  *)
(* be started takes the watchdog down with it.                             *)
Conclude ==
    /\ Watching("notify") /\ watch.tried = Channels
    /\ \E chain \in {"none", "runs", "missing"}, forced \in BOOLEAN :
          LET chains == ShouldChain(chain, forced)
          IN  watch' = [watch EXCEPT
                  !.pc = "done",
                  !.chained = chains /\ chain = "runs",
                  !.code = IF chains /\ chain = "missing" THEN "raised" ELSE WatchExit]
    /\ DriverKeeps

-----------------------------------------------------------------------------
(* The world.                                                              *)

(* The driver dies of something else: an interrupt, the machine, or an     *)
(* exception nobody catches.  The exit code is 1 then as well, but no      *)
(* driver has returned it: "exit1" is what main() returns.                 *)
Dies ==
    /\ exit = "alive"
    /\ Exits("killed")
    /\ UNCHANGED <<lane, kind, todo, flown, skipped, casualties, phases, producer, watch,
                   plan, honest, launches>>

Drives ==
    /\ exit = "alive"
    /\ Len(ledger) < MaxMatches[kind] \/ pc \notin {"next"} \/ todo = <<>>
    /\ \/ EvidenceNext /\ UNCHANGED phases
       \/ AdaptationNext
    /\ UNCHANGED <<watch, plan, honest, launches>>

Saves ==
    /\ Evidence /\ exit # "alive" /\ watch.pc = "done"
    /\ Preserve
    /\ UNCHANGED <<process, phases, producer, watch, plan, honest, launches>>

Operates ==
    \/ \E r \in Requests, wipe \in BOOLEAN : Launch(r, wipe)
    \/ Refuse
    \/ Saves

Supervises ==
    \/ FirstCount \/ Progress \/ Quiet \/ Stall \/ Notify \/ Conclude

Next == Operates \/ Drives \/ Dies \/ Supervises

(* The watchdog is scheduled; of the driver nothing is assumed.            *)
Spec == Init /\ [][Next]_vars /\ WF_vars(Supervises)

-----------------------------------------------------------------------------
(* Properties.                                                             *)

(* When the watchdog reports COMPLETED for a lane under its row contract,  *)
(* flown and made up by the book, the contamination gate finds nothing to  *)
(* hold against it: exit code 0, a row count and the preserved summaries   *)
(* (battery/watchdog.py) mean what the gate checks row by row              *)
(* (check_contamination_gate.py), after casualties, late Kafka reports,    *)
(* aborted runs and makeup runs.                                           *)
CompletedIsClean ==
    watch.state = "completed" /\ Evidence /\ honest => GateClean

(* A row is written only for a match that is over in the ledger, and by    *)
(* the salience driver only once the broker has taken every terminal event *)
(* of that match, whatever other seeds left in the shared producer.        *)
RowsAreEvidence ==
    [][raw' # raw /\ raw' # <<>> =>
          /\ ledger[Current].ended
          /\ raw' = Append(raw, Row(Current))
          /\ kind = "salience" => Messages(Current) \subseteq delivered]_vars

(* A driver that returned accounts for every seed it was asked to fly: it  *)
(* has a row of this process, or the summary names it and the exit code is *)
(* not 0 (the contamination-safety contract of the drivers).  One that     *)
(* died of an exception accounts for nothing, whatever its exit code.      *)
SeedsAccountedFor ==
    Evidence /\ exit \in {"exit0", "exit1"} =>
        LET done == {ledger[flown[i]].seed : i \in DOMAIN flown}
        IN  /\ done \cup summary.skips = plan
            /\ done \cap summary.skips = {}
            /\ (exit = "exit0") <=> (summary.skips = {})

\* What driver and watchdog report of a battery is what happened to its seeds:
\* CompletedIsClean and SeedsAccountedFor.
ReportsAreTrue == CompletedIsClean /\ SeedsAccountedFor

(* An adaptation battery that ends with exit code 0 is a comparison of     *)
(* before and after and of nothing else: N rows of generation 0, one       *)
(* promotion on the whole lane, then N rows of generation 1, whatever the  *)
(* lane held before and whichever matches promoted and left no row.        *)
BeforeAfterIsPure ==
    kind = "adaptation" /\ exit = "exit0" =>
        /\ Len(phaseRows["baseline"]) = N /\ Len(phaseRows["post"]) = N
        /\ \A i \in 1 .. N : Gen(phaseRows["baseline"][i]) = 0 /\ Gen(phaseRows["post"][i]) = 1
        /\ Generation = 1 /\ Promotion = Last(phaseRows["promote"])

(* Every launched battery is reported, or its channels have been tried,    *)
(* and the watchdog ends, whether the driver works, dies or hangs.         *)
EveryBatteryIsReported ==
    watch.pc = "started" ~> watch.pc = "done" /\ watch.tried = Channels
=============================================================================
