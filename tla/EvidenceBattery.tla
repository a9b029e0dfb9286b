-------------------------- MODULE EvidenceBattery --------------------------
(***************************************************************************)
(* The two drivers that fly a plan of seeds and leave one row per seed:    *)
(* scripts/run_ogate_objectives_battery.py and                             *)
(* scripts/run_display_salience_battery.py.                                *)
(*                                                                         *)
(* A seed whose match raises is a casualty: no row, a place in the         *)
(* summary's skipped_seeds, and exit code 1 at the end.  The salience      *)
(* driver also forwards the terminal events of every match to Kafka, over  *)
(* one producer that outlives the seeds: produce() queues, flush() waits   *)
(* and reports, and what a dead match left in the queue is reported to a   *)
(* later seed.  After every RecheckEvery rows it checks its environment    *)
(* and may abort.                                                          *)
(*                                                                         *)
(* One process runs at a time; `exit` is what its supervisor would poll.   *)
(***************************************************************************)
EXTENDS BatteryLane

CONSTANTS RecheckEvery    \* _DRIFT_RECHECK_INTERVAL_SEEDS

ASSUME RecheckAssumption == RecheckEvery \in Nat \ {0}

VARIABLES
    exit,       \* "none" before a launch, "alive", the code main() returned, or "killed"
    kind,       \* which driver this lane is flown by
    todo,       \* the seeds it has still to fly
    pc,         \* where it stands within a seed
    flown,      \* matches of this process that have their row, in order
    skipped,    \* seeds it has recorded as casualties
    casualties, \* history: the matches of the lane given up as such
    flight,     \* messages queued in the producer and not yet reported
    errors,     \* delivery_errors: messages the broker refused, not yet read
    delivered   \* history: those of the match in hand that the broker took

process == <<exit, kind, todo, pc, flown, skipped, casualties>>
producer == <<flight, errors, delivered>>

Evidence == kind \in {"salience", "objectives"}
Current == Len(ledger)

DriverInit(k) ==
    /\ exit = "none" /\ kind = k /\ todo = <<>> /\ pc = "idle"
    /\ flown = <<>> /\ skipped = {} /\ casualties = {}
    /\ flight = {} /\ errors = {} /\ delivered = {}

Exits(code) == exit' = code /\ pc' = "idle"

(* Mutant of Casualty: the next seed is flown and the dead one forgotten.   *)
CasualtyForgotten(m) ==
    /\ casualties' = casualties \cup m
    /\ todo' = Tail(todo)
    /\ pc' = "next"
    /\ UNCHANGED <<exit, kind, flown, skipped, summary, kept, raw>>

(* A dead seed is recorded and the next one is flown; m is its match, if    *)
(* there was one.                                                          *)
Casualty(m) ==
    /\ casualties' = casualties \cup m
    /\ skipped' = skipped \cup {Head(todo)}
    /\ todo' = Tail(todo)
    /\ pc' = "next"
    /\ UNCHANGED <<exit, kind, flown, summary, kept, raw>>

(* The terminal events of a match cross to Kafka one by one, the start of  *)
(* the match long before the rest.                                         *)
Messages(m) == {<<m, "started">>, <<m, "ended">>}

-----------------------------------------------------------------------------
(* --fresh: the first thing a driver does is to remove its state root.     *)
Wipe ==
    /\ pc = "wipe"
    /\ pc' = "boot"
    /\ ledger' = <<>> /\ raw' = <<>> /\ summary' = NoSummary
    /\ kept' = {} /\ casualties' = {}
    /\ UNCHANGED <<exit, kind, todo, flown, skipped, producer>>

(* Before the first seed the salience driver needs a Kafka client and one  *)
(* completion through the delegation CLI.                                  *)
Preflight ==
    /\ pc = "boot" /\ Evidence
    /\ \/ pc' = "next" /\ UNCHANGED exit
       \/ kind = "salience" /\ Exits("exit2")
    /\ UNCHANGED <<lane, kind, todo, flown, skipped, casualties, producer>>

(* Assembling the stack raises: there is no match.                         *)
AssemblyFails ==
    /\ pc = "next" /\ Evidence /\ todo # <<>>
    /\ Casualty({})
    /\ UNCHANGED <<ledger, producer>>

(* MATCH_STARTED is in the ledger before the forwarder, the last           *)
(* subscriber, queues it.  A queue that refuses it raises out of the run.  *)
StartMatch ==
    /\ pc = "next" /\ Evidence /\ todo # <<>>
    /\ ledger' = Started(Head(todo))
    /\ \/ /\ pc' = "flying"
          /\ flight' = IF kind = "salience" THEN flight \cup {<<Current + 1, "started">>}
                                            ELSE flight
          /\ UNCHANGED <<exit, kind, todo, flown, skipped, casualties, raw, summary, kept>>
       \/ kind = "salience" /\ Casualty({Current + 1}) /\ UNCHANGED flight
    /\ delivered' = {}
    /\ UNCHANGED errors

(* The run raises before the match is over.                                *)
MatchDies ==
    /\ pc = "flying" /\ Evidence
    /\ Casualty({Current})
    /\ UNCHANGED <<ledger, producer>>

(* The match is over in the ledger, whether or not it can be forwarded.    *)
MatchEnds ==
    /\ pc = "flying" /\ Evidence
    /\ ledger' = Ended(Current, FALSE)
    /\ \/ /\ kind = "objectives"
          /\ pc' = "measure"
          /\ UNCHANGED <<flight, exit, kind, todo, flown, skipped, casualties, raw, summary, kept>>
       \/ /\ kind = "salience"
          /\ pc' = "flush"
          /\ flight' = flight \cup {<<Current, "ended">>}
          /\ UNCHANGED <<exit, kind, todo, flown, skipped, casualties, raw, summary, kept>>
       \/ kind = "salience" /\ Casualty({Current}) /\ UNCHANGED flight
    /\ UNCHANGED <<errors, delivered>>

(* Mutant of Flush: only what is still queued fails the seed.              *)
FlushPending ==
    /\ pc = "flush"
    /\ \E good \in SUBSET flight : \E bad \in SUBSET (flight \ good) :
          LET late == flight \ (good \cup bad)
          IN  /\ delivered' = delivered \cup {g \in good : g[1] = Current}
              /\ flight' = late /\ errors' = {}
              /\ IF late # {} THEN Casualty({Current})
                 ELSE /\ pc' = "measure"
                      /\ UNCHANGED <<exit, kind, todo, flown, skipped, casualties, raw, summary, kept>>
    /\ UNCHANGED ledger

(* flush() waits for every queued message, of whichever match, and gives   *)
(* up after its timeout.  What is still queued fails the seed; so does     *)
(* what was refused, which is then forgotten.                              *)
Flush ==
    /\ pc = "flush"
    /\ \E good \in SUBSET flight : \E bad \in SUBSET (flight \ good) :
          LET late == flight \ (good \cup bad)
              refused == errors \cup bad
          IN  /\ delivered' = delivered \cup {g \in good : g[1] = Current}
              /\ flight' = late
              /\ IF late # {}
                 THEN errors' = refused /\ Casualty({Current})
                 ELSE IF refused # {}
                 THEN errors' = {} /\ Casualty({Current})
                 ELSE /\ errors' = {} /\ pc' = "measure"
                      /\ UNCHANGED <<exit, kind, todo, flown, skipped, casualties, raw, summary, kept>>
    /\ UNCHANGED ledger

(* The ledger's events become a row, or the seed is not what it should be: *)
(* another arena, or a match that did not score.                           *)
Measure ==
    /\ pc = "measure" /\ Evidence
    /\ \/ /\ raw' = Append(raw, Row(Current))
          /\ flown' = Append(flown, Current)
          /\ todo' = Tail(todo)
          /\ pc' = IF kind = "salience" /\ (Len(flown) + 1) % RecheckEvery = 0
                   THEN "recheck" ELSE "next"
          /\ UNCHANGED <<exit, kind, skipped, casualties, summary, kept>>
       \/ Casualty({Current})
    /\ UNCHANGED <<ledger, producer>>

(* The environment is still the one the battery was launched in, or the    *)
(* battery ends here.                                                      *)
Recheck ==
    /\ pc = "recheck"
    /\ \/ pc' = "next" /\ UNCHANGED <<exit, summary>>
       \/ Exits("exit3") /\ WriteSummary(skipped)
    /\ UNCHANGED <<ledger, raw, kept, kind, todo, flown, skipped, casualties, producer>>

(* Mutant of ExitCode: the summary owns up, the exit code does not.        *)
ExitCodeOfSummary == "exit0"

(* The end of the plan: the summary, and an exit code that owns up to      *)
(* every casualty.                                                         *)
ExitCode == IF skipped = {} THEN "exit0" ELSE "exit1"

Finish ==
    /\ pc = "next" /\ Evidence /\ todo = <<>>
    /\ WriteSummary(skipped)
    /\ Exits(ExitCode)
    /\ UNCHANGED <<ledger, raw, kept, kind, todo, flown, skipped, casualties, producer>>

EvidenceNext ==
    \/ Wipe \/ Preflight \/ AssemblyFails \/ StartMatch \/ MatchDies \/ MatchEnds
    \/ Flush \/ Measure \/ Recheck \/ Finish
=============================================================================
