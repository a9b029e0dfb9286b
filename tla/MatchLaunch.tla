----------------------------- MODULE MatchLaunch -----------------------------
(***************************************************************************)
(* From a start request to a stack: what the session factory of a browser  *)
(* play server does (cli/play.py, commands/authority.py,                   *)
(* commands/coordinator.py, commands/live_provider.py,                     *)
(* match/composition.py), as operators.                                    *)
(*                                                                         *)
(* A launch is one call on the event loop: nothing comes between its steps.*)
(* It depends on the deployment, which is what the server was started with *)
(* and what it is asked for, on the grants spent before, and on whether an *)
(* adapter fails.  Each launch builds an authority and a coordinator of its*)
(* own, so their idempotency records are empty; the server's are in        *)
(* BrowserSession.                                                         *)
(*                                                                         *)
(* A digest is current or not; a provider, a persona, a pilot specification*)
(* and a loadout are names.                                                *)
(***************************************************************************)
EXTENDS Naturals, FiniteSets, Sequences

CONSTANTS
  Matches,     \* start requests, each naming the match it admits
  Deployments, \* name -> what a server may be started with
  None

Sides == <<"red", "blue">>

(* The fields of a deployment d:                                           *)
(*   request: match -> [seat: <<red option, blue option>>, current]        *)
(*   option, allowed, flown: the roster's options, the options a seat may  *)
(*     choose, and the pilot of the loadout it then flies (None: there is  *)
(*     no such loadout)                                                    *)
(*   identity: model identity -> its provider; provider: its kind and key  *)
(*   spec: pilot -> [archetype, provider, persona]; personas               *)
(*   permissions, human: of the authenticated session                      *)
(*   live: who authorises providers; grant: the grants that were injected  *)
(*   resolver, transport: the overlay's secret resolver, the HTTP transport*)
(*   and what the overlay selects: cards, decks, packs, arena, learning    *)
(*   programmers: has the overlay some?  declares: the options whose source*)
(*     overlay has some; index, loadout: see module ModelCatalog           *)
Fields ==
    {"request", "option", "allowed", "flown", "identity", "provider", "spec", "personas",
     "permissions", "human", "live", "grant", "resolver", "transport", "programmers", "declares",
     "index", "loadout", "cards", "decks", "packs", "arena", "learning"}

Option(d, m, s) == d.option[d.request[m].seat[s]]
IsHuman(d, m, s) == Option(d, m, s).kind = "human"
HumanSeats(d, m) == {s \in DOMAIN Sides : IsHuman(d, m, s)}
ProviderOf(d, o) == d.identity[o.identity]
IsLive(d, o) == o.kind = "model" /\ d.provider[ProviderOf(d, o)].kind # "stub"
LiveSeats(d, m) ==
    LET live(s) == IF IsLive(d, Option(d, m, s)) THEN <<s>> ELSE <<>>
    IN  live(1) \o live(2)

-----------------------------------------------------------------------------
(* session_factory: an option the roster does not know is a KeyError.       *)
Known(d, m) == \A s \in DOMAIN Sides : d.request[m].seat[s] \in DOMAIN d.option

(* A capability is injected only if a live provider is selected, the live   *)
(* runtime factory whenever the server has one; the composition wants both  *)
(* or none of them.                                                         *)
Together(d, m) == d.live = "none" \/ LiveSeats(d, m) # <<>>

(* validate_player_roster_against_overlay.                                  *)
RosterHolds(d) ==
    /\ \A i \in DOMAIN d.identity : d.identity[i] \in DOMAIN d.provider
    /\ \A o \in DOMAIN d.option : d.option[o].kind = "model" =>
         LET option == d.option[o] IN
         /\ option.identity \in DOMAIN d.identity
         /\ option.pilot \in DOMAIN d.spec
         /\ d.spec[option.pilot] =
              [archetype |-> "llm", provider |-> ProviderOf(d, option), persona |-> option.persona]

(* The authority: current digests, the permission to create a match, seats  *)
(* that may choose what they chose, and humans who are who they claim to be.*)
(* session_factory claims exactly the human seats.                          *)
SeatAuthorised(d, m, s) ==
    /\ d.request[m].seat[s] \in d.allowed[s]
    /\ IsHuman(d, m, s) => /\ Sides[s] \in d.permissions
                           /\ d.human = Option(d, m, s).identity
Authorised(d, m) ==
    /\ d.request[m].current
    /\ "match:create" \in d.permissions
    /\ \A s \in DOMAIN Sides : SeatAuthorised(d, m, s)

Admissible(d, m) == Known(d, m) /\ RosterHolds(d) /\ Together(d, m) /\ Authorised(d, m)

-----------------------------------------------------------------------------
(* The model identities that need a grant, each once.                       *)
LiveIdentities(d, m) ==
    LET seats == LiveSeats(d, m)
        ids == [i \in DOMAIN seats |-> Option(d, m, seats[i]).identity]
    IN  IF Len(ids) = 2 /\ ids[1] = ids[2] THEN <<ids[1]>> ELSE ids

(* Without a capability nothing is granted; a factory mints a grant for     *)
(* each identity and launch; fixed grants are bound to one launch, and all  *)
(* those wanted are looked up before one is spent.                          *)
Injected(d, m) ==
    \/ LiveIdentities(d, m) = <<>>
    \/ d.live = "per start"
    \/ d.live = "fixed" /\ \A i \in DOMAIN LiveIdentities(d, m) :
                              LiveIdentities(d, m)[i] \in DOMAIN d.grant

(* Mutant of Redeems: a grant of budget n is spent n + 1 times.              *)
RedeemsOnceMore(d, m, spent, i) ==
    d.live = "fixed" => spent[i] <= d.grant[i].budget /\ d.grant[i].match = m

(* consume: the count is looked at first, then every binding.               *)
Redeems(d, m, spent, i) ==
    d.live = "fixed" => spent[i] < d.grant[i].budget /\ d.grant[i].match = m

(* They are spent one after the other: the first refusal leaves those       *)
(* before it spent.                                                         *)
Paid(d, m, spent) ==
    {i \in DOMAIN LiveIdentities(d, m) :
        \A j \in 1 .. i : Redeems(d, m, spent, LiveIdentities(d, m)[j])}

Granted(d, m, spent) ==
    Injected(d, m) /\ Paid(d, m, spent) = DOMAIN LiveIdentities(d, m)

(* What is spent, whatever becomes of the launch.                           *)
SpentAfter(d, m, spent) ==
    IF d.live = "fixed" /\ Admissible(d, m) /\ Injected(d, m)
    THEN LET paid == {LiveIdentities(d, m)[i] : i \in Paid(d, m, spent)}
         IN  [i \in DOMAIN spent |-> IF i \in paid THEN spent[i] + 1 ELSE spent[i]]
    ELSE spent

(* The loadout of each seat is there and flies the admitted pilot.          *)
Equipped(d, m) ==
    \A s \in DOMAIN Sides :
        d.flown[s][d.request[m].seat[s]] = Option(d, m, s).pilot

-----------------------------------------------------------------------------
(* The runtime is built for the providers of the live seats only; a launch  *)
(* without one gets a client of every provider of the overlay.              *)
Clients(d, m) ==
    IF LiveSeats(d, m) = <<>> THEN DOMAIN d.provider
    ELSE {ProviderOf(d, Option(d, m, LiveSeats(d, m)[i])) : i \in DOMAIN LiveSeats(d, m)}
HttpClients(d, m) == {p \in Clients(d, m) : d.provider[p].kind = "http"}

(* The catalog, cards and decks are read before an adapter is opened.       *)
DecksHold(d) ==
    d.cards # "none" =>
        /\ d.decks.known
        /\ d.cards = "enabled" => d.decks.chosen
        /\ d.decks.partitioned
ContractsHold(d) == d.catalog /\ DecksHold(d)

SecretsHold(d, m) ==
    IF d.resolver = "none" THEN \A p \in Clients(d, m) : ~d.provider[p].keyed
    ELSE d.live # "none"

(* An injected transport nobody needs is an error.                          *)
TransportHolds(d, m) == d.transport = "injected" => HttpClients(d, m) # {}

PromptsHold(d) == d.overridden \subseteq d.personas

(* A server with a catalog composes live launches by its application        *)
(* factory, which has the ports only where grants are per start.            *)
FactoryHolds(d, m) ==
    d.index # None /\ LiveSeats(d, m) # <<>> => d.live = "per start"

Openable(d, m) ==
    FactoryHolds(d, m) /\ ContractsHold(d) /\ SecretsHold(d, m) /\ PromptsHold(d) /\ TransportHolds(d, m)

(* An HTTP client of one's own has to be closed again.                      *)
OwnsClient(d, m) == HttpClients(d, m) # {} /\ d.transport = "own"

-----------------------------------------------------------------------------
(* The pilots whose providers and personas must be at hand: those of the    *)
(* live seats, or all there are.                                            *)
BoundPilots(d, m) ==
    IF LiveSeats(d, m) = <<>> THEN DOMAIN d.spec
    ELSE {Option(d, m, LiveSeats(d, m)[i]).pilot : i \in DOMAIN LiveSeats(d, m)}
PilotsHold(d, m) ==
    \A p \in BoundPilots(d, m) : d.spec[p].archetype = "llm" =>
        d.spec[p].provider \in Clients(d, m) /\ d.spec[p].persona \in d.personas

(* Packs of handlers are named, and two of them need cards that are played. *)
PackHolds(d, pack) ==
    d.packs[pack] # None =>
        /\ d.packs[pack] = "default"
        /\ pack \in {"rules", "utilities"} => d.cards = "enabled"
PacksHold(d) == \A pack \in DOMAIN d.packs : PackHolds(d, pack)

(* A bounty is paid into a total that settles.                              *)
IncentiveHolds(d) == d.bounty => d.cards = "enabled" /\ d.arena = "settles"

(* The selection-outcome judge plays duels: it needs a loadout, a complete  *)
(* set of parameters, and a number to change.                               *)
LearningHolds(d) ==
    d.learning.kind = "selection_outcome" =>
        d.learning.loadout /\ d.learning.complete /\ d.learning.numeric

(* _admitted_seat_overlay: in card mode each model seat is programmed by    *)
(* the pilot that was admitted for it, whatever the overlay had there, if   *)
(* the overlay or that of a seat's source has programmers.                  *)
Declared(d, m) ==
    d.programmers \/ \E s \in DOMAIN Sides \ HumanSeats(d, m) : d.request[m].seat[s] \in d.declares
Programmed(d, m) ==
    IF d.cards # "none" /\ Declared(d, m) THEN DOMAIN Sides \ HumanSeats(d, m) ELSE {}
Programmer(d, m, s) ==
    [provider |-> ProviderOf(d, Option(d, m, s)), persona |-> Option(d, m, s).persona]

(* Mutant of SeatsDiffer: only the personas of the split decks are compared. *)
SeatsDifferByArchetype(d, m) ==
    \A s \in Programmed(d, m) : d.archetype[s] # None => Programmer(d, m, s).persona = d.archetype[s]

(* validate_seat_programmer_identity: two programmed seats are two          *)
(* decision-makers, and those of split decks are what the decks are for.    *)
SeatsDiffer(d, m) ==
    /\ \A s \in Programmed(d, m) :
           d.archetype[s] # None => Programmer(d, m, s).persona = d.archetype[s]
    /\ \A s, t \in Programmed(d, m) : s # t => Programmer(d, m, s) # Programmer(d, m, t)
ProgrammersHold(d, m) ==
    SeatsDiffer(d, m) /\ \A s \in Programmed(d, m) : Programmer(d, m, s).provider \in Clients(d, m)

CadenceHolds(d) == d.paced => d.cards = "enabled"

Composed(d, m) ==
    /\ LearningHolds(d) /\ PilotsHold(d, m) /\ PacksHold(d) /\ IncentiveHolds(d)
    /\ ProgrammersHold(d, m) /\ d.arena # "unknown" /\ CadenceHolds(d)

-----------------------------------------------------------------------------
(* assemble_match_with_dependencies: legal loadouts, a pilot with a client  *)
(* for each model seat, and a learner who sits in this match and, where     *)
(* rounds are programmed, is programmed.                                    *)
LearnerSits(d, m) ==
    d.learning.kind # None =>
        /\ d.learning.seat \in DOMAIN Sides
        /\ Programmed(d, m) # {} => d.learning.seat \in Programmed(d, m)
Assembled(d, m) ==
    /\ d.legal
    /\ \A s \in DOMAIN Sides \ HumanSeats(d, m) :
           ProviderOf(d, Option(d, m, s)) \in Clients(d, m)
    /\ LearnerSits(d, m)

-----------------------------------------------------------------------------
(* How far a launch comes by itself, each stage with what it has opened.     *)
Stage(d, m, spent) ==
    IF ~(Admissible(d, m) /\ Granted(d, m, spent) /\ Equipped(d, m)) THEN "admission"
    ELSE IF ~Openable(d, m) THEN "opening"
    ELSE IF ~Composed(d, m) THEN "building"
    ELSE IF ~Assembled(d, m) THEN "assembling" ELSE "served"

(* A store that does not open, a subscription or a receipt that raises.     *)
Faults == {"building", "assembling", "serving"}

(* The client is open from the building on.                                 *)
Opens(d, m, stage) == stage \notin {"admission", "opening"} /\ OwnsClient(d, m)

(* Mutant of Closing: the assembly does not close what was built for it.     *)
ClosingWhatItBuilt == {"building", "serving"}

(* Each stage has an except clause of its own that closes the client:       *)
(* build_llm_dependencies and build_runtime_dependencies, then              *)
(* assemble_selected_match_live, then launch_browser_play_session.          *)
Closing == {"building", "assembling", "serving"}

(* The contracts of an overlay: its identities have providers, and a key    *)
(* has a resolver; only cards that are played have a deck, programmers and  *)
(* a pace; duels have a loadout.                                            *)
OverlayHolds(d) ==
    /\ \A i \in DOMAIN d.identity : d.identity[i] \in DOMAIN d.provider
    /\ d.resolver = "none" => \A p \in DOMAIN d.provider : ~d.provider[p].keyed
CardsHold(d) ==
    /\ d.cards # "none" => (d.cards = "enabled" <=> d.decks.chosen)
    /\ d.paced \/ d.programmers => d.cards = "enabled"
LaneHolds(d) == d.learning.kind = "selection_outcome" => d.learning.loadout

(* What the contracts of overlay, roster and session have made sure of      *)
(* before the server starts.                                                *)
ASSUME LaunchAssumption ==
    /\ None \notin Matches
    /\ \A d \in {Deployments[name] : name \in DOMAIN Deployments} :
         /\ Fields \subseteq DOMAIN d
         /\ DOMAIN d.request = Matches
         /\ OverlayHolds(d) /\ CardsHold(d) /\ LaneHolds(d)
         /\ DOMAIN d.option = UNION {d.allowed[s] : s \in DOMAIN Sides}
         /\ d.permissions \cap {"red", "blue"} # {} => d.human # None
         /\ d.live \in {"none", "fixed", "per start"}
         /\ DOMAIN d.grant \subseteq DOMAIN d.identity
         /\ \A i \in DOMAIN d.grant : d.grant[i].budget \in Nat \ {0}
         /\ d.live = "per start" => d.transport = "injected"
         /\ d.live = "none" => d.transport = "own"
=============================================================================
