---------------------------- MODULE ModelCatalog ----------------------------
(***************************************************************************)
(* The catalog a browser play server offers its seats from                 *)
(* (contracts/model_catalog.py, match/composition.py, cli/play.py): an     *)
(* index names sources, each an overlay with a roster, and gives their     *)
(* options names of the catalog.  When the server starts, the sources are  *)
(* validated and merged, once, into the overlay, the pilots, the loadouts  *)
(* and the roster that every launch then goes by (module MatchLaunch).     *)
(*                                                                         *)
(* An index i is None (the server has a roster) or has the fields          *)
(*   source: overlay id -> [provider, identity, spec, option: as those of a*)
(*     deployment; seat: the seats of its roster; alias: option -> its name*)
(*     in the catalog; loadout: those it names; programmers: has its       *)
(*     overlay some?]                                                      *)
(*   seat: <<red, blue>>, each [allowed (None: every option), default,     *)
(*     loadout, named: option -> loadout]                                  *)
(*   chassis, mirror                                                       *)
(* Digests and display names are left out, and what only tests ask of a    *)
(* catalog (the provenance of a pairing).                                  *)
(***************************************************************************)
EXTENDS MatchLaunch

(* Mutant of Agree: a later definition replaces an earlier one.             *)
AgreeAnyhow(maps) == TRUE

(* Several definitions of one name have to be the same.                     *)
Agree(maps) == \A f, g \in maps : \A x \in DOMAIN f \cap DOMAIN g : f[x] = g[x]

(* All that any of them defines.                                            *)
Merged(maps) ==
    [x \in UNION {DOMAIN f : f \in maps} |-> (CHOOSE f \in maps : x \in DOMAIN f)[x]]

-----------------------------------------------------------------------------
(* A source *)

(* A seat of a roster flies what it names for an option, or its own loadout.*)
LoadoutFor(seat, o) == IF o \in DOMAIN seat.named THEN seat.named[o] ELSE seat.loadout

SeatHolds(seat) ==
    /\ seat.allowed # {}
    /\ seat.default \in seat.allowed \cup {None}
    /\ DOMAIN seat.named \in {{}, seat.allowed}

(* A roster is closed: its seats allow its options, and each option is      *)
(* allowed to one of them.                                                  *)
RosterClosed(options, seats) == UNION {seats[s].allowed : s \in DOMAIN Sides} = options

(* The catalog offers every option to both seats: one its source offers to  *)
(* a single seat has that seat's loadout for either.                        *)
DeclaredLoadout(source, s, o) ==
    LET seat == source.seat[IF o \in source.seat[s].allowed THEN s ELSE 3 - s]
    IN  LoadoutFor(seat, o)

(* The source stands by itself, and each of its options gets a name.        *)
SourceHolds(source) ==
    /\ \A s \in DOMAIN Sides : SeatHolds(source.seat[s])
    /\ RosterClosed(DOMAIN source.option, source.seat)
    /\ RosterHolds(source)
    /\ DOMAIN source.alias = DOMAIN source.option

Aliases(source) == {source.alias[o] : o \in DOMAIN source.alias}
AliasesDiffer(source) ==
    \A o, p \in DOMAIN source.alias : o # p => source.alias[o] # source.alias[p]

-----------------------------------------------------------------------------
(* The catalog *)

(* A name stands for one option of one source.                              *)
NamesHold(i) ==
    /\ \A id \in DOMAIN i.source : AliasesDiffer(i.source[id])
    /\ \A id, other \in DOMAIN i.source :
           id # other => Aliases(i.source[id]) \cap Aliases(i.source[other]) = {}

Names(i) == UNION {Aliases(i.source[id]) : id \in DOMAIN i.source}
SourceOf(i, c) == i.source[CHOOSE id \in DOMAIN i.source : c \in Aliases(i.source[id])]
OptionOf(source, c) == CHOOSE o \in DOMAIN source.alias : source.alias[o] = c

(* A seat that lists no options allows all of them.                         *)
Policy(i, s) ==
    IF i.seat[s].allowed = None THEN [i.seat[s] EXCEPT !.allowed = Names(i)] ELSE i.seat[s]
Policies(i) == [s \in DOMAIN Sides |-> Policy(i, s)]

(* Who decides for an option.                                               *)
SeatIdentity(i, c) ==
    LET source == SourceOf(i, c)
        option == source.option[OptionOf(source, c)]
    IN  IF option.kind = "human" THEN [programmer |-> option.identity, role |-> "human_operator"]
        ELSE [programmer |-> source.identity[option.identity], role |-> option.persona]

(* What the seats start from is two decision-makers on two chassis, unless  *)
(* the catalog is for mirror matches.                                       *)
DefaultsDiffer(i) ==
    /\ \A s \in DOMAIN Sides : i.seat[s].default # None
    /\ SeatIdentity(i, i.seat[1].default) # SeatIdentity(i, i.seat[2].default)
    /\ i.chassis[1] # i.chassis[2]
CatalogHolds(i) ==
    /\ RosterClosed(Names(i), Policies(i))
    /\ i.mirror \/ DefaultsDiffer(i)

CatalogLoads(i) ==
    /\ NamesHold(i)
    /\ \A id \in DOMAIN i.source : SourceHolds(i.source[id])
    /\ \A s \in DOMAIN Sides : SeatHolds(Policy(i, s))
    /\ CatalogHolds(i)

-----------------------------------------------------------------------------
(* The server *)
AllSpecs(i) == {i.source[id].spec : id \in DOMAIN i.source}
AllProviders(d) == {d.provider} \cup {d.index.source[id].provider : id \in DOMAIN d.index.source}
AllIdentities(d) == {d.identity} \cup {d.index.source[id].identity : id \in DOMAIN d.index.source}
AllLoadouts(d) == {d.loadout} \cup {d.index.source[id].loadout : id \in DOMAIN d.index.source}

(* The overlay of the launch and those of the sources go together.          *)
MergesHold(d) == Agree(AllProviders(d)) /\ Agree(AllIdentities(d)) /\ Agree(AllSpecs(d.index)) /\ Agree(AllLoadouts(d))

(* What the browser is shown before a match is projected once, too.         *)
Inspectable(d) == PromptsHold(d) /\ d.packs["rules"] \in {None, "default"}

Startable(d) ==
    /\ d.index = None \/ (CatalogLoads(d.index) /\ MergesHold(d))
    /\ Inspectable(d)

(* to_roster_binding: what a seat flies with an option is what the option's *)
(* source declares; what the index says of it is not asked.                 *)
FlownBy(d, s, c) ==
    LET source == SourceOf(d.index, c)
        loadout == DeclaredLoadout(source, s, OptionOf(source, c))
    IN  IF loadout \in DOMAIN Merged(AllLoadouts(d)) THEN Merged(AllLoadouts(d))[loadout].pilot ELSE None
Flown(d) == [s \in DOMAIN Sides |-> [c \in Policy(d.index, s).allowed |-> FlownBy(d, s, c)]]

(* The options of the catalog, as a roster.                                 *)
CatalogOptions(i) == [c \in Names(i) |-> SourceOf(i, c).option[OptionOf(SourceOf(i, c), c)]]

(* The deployment each launch of the server goes by.                        *)
Served(d) ==
    IF d.index = None THEN d
    ELSE [d EXCEPT !.option = CatalogOptions(d.index),
                   !.allowed = [s \in DOMAIN Sides |-> Policy(d.index, s).allowed],
                   !.flown = Flown(d),
                   !.identity = Merged(AllIdentities(d)),
                   !.provider = Merged(AllProviders(d)),
                   !.spec = Merged(AllSpecs(d.index)),
                   !.declares = {c \in Names(d.index) : SourceOf(d.index, c).programmers}]

(* The servers that start, and what they serve.                             *)
Servers == [name \in {n \in DOMAIN Deployments : Startable(Deployments[n])} |-> Served(Deployments[name])]
=============================================================================
