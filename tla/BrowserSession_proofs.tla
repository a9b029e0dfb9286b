------------------------ MODULE BrowserSession_proofs ------------------------
(***************************************************************************)
(* OneMatchHoldsAll for any number of matches, deployments, catalogs,      *)
(* grants and ticks; first what it needs of the catalog a server merges    *)
(* when it starts: sources whose definitions agree lose nothing.           *)
(*                                                                         *)
(* A worker that was started and not yet reaped is the session's, and a    *)
(* retirement is scheduled only for a session whose worker was reaped: so  *)
(* the session is forgotten only when nobody works for it, and the next    *)
(* admission finds nobody at work.  The answer to a prompt is the one step *)
(* that could revive a worker; it is refused once the session is closed,   *)
(* and until then the worker of a prompt that was sent is waiting for it.  *)
(***************************************************************************)
EXTENDS BrowserSession, TLAPS

Places == {"none", "starting", "loop", "gated", "deciding", "asking", "decided", "ending",
           "returned", "raised", "reaped"}
Working(m) == worker[m] \notin {"none", "reaped"}

Shape ==
    /\ server \in DOMAIN Servers
    /\ spent \in [DOMAIN deployment.grant -> Nat]
    /\ session \in records \cup {None}
    /\ worker \in [Matches -> Places]
    /\ queue \in Seq(Frames)
    /\ records \subseteq Matches /\ closed \subseteq records
    /\ retiring \in BOOLEAN

(* The session and its worker.                                             *)
Held ==
    /\ \A m \in Matches : Working(m) => session = m
    /\ session # None => worker[session] # "none"
    /\ retiring => session # None /\ worker[session] = "reaped"
    /\ \A m \in prompted : m \notin closed => worker[m] = "asking"

Clean == clients \subseteq Matches /\ clients \subseteq {session} \ closed

(* What entitles a match; the grants it was admitted with are fixed ones.  *)
Invited(m) ==
    \A s \in HumanSeats(deployment, m) :
        Sides[s] \in deployment.permissions /\ Option(deployment, m, s).identity = deployment.human
Covered(m, id) ==
    /\ id \in DOMAIN deployment.grant
    /\ deployment.grant[id].match = m /\ spent[id] \in 1 .. deployment.grant[id].budget
Funded(m) ==
    deployment.live = "per start"
      \/ \A i \in DOMAIN LiveIdentities(deployment, m) : Covered(m, LiveIdentities(deployment, m)[i])
Distinct(m) ==
    \A s, t \in Programmed(deployment, m) :
        s # t => Programmer(deployment, m, s) # Programmer(deployment, m, t)

Earned ==
    /\ \A m \in records : Invited(m) /\ Funded(m) /\ Distinct(m)
    /\ \A i \in DOMAIN deployment.grant : spent[i] <= deployment.grant[i].budget

IInv == Shape /\ Held /\ Clean /\ Earned

-----------------------------------------------------------------------------
(* The catalog                                                             *)

(* Where definitions agree, what one of them says is what all of them say. *)
LEMMA MergedAsAny ==
    ASSUME NEW maps, Agree(maps), NEW f \in maps, NEW x \in DOMAIN f
    PROVE  x \in DOMAIN Merged(maps) /\ Merged(maps)[x] = f[x]
<1> DEFINE g == CHOOSE h \in maps : x \in DOMAIN h
<1>1. g \in maps /\ x \in DOMAIN g
  OBVIOUS
<1>2. f[x] = g[x]
  BY <1>1 DEF Agree
<1>3. x \in UNION {DOMAIN h : h \in maps}
  OBVIOUS
<1> QED  BY <1>2, <1>3 DEF Merged

(* A name of the catalog leads back to its one option.                     *)
LEMMA NameIsOne ==
    ASSUME NEW i, NamesHold(i), NEW id \in DOMAIN i.source, NEW o \in DOMAIN i.source[id].alias
    PROVE  LET c == i.source[id].alias[o]
           IN  c \in Names(i) /\ SourceOf(i, c) = i.source[id] /\ OptionOf(i.source[id], c) = o
<1> DEFINE c == i.source[id].alias[o]
           other == CHOOSE k \in DOMAIN i.source : c \in Aliases(i.source[k])
           p == CHOOSE q \in DOMAIN i.source[id].alias : i.source[id].alias[q] = c
<1>1. c \in Aliases(i.source[id])
  BY DEF Aliases
<1>2. other \in DOMAIN i.source /\ c \in Aliases(i.source[other])
  BY <1>1
<1>3. other = id
  BY <1>1, <1>2 DEF NamesHold
<1>4. p \in DOMAIN i.source[id].alias /\ i.source[id].alias[p] = c
  OBVIOUS
<1>5. p = o
  BY <1>4 DEF NamesHold, AliasesDiffer
<1>6. c \in Names(i)
  BY <1>1 DEF Names
<1>7. SourceOf(i, c) = i.source[other]
  BY DEF SourceOf
<1>8. OptionOf(i.source[id], c) = p
  BY DEF OptionOf
<1> QED  BY <1>3, <1>5, <1>6, <1>7, <1>8

(* A name of the catalog is one a source gave.                             *)
LEMMA NameHasSource ==
    ASSUME NEW i, NamesHold(i), NEW c \in Names(i)
    PROVE  \E id \in DOMAIN i.source : \E o \in DOMAIN i.source[id].alias :
               c = i.source[id].alias[o] /\ SourceOf(i, c) = i.source[id] /\ OptionOf(i.source[id], c) = o
<1>1. PICK id \in DOMAIN i.source : c \in Aliases(i.source[id])
  BY DEF Names
<1>2. PICK o \in DOMAIN i.source[id].alias : c = i.source[id].alias[o]
  BY <1>1 DEF Aliases
<1>3. SourceOf(i, c) = i.source[id] /\ OptionOf(i.source[id], c) = o
  BY <1>2, NameIsOne
<1> QED  BY <1>2, <1>3

(* What serving changes of a deployment, and what it leaves.               *)
LEMMA Kept ==
    ASSUME NEW d, Fields \subseteq DOMAIN d
    PROVE  /\ Served(d).live = d.live /\ Served(d).grant = d.grant
           /\ Served(d).index = d.index /\ Served(d).request = d.request
BY DEF Served, Fields
LEMMA Changed ==
    ASSUME NEW d, Fields \subseteq DOMAIN d, d.index # None
    PROVE  /\ Served(d).option = CatalogOptions(d.index)
           /\ Served(d).allowed = [s \in DOMAIN Sides |-> Policy(d.index, s).allowed]
           /\ Served(d).identity = Merged(AllIdentities(d))
           /\ Served(d).provider = Merged(AllProviders(d))
           /\ Served(d).spec = Merged(AllSpecs(d.index))
BY DEF Served, Fields

(* What a server with a catalog that starts has made sure of.              *)
LEMMA CatalogStarted ==
    ASSUME NEW name \in DOMAIN Servers, Deployments[name].index # None
    PROVE  LET d == Deployments[name]
           IN  /\ Servers[name] = Served(d) /\ Fields \subseteq DOMAIN d
               /\ CatalogLoads(d.index) /\ MergesHold(d)
<1>1. name \in DOMAIN Deployments /\ Startable(Deployments[name]) /\ Servers[name] = Served(Deployments[name])
  BY DEF Servers
<1>2. Fields \subseteq DOMAIN Deployments[name]
  BY <1>1, LaunchAssumption DEF LaunchAssumption, OverlayHolds
<1> QED  BY <1>1, <1>2 DEF Startable

(* What a source says of an option is what the server says of its name.    *)
LEMMA OptionServed ==
    ASSUME NEW name \in DOMAIN Servers, Deployments[name].index # None,
           NEW id \in DOMAIN Deployments[name].index.source,
           NEW o \in DOMAIN Deployments[name].index.source[id].option
    PROVE  LET d == Servers[name]
               source == Deployments[name].index.source[id]
               option == source.option[o]
               provider == source.identity[option.identity]
           IN  /\ source.alias[o] \in DOMAIN d.option /\ d.option[source.alias[o]] = option
               /\ option.kind = "model" =>
                    /\ option.identity \in DOMAIN d.identity /\ d.identity[option.identity] = provider
                    /\ provider \in DOMAIN d.provider /\ d.provider[provider] = source.provider[provider]
                    /\ option.pilot \in DOMAIN d.spec /\ d.spec[option.pilot] = source.spec[option.pilot]
<1> DEFINE e == Deployments[name]
           i == e.index
           d == Servers[name]
           source == i.source[id]
           option == source.option[o]
           provider == source.identity[option.identity]
<1>1. d = Served(e) /\ Fields \subseteq DOMAIN e /\ CatalogLoads(i) /\ MergesHold(e)
  BY CatalogStarted
<1>2. NamesHold(i) /\ SourceHolds(source)
  BY <1>1 DEF CatalogLoads
<1>3. o \in DOMAIN source.alias
  BY <1>2 DEF SourceHolds
<1>4. source.alias[o] \in Names(i) /\ SourceOf(i, source.alias[o]) = source /\ OptionOf(source, source.alias[o]) = o
  BY <1>2, <1>3, NameIsOne
<1>5. d.option = CatalogOptions(i)
  BY <1>1, Changed
<1>6. source.alias[o] \in DOMAIN d.option /\ d.option[source.alias[o]] = option
  <2> HIDE DEF i, d
  <2> QED  BY <1>4, <1>5 DEF CatalogOptions
<1>7. ASSUME option.kind = "model"
      PROVE  /\ option.identity \in DOMAIN d.identity /\ d.identity[option.identity] = provider
             /\ provider \in DOMAIN d.provider /\ d.provider[provider] = source.provider[provider]
             /\ option.pilot \in DOMAIN d.spec /\ d.spec[option.pilot] = source.spec[option.pilot]
  <2>1. RosterHolds(source)
    BY <1>2 DEF SourceHolds
  <2>2. /\ option.identity \in DOMAIN source.identity
        /\ option.pilot \in DOMAIN source.spec
    BY <2>1, <1>7 DEF RosterHolds
  <2>3. provider \in DOMAIN source.provider
    BY <2>1, <2>2 DEF RosterHolds
  <2>4. /\ source.identity \in AllIdentities(e) /\ source.provider \in AllProviders(e)
        /\ source.spec \in AllSpecs(i)
    BY DEF AllIdentities, AllProviders, AllSpecs
  <2>5. Agree(AllIdentities(e)) /\ Agree(AllProviders(e)) /\ Agree(AllSpecs(i))
    BY <1>1 DEF MergesHold
  <2>6. /\ d.identity = Merged(AllIdentities(e)) /\ d.provider = Merged(AllProviders(e))
        /\ d.spec = Merged(AllSpecs(i))
    BY <1>1, Changed
  <2> HIDE DEF e, i, d, source, option, provider
  <2>7. option.identity \in DOMAIN d.identity /\ d.identity[option.identity] = source.identity[option.identity]
    BY <2>2, <2>4, <2>5, <2>6, MergedAsAny
  <2>8. provider \in DOMAIN d.provider /\ d.provider[provider] = source.provider[provider]
    BY <2>3, <2>4, <2>5, <2>6, MergedAsAny
  <2>9. option.pilot \in DOMAIN d.spec /\ d.spec[option.pilot] = source.spec[option.pilot]
    BY <2>2, <2>4, <2>5, <2>6, MergedAsAny
  <2> QED  BY <2>7, <2>8, <2>9 DEF provider
<1> HIDE DEF d, source, option, provider
<1> QED  BY <1>6, <1>7 DEF d, source, option, provider

(* A server that started with a catalog has a closed roster, which holds   *)
(* against the merged overlay and pilots as the sources' rosters did, and  *)
(* whatever its seats choose is played as the option's source says: no     *)
(* provider or pilot of another source takes its place                     *)
(* (load_model_catalog_runtime_overlay, to_roster_binding).                *)
THEOREM CatalogServes ==
    ASSUME NEW name \in DOMAIN Servers, Deployments[name].index # None
    PROVE  LET d == Servers[name]
           IN  /\ DOMAIN d.option = UNION {d.allowed[s] : s \in DOMAIN Sides}
               /\ RosterHolds(d)
               /\ \A m \in Matches : AsDeclared(d, m)
<1> DEFINE e == Deployments[name]
           i == e.index
           d == Servers[name]
<1>1. d = Served(e) /\ Fields \subseteq DOMAIN e /\ CatalogLoads(i) /\ MergesHold(e)
  BY CatalogStarted
<1>2. NamesHold(i) /\ \A id \in DOMAIN i.source : SourceHolds(i.source[id])
  BY <1>1 DEF CatalogLoads
<1>3. d.option = CatalogOptions(i) /\ d.allowed = [s \in DOMAIN Sides |-> Policy(i, s).allowed]
  BY <1>1, Changed
<1>4. DOMAIN d.option = UNION {d.allowed[s] : s \in DOMAIN Sides}
  <2>1. UNION {Policies(i)[s].allowed : s \in DOMAIN Sides} = Names(i)
    BY <1>1 DEF CatalogLoads, CatalogHolds, RosterClosed
  <2>2. \A s \in DOMAIN Sides : Policies(i)[s].allowed = d.allowed[s]
    <3> HIDE DEF d, i
    <3> QED  BY <1>3 DEF Policies
  <2>3. DOMAIN d.option = Names(i)
    <3> HIDE DEF d, i
    <3> QED  BY <1>3 DEF CatalogOptions
  <2> HIDE DEF d, i
  <2> QED  BY <2>1, <2>2, <2>3
<1>5. RosterHolds(d)
  <2>1. ASSUME NEW x \in DOMAIN d.identity  PROVE d.identity[x] \in DOMAIN d.provider
    <3>1. d.identity = Merged(AllIdentities(e)) /\ d.provider = Merged(AllProviders(e))
      BY <1>1, Changed
    <3>2. Agree(AllIdentities(e)) /\ Agree(AllProviders(e))
      BY <1>1 DEF MergesHold
    <3>3. PICK f \in AllIdentities(e) : x \in DOMAIN f
      <4> HIDE DEF d, e
      <4> QED  BY <3>1 DEF Merged
    <3>4. d.identity[x] = f[x]
      <4> HIDE DEF d, e
      <4> QED  BY <3>1, <3>2, <3>3, MergedAsAny
    <3>5. CASE f = e.identity
      <4>1. name \in DOMAIN Deployments
        BY DEF Servers
      <4>2. f[x] \in DOMAIN e.provider
        BY <3>3, <3>5, <4>1, LaunchAssumption DEF LaunchAssumption, OverlayHolds
      <4>3. e.provider \in AllProviders(e)
        BY DEF AllProviders
      <4> HIDE DEF d, e
      <4> QED  BY <3>1, <3>2, <3>4, <4>2, <4>3, MergedAsAny
    <3>6. CASE \E id \in DOMAIN i.source : f = i.source[id].identity
      <4>1. PICK id \in DOMAIN i.source : f = i.source[id].identity
        BY <3>6
      <4>2. f[x] \in DOMAIN i.source[id].provider
        BY <1>2, <3>3, <4>1 DEF SourceHolds, RosterHolds
      <4>3. i.source[id].provider \in AllProviders(e)
        BY DEF AllProviders
      <4> HIDE DEF d, e, i
      <4> QED  BY <3>1, <3>2, <3>4, <4>2, <4>3, MergedAsAny
    <3> QED  BY <3>3, <3>5, <3>6 DEF AllIdentities
  <2>2. ASSUME NEW c \in DOMAIN d.option, d.option[c].kind = "model"
        PROVE  /\ d.option[c].identity \in DOMAIN d.identity
               /\ d.option[c].pilot \in DOMAIN d.spec
               /\ d.spec[d.option[c].pilot] =
                    [archetype |-> "llm", provider |-> ProviderOf(d, d.option[c]),
                     persona |-> d.option[c].persona]
    <3>1. c \in Names(i)
      <4> HIDE DEF d, i
      <4> QED  BY <1>3 DEF CatalogOptions
    <3>0. PICK id \in DOMAIN i.source : \E o \in DOMAIN i.source[id].alias : c = i.source[id].alias[o]
      <4> HIDE DEF i
      <4> QED  BY <1>2, <3>1, NameHasSource
    <3>2. PICK o \in DOMAIN i.source[id].alias : c = i.source[id].alias[o]
      BY <3>0
    <3> DEFINE source == i.source[id]
    <3>3. o \in DOMAIN source.option /\ RosterHolds(source)
      BY <1>2, <3>2 DEF SourceHolds
    <3>4. d.option[c] = source.option[o]
      BY <3>2, <3>3, OptionServed
    <3>5. source.spec[source.option[o].pilot] =
            [archetype |-> "llm", provider |-> source.identity[source.option[o].identity],
             persona |-> source.option[o].persona]
      BY <3>3, <3>4, <2>2 DEF RosterHolds, ProviderOf
    <3>6. /\ source.option[o].identity \in DOMAIN d.identity
          /\ d.identity[source.option[o].identity] = source.identity[source.option[o].identity]
          /\ source.option[o].pilot \in DOMAIN d.spec
          /\ d.spec[source.option[o].pilot] = source.spec[source.option[o].pilot]
      <4>1. source.option[o].kind = "model"
        BY <3>4, <2>2
      <4> QED  BY <3>3, <4>1, OptionServed
    <3> HIDE DEF d, source
    <3> QED  BY <3>4, <3>5, <3>6 DEF ProviderOf
  <2> HIDE DEF d
  <2> QED  BY <2>1, <2>2 DEF RosterHolds
<1>6. ASSUME NEW m \in Matches  PROVE AsDeclared(d, m)
  <2>1. d.index = i
    BY <1>1, Kept
  <2> DEFINE option(id, o) == i.source[id].option[o]
             provider(id, o) == i.source[id].identity[option(id, o).identity]
  <2>2. ASSUME NEW id \in DOMAIN i.source, NEW o \in DOMAIN i.source[id].option, NEW s \in DOMAIN Sides,
               option(id, o).kind = "model", d.request[m].seat[s] = i.source[id].alias[o]
        PROVE  /\ ProviderOf(d, Option(d, m, s)) = provider(id, o)
               /\ d.provider[provider(id, o)] = i.source[id].provider[provider(id, o)]
               /\ d.spec[Option(d, m, s).pilot] = i.source[id].spec[option(id, o).pilot]
    <3>1. /\ d.option[i.source[id].alias[o]] = option(id, o)
          /\ d.identity[option(id, o).identity] = provider(id, o)
          /\ d.provider[provider(id, o)] = i.source[id].provider[provider(id, o)]
          /\ d.spec[option(id, o).pilot] = i.source[id].spec[option(id, o).pilot]
      BY <2>2, OptionServed
    <3> HIDE DEF d, i, option, provider
    <3> QED  BY <2>2, <3>1 DEF ProviderOf, Option
  <2> HIDE DEF d, i
  <2> QED  BY <2>1, <2>2 DEF AsDeclared
<1> HIDE DEF d
<1> QED  BY <1>4, <1>5, <1>6 DEF d

-----------------------------------------------------------------------------
(* The launch                                                              *)

(* A roster has no sources, a catalog's options are played as declared.    *)
LEMMA ServedAsDeclared ==
    ASSUME Shape, NEW m \in records
    PROVE  AsDeclared(deployment, m)
<1>1. server \in DOMAIN Servers /\ server \in DOMAIN Deployments /\ m \in Matches
  BY DEF Shape, Servers
<1>2. deployment = Served(Deployments[server]) /\ Fields \subseteq DOMAIN Deployments[server]
  BY <1>1, LaunchAssumption DEF LaunchAssumption, Servers, deployment
<1>3. CASE Deployments[server].index = None
  BY <1>2, <1>3, Kept DEF AsDeclared
<1>4. CASE Deployments[server].index # None
  BY <1>1, <1>4, CatalogServes DEF deployment
<1> QED  BY <1>3, <1>4

LEMMA DeploymentHolds ==
    ASSUME server \in DOMAIN Servers
    PROVE  /\ deployment.live \in {"none", "fixed", "per start"}
           /\ \A i \in DOMAIN deployment.grant : deployment.grant[i].budget \in Nat \ {0}
<1> DEFINE d == Deployments[server]
<1>1. server \in DOMAIN Deployments /\ deployment = Served(d)
  BY DEF Servers, deployment
<1>2. /\ Fields \subseteq DOMAIN d
      /\ d.live \in {"none", "fixed", "per start"}
      /\ \A i \in DOMAIN d.grant : d.grant[i].budget \in Nat \ {0}
  BY <1>1, LaunchAssumption DEF LaunchAssumption, OverlayHolds
<1>3. deployment.live = d.live /\ deployment.grant = d.grant
  BY <1>1, <1>2, Kept
<1> QED  BY <1>2, <1>3

(* The identities of the live seats are a sequence.                        *)
LEMMA Identities ==
    ASSUME NEW d, NEW m, NEW i \in DOMAIN LiveIdentities(d, m)
    PROVE  i \in Nat \ {0}
<1> DEFINE seats == LiveSeats(d, m)
           live(s) == IF IsLive(d, Option(d, m, s)) THEN <<s>> ELSE <<>>
           ids == [k \in DOMAIN seats |-> Option(d, m, seats[k]).identity]
<1>1. live(1) \in Seq({1, 2}) /\ live(2) \in Seq({1, 2})
  OBVIOUS
<1>2. seats = live(1) \o live(2)
  BY DEF LiveSeats
<1>3. seats \in Seq({1, 2})
  <2> HIDE DEF live, seats
  <2> QED  BY <1>1, <1>2
<1>4. LiveIdentities(d, m) = IF Len(ids) = 2 /\ ids[1] = ids[2] THEN <<ids[1]>> ELSE ids
  BY DEF LiveIdentities
<1>5. DOMAIN <<ids[1]>> \subseteq Nat \ {0}
  OBVIOUS
<1>6. DOMAIN ids \subseteq Nat \ {0}
  BY <1>3
<1> HIDE DEF seats, ids
<1> QED  BY <1>4, <1>5, <1>6

(* A launch spends within the budgets and takes nothing back.              *)
LEMMA Spending ==
    ASSUME Shape, Earned, NEW m \in Matches
    PROVE  LET after == SpentAfter(deployment, m, spent)
           IN  /\ after \in [DOMAIN deployment.grant -> Nat]
               /\ \A i \in DOMAIN deployment.grant :
                      spent[i] <= after[i] /\ after[i] <= deployment.grant[i].budget
<1> DEFINE after == SpentAfter(deployment, m, spent)
           ids == LiveIdentities(deployment, m)
           paid == {ids[i] : i \in Paid(deployment, m, spent)}
           fixed == deployment.live = "fixed" /\ Admissible(deployment, m) /\ Injected(deployment, m)
<1>1. spent \in [DOMAIN deployment.grant -> Nat]
  BY DEF Shape
<1>2. \A i \in DOMAIN deployment.grant :
        deployment.grant[i].budget \in Nat \ {0} /\ spent[i] <= deployment.grant[i].budget
  BY DeploymentHolds DEF Shape, Earned
<1>3. CASE ~fixed
  <2>1. after = spent
    BY <1>3 DEF SpentAfter
  <2> QED  BY <2>1, <1>1, <1>2
<1>4. CASE fixed
  <2>1. after = [i \in DOMAIN spent |-> IF i \in paid THEN spent[i] + 1 ELSE spent[i]]
    BY <1>4 DEF SpentAfter
  <2>2. \A k \in Paid(deployment, m, spent) : Redeems(deployment, m, spent, ids[k])
    BY Identities DEF Paid
  <2>3. \A i \in paid : spent[i] < deployment.grant[i].budget
    BY <2>2, <1>4 DEF Redeems
  <2>4. ASSUME NEW i \in DOMAIN deployment.grant
        PROVE  after[i] \in Nat /\ spent[i] <= after[i] /\ after[i] <= deployment.grant[i].budget
    <3>1. spent[i] \in Nat /\ i \in DOMAIN spent
      BY <1>1
    <3>2. after[i] = IF i \in paid THEN spent[i] + 1 ELSE spent[i]
      BY <2>1, <3>1
    <3> HIDE DEF after, paid
    <3> QED  BY <3>1, <3>2, <2>3, <1>2
  <2> HIDE DEF paid
  <2> QED  BY <2>1, <2>4, <1>1
<1> QED  BY <1>3, <1>4

(* A served match is invited, funded and played by two.                     *)
LEMMA ServedIsEntitled ==
    ASSUME Shape, Earned, NEW m \in Matches,
           Stage(deployment, m, spent) = "served",
           spent' = SpentAfter(deployment, m, spent), server' = server
    PROVE  Invited(m)' /\ Funded(m)' /\ Distinct(m)'
<1> DEFINE ids == LiveIdentities(deployment, m)
<1>0. deployment' = deployment
  BY DEF deployment
<1>1. /\ Admissible(deployment, m) /\ Granted(deployment, m, spent)
      /\ Composed(deployment, m)
  BY DEF Stage
<1>2. Invited(m)'
  BY <1>0, <1>1 DEF Invited, Admissible, Authorised, SeatAuthorised, HumanSeats
<1>3. Distinct(m)'
  BY <1>0, <1>1 DEF Distinct, Composed, ProgrammersHold, SeatsDiffer
<1>4. Funded(m)'
  <2>1. CASE deployment.live = "per start"
    BY <2>1, <1>0 DEF Funded
  <2>2. CASE ids = <<>>
    <3>1. DOMAIN ids = {}
      BY <2>2
    <3> QED  BY <3>1, <1>0 DEF Funded
  <2>3. CASE deployment.live = "fixed" /\ \A i \in DOMAIN ids : ids[i] \in DOMAIN deployment.grant
    <3>1. Injected(deployment, m) /\ Paid(deployment, m, spent) = DOMAIN ids
      BY <1>1 DEF Granted
    <3>2. SUFFICES ASSUME NEW i \in DOMAIN ids  PROVE Covered(m, ids[i])'
      BY <1>0 DEF Funded
    <3>3. Redeems(deployment, m, spent, ids[i])
      BY <3>1, Identities DEF Paid
    <3>4. spent[ids[i]] < deployment.grant[ids[i]].budget /\ deployment.grant[ids[i]].match = m
      BY <3>3, <2>3 DEF Redeems
    <3>5. ids[i] \in {ids[k] : k \in Paid(deployment, m, spent)}
      BY <3>1
    <3>6. spent \in [DOMAIN deployment.grant -> Nat] /\ deployment.grant[ids[i]].budget \in Nat
      BY <2>3, DeploymentHolds DEF Shape
    <3>7. spent'[ids[i]] = spent[ids[i]] + 1
      BY <3>1, <3>5, <3>6, <2>3, <1>1 DEF SpentAfter
    <3>8. spent[ids[i]] \in Nat
      BY <3>6, <2>3
    <3> DEFINE id == ids[i]
    <3>9. id \in DOMAIN deployment'.grant /\ deployment'.grant[id].match = m
      BY <2>3, <3>4, <1>0
    <3>10. spent'[id] \in 1 .. deployment'.grant[id].budget
      <4> HIDE DEF ids
      <4> QED  BY <3>4, <3>6, <3>7, <3>8, <1>0
    <3> QED  BY <3>9, <3>10, <1>0 DEF Covered
  <2> QED  BY <2>1, <2>2, <2>3, <1>1 DEF Granted, Injected
<1> QED  BY <1>2, <1>3, <1>4

(* The matches that were admitted stay entitled.                           *)
LEMMA StayEntitled ==
    ASSUME Shape, Earned, NEW m \in Matches,
           spent' = SpentAfter(deployment, m, spent), server' = server
    PROVE  /\ spent' \in [DOMAIN deployment'.grant -> Nat]
           /\ \A i \in DOMAIN deployment'.grant : spent'[i] <= deployment'.grant[i].budget
           /\ \A n \in records : Invited(n)' /\ Funded(n)' /\ Distinct(n)'
<1>0. deployment' = deployment
  BY DEF deployment
<1>1. /\ spent' \in [DOMAIN deployment.grant -> Nat]
      /\ \A i \in DOMAIN deployment.grant :
             spent[i] <= spent'[i] /\ spent'[i] <= deployment.grant[i].budget
  BY Spending
<1>2. \A i \in DOMAIN deployment.grant : spent[i] \in Nat /\ deployment.grant[i].budget \in Nat
  BY DeploymentHolds DEF Shape
<1>3. ASSUME NEW n, NEW id, Covered(n, id)  PROVE Covered(n, id)'
  BY <1>0, <1>1, <1>2, <1>3 DEF Covered
<1>4. ASSUME NEW n \in records  PROVE Invited(n)' /\ Funded(n)' /\ Distinct(n)'
  <2>1. Invited(n) /\ Funded(n) /\ Distinct(n)
    BY DEF Earned
  <2>2. Invited(n)' /\ Distinct(n)'
    BY <2>1, <1>0 DEF Invited, Distinct
  <2>3. Funded(n)'
    BY <2>1, <1>0, <1>3 DEF Funded
  <2> QED  BY <2>2, <2>3
<1> QED  BY <1>0, <1>1, <1>4

-----------------------------------------------------------------------------
(* The steps                                                               *)

LEMMA Start == Init => IInv
<1> SUFFICES ASSUME Init  PROVE IInv
  OBVIOUS
<1>0. server \in DOMAIN Servers /\ spent = [i \in DOMAIN deployment.grant |-> 0]
  BY DEF Init
<1>1. Shape
  <2>1. queue \in Seq(Frames)
    BY DEF Init
  <2>2. worker \in [Matches -> Places]
    BY DEF Init, Places
  <2>3. spent \in [DOMAIN deployment.grant -> Nat]
    BY <1>0
  <2> QED  BY <2>1, <2>2, <2>3 DEF Init, Shape
<1>2. Held
  BY DEF Init, Held, Working
<1>3. Clean
  BY DEF Init, Clean
<1>4. \A i \in DOMAIN deployment.grant : spent[i] <= deployment.grant[i].budget
  <2>1. \A i \in DOMAIN deployment.grant : spent[i] = 0 /\ deployment.grant[i].budget \in Nat
    BY <1>0, DeploymentHolds
  <2> QED  BY <2>1
<1>5. Earned
  BY <1>4 DEF Init, Earned
<1> QED  BY <1>1, <1>2, <1>3, <1>5 DEF IInv

(* Who leaves the records and the grants alone keeps what was earned.      *)
LEMMA EarnedStays == Earned /\ UNCHANGED admission => Earned'
<1> SUFFICES ASSUME Earned, UNCHANGED admission  PROVE Earned'
  OBVIOUS
<1>1. deployment' = deployment /\ spent' = spent /\ records' = records
  BY DEF deployment, admission
<1>2. \A i \in DOMAIN deployment'.grant : spent'[i] <= deployment'.grant[i].budget
  BY <1>1 DEF Earned
<1>3. ASSUME NEW m \in records
      PROVE  Invited(m)' /\ Funded(m)' /\ Distinct(m)'
  <2>1. Invited(m) /\ Funded(m) /\ Distinct(m)
    BY DEF Earned
  <2>2. Invited(m)'
    BY <2>1, <1>1 DEF Invited
  <2>3. Funded(m)'
    BY <2>1, <1>1 DEF Funded, Covered
  <2>4. Distinct(m)'
    BY <2>1, <1>1 DEF Distinct
  <2> QED  BY <2>2, <2>3, <2>4
<1> QED  BY <1>1, <1>2, <1>3 DEF Earned

(* A frame is read from a queue of frames.                                 *)
LEMMA Reads ==
    ASSUME Shape, NEW kind, Read(kind)
    PROVE  queue' \in Seq(Frames) /\ Head(queue) \in Frames /\ Head(queue).kind = kind
BY DEF Shape, Read

(* A step of the worker of a match, which was started and not yet reaped.  *)
LEMMA WorkHolds ==
    ASSUME IInv, NEW m \in Matches, NEW from \in Places \ {"none", "reaped"},
           NEW to \in Places \ {"none", "reaped"}, Work(m, from, to),
           from = "asking" => m \in closed
    PROVE  IInv'
<1>1. worker' = [worker EXCEPT ![m] = to] /\ worker[m] = from
  BY DEF Work
<1>2. UNCHANGED <<session, token, admission, stacks, reported, prompted, tasks, queue, handler>>
  BY DEF Work
<1>3. Shape'
  BY <1>1, <1>2 DEF IInv, Shape, Places, deployment, admission, stacks, tasks
<1>4. Held'
  <2>1. session = m
    BY <1>1 DEF IInv, Held, Working
  <2>2. ~retiring
    BY <2>1, <1>1 DEF IInv, Held
  <2>3. \A n \in Matches : worker'[n] = IF n = m THEN to ELSE worker[n]
    BY <1>1 DEF IInv, Shape
  <2>4. \A n \in prompted : n \notin closed => n # m
    BY <1>1 DEF IInv, Held
  <2> QED  BY <1>1, <1>2, <2>1, <2>2, <2>3, <2>4 DEF IInv, Held, Working, Shape, stacks, tasks
<1>5. Clean'
  BY <1>2 DEF IInv, Clean, stacks
<1>6. Earned'
  BY <1>2, EarnedStays DEF IInv
<1> QED  BY <1>3, <1>4, <1>5, <1>6 DEF IInv

(* A step beside the session: it may read or send a frame, or open the     *)
(* gate, or close stacks of admitted matches.                              *)
LEMMA Aside ==
    ASSUME IInv, UNCHANGED <<session, admission, worker, prompted, retiring>>,
           queue' \in Seq(Frames),
           NEW matches \in SUBSET records, Close(matches)
    PROVE  IInv'
<1>1. closed' = closed \cup matches /\ clients' = clients \ matches
  BY DEF Close
<1>2. server' = server /\ spent' = spent /\ records' = records /\ deployment' = deployment
  BY DEF admission, deployment
<1>3. Shape'
  BY <1>1, <1>2 DEF IInv, Shape
<1>4. Held'
  BY <1>1, <1>2 DEF IInv, Held, Working
<1>5. Clean'
  BY <1>1 DEF IInv, Clean
<1>6. Earned'
  BY EarnedStays DEF IInv
<1> QED  BY <1>3, <1>4, <1>5, <1>6 DEF IInv

LEMMA StacksStay == UNCHANGED stacks => Close({})
BY DEF stacks, Close

LEMMA LaunchHolds ==
    ASSUME IInv, Read("start"), NEW m \in Matches, m \notin records, session = None, Launch(m)
    PROVE  IInv'
<1> DEFINE stage == Stage(deployment, m, spent)
<1>1. queue' \in Seq(Frames)
  BY Reads DEF IInv
<1>2. spent' = SpentAfter(deployment, m, spent)
  BY DEF Launch
<1>3. \A n \in Matches : ~Working(n)
  BY LaunchAssumption DEF IInv, Held, LaunchAssumption
<1>4. ~retiring /\ clients = {} /\ m \notin closed
  BY <1>3, LaunchAssumption DEF IInv, Held, Clean, Shape, LaunchAssumption
<1>5. CASE stage = "served" /\ Admit(m)
  <2>1. /\ session' = m /\ records' = records \cup {m} /\ server' = server
        /\ worker' = [worker EXCEPT ![m] = "starting"]
        /\ clients' \in {clients, clients \cup {m}}
        /\ closed' = closed /\ prompted' = prompted /\ retiring' = retiring
    BY <1>5 DEF Admit
  <2>2. /\ spent' \in [DOMAIN deployment'.grant -> Nat]
        /\ \A i \in DOMAIN deployment'.grant : spent'[i] <= deployment'.grant[i].budget
        /\ \A n \in records : Invited(n)' /\ Funded(n)' /\ Distinct(n)'
    BY <1>2, <2>1, StayEntitled DEF IInv
  <2>3. Invited(m)' /\ Funded(m)' /\ Distinct(m)'
    BY <1>2, <1>5, <2>1, ServedIsEntitled DEF IInv
  <2>4. Earned'
    BY <2>1, <2>2, <2>3 DEF Earned
  <2>5. Shape'
    BY <1>1, <2>1, <2>2 DEF IInv, Shape, Places
  <2>6. Held'
    <3>1. \A n \in Matches : worker'[n] = IF n = m THEN "starting" ELSE worker[n]
      BY <2>1 DEF IInv, Shape
    <3>2. \A n \in Matches : worker'[n] \notin {"none", "reaped"} => n = m
      BY <3>1, <1>3 DEF Working
    <3>3. \A n \in prompted : n \notin closed => n # m /\ worker'[n] = "asking"
      <4>1. \A n \in prompted : n \notin closed => worker[n] = "asking"
        BY DEF IInv, Held
      <4> QED  BY <4>1, <1>3, <2>1 DEF Working, IInv, Shape, Places
    <3> QED  BY <3>1, <3>2, <3>3, <1>4, <2>1 DEF Held, Working
  <2>7. Clean'
    BY <1>4, <2>1 DEF IInv, Clean
  <2> QED  BY <2>4, <2>5, <2>6, <2>7 DEF IInv
<1>6. ASSUME session' = session, server' = server, records' = records, closed' = closed,
             clients' = clients, UNCHANGED thread, prompted' = prompted, UNCHANGED tasks
      PROVE  IInv'
  <2>1. /\ spent' \in [DOMAIN deployment'.grant -> Nat]
        /\ \A i \in DOMAIN deployment'.grant : spent'[i] <= deployment'.grant[i].budget
        /\ \A n \in records : Invited(n)' /\ Funded(n)' /\ Distinct(n)'
    BY <1>2, <1>6, StayEntitled DEF IInv
  <2>2. Earned'
    BY <2>1, <1>6 DEF Earned
  <2>3. Shape'
    BY <1>1, <1>6, <2>1 DEF IInv, Shape, thread, tasks
  <2>4. Held' /\ Clean'
    BY <1>6 DEF IInv, Held, Clean, Working, thread, tasks
  <2> QED  BY <2>2, <2>3, <2>4 DEF IInv
<1>7. CASE AdmitRaises
  BY <1>6, <1>7 DEF AdmitRaises, stacks
<1>8. ASSUME NEW fault, FactoryRaises(m, fault), fault \in Faults \cup {stage}, fault # "served"
      PROVE  IInv'
  <2>1. stage \in {"admission", "opening", "building", "assembling", "served"}
    BY DEF Stage
  <2>2. ~Opens(deployment, m, fault) \/ fault \in Closing
    BY <1>8, <2>1 DEF Faults, Closing, Opens
  <2> QED  BY <1>6, <1>8, <2>2 DEF FactoryRaises
<1>9. CASE \E fault \in Faults : FactoryRaises(m, fault)
  BY <1>8, <1>9 DEF Faults
<1>10. CASE stage # "served" /\ FactoryRaises(m, stage)
  BY <1>8, <1>10
<1>11. \/ stage = "served" /\ Admit(m)
       \/ AdmitRaises
       \/ \E fault \in Faults : FactoryRaises(m, fault)
       \/ stage # "served" /\ FactoryRaises(m, stage)
  BY DEF Launch
<1> QED  BY <1>5, <1>7, <1>9, <1>10, <1>11

LEMMA HandleHolds == IInv /\ Handle => IInv'
<1> SUFFICES ASSUME IInv, Handle  PROVE IInv'
  OBVIOUS
<1>0. {} \in SUBSET records /\ queue \in Seq(Frames)
  BY DEF IInv, Shape
<1>1. CASE ReadStart
  <2> DEFINE m == Head(queue).match
  <2>0. Read("start") /\ Shape
    BY <1>1 DEF ReadStart, IInv
  <2>1. m \in Matches /\ Read("start")
    <3>1. Head(queue) \in Frames /\ Head(queue).kind = "start"
      BY <2>0, Reads
    <3>2. ASSUME NEW f \in Frames, f.kind = "start"  PROVE f.match \in Matches
      BY <3>2 DEF Frames
    <3> QED  BY <2>0, <3>1, <3>2
  <2>2. CASE m \in records \/ session # None
    <3>1. UNCHANGED <<session, admission, stacks, thread, prompted, tasks>>
      BY <1>1, <2>2 DEF ReadStart
    <3>2. Close({}) /\ UNCHANGED <<worker, retiring>> /\ queue' \in Seq(Frames)
      BY <3>1, <2>1, StacksStay, Reads DEF IInv, thread, tasks
    <3> QED  BY <1>0, <3>1, <3>2, Aside
  <2>3. CASE ~(m \in records \/ session # None)
    <3>1. Launch(m)
      BY <1>1, <2>3 DEF ReadStart
    <3> QED  BY <2>1, <2>3, <3>1, LaunchHolds
  <2> QED  BY <2>2, <2>3
<1>2. CASE ReadPause \/ ReadResume \/ ReadStop
  <2>1. \E kind \in {"pause", "resume", "stop"} : Read(kind)
    BY <1>2 DEF ReadPause, ReadResume, ReadStop
  <2>2. queue' \in Seq(Frames)
    BY <2>1, Reads DEF IInv
  <2>3. UNCHANGED <<session, admission, stacks, worker, prompted, tasks>>
    BY <1>2 DEF ReadPause, ReadResume, ReadStop
  <2>4. Close({}) /\ UNCHANGED retiring
    BY <2>3, StacksStay DEF tasks
  <2> QED  BY <1>0, <2>2, <2>3, <2>4, Aside
<1>3. CASE PauseAnswered
  <2>1. UNCHANGED <<session, admission, stacks, thread, prompted, tasks, queue>>
    BY <1>3 DEF PauseAnswered
  <2>2. Close({}) /\ UNCHANGED <<worker, retiring>>
    BY <2>1, StacksStay DEF tasks, thread
  <2> QED  BY <1>0, <2>1, <2>2, Aside
<1>4. CASE ReadAction
  <2>0. queue' \in Seq(Frames)
    BY <1>4, Reads DEF IInv, ReadAction
  <2>1. UNCHANGED <<session, admission, stacks, tasks>>
    BY <1>4 DEF ReadAction
  <2>2. CASE session # None /\ session \in prompted /\ session \notin closed
    <3>1. /\ prompted' = prompted \ {session}
          /\ worker' = [worker EXCEPT ![session] = "decided"]
      BY <1>4, <2>2 DEF ReadAction
    <3>2. session \in Matches /\ worker[session] = "asking"
      BY <2>2 DEF IInv, Held, Shape
    <3>3. Shape'
      BY <2>0, <2>1, <3>1, <3>2 DEF IInv, Shape, Places, deployment, admission, stacks, tasks
    <3>4. \A n \in Matches : worker'[n] = IF n = session THEN "decided" ELSE worker[n]
      BY <3>1 DEF IInv, Shape
    <3>5. ~retiring
      BY <3>2 DEF IInv, Held
    <3>6. Held'
      BY <2>1, <2>2, <3>1, <3>2, <3>4, <3>5 DEF IInv, Held, Working, stacks, tasks, Shape
    <3>7. Clean' /\ Earned'
      BY <2>1, EarnedStays DEF IInv, Clean, stacks
    <3> QED  BY <3>3, <3>6, <3>7 DEF IInv
  <2>3. CASE ~(session # None /\ session \in prompted /\ session \notin closed)
    <3>1. UNCHANGED <<prompted, worker>>
      BY <1>4, <2>3 DEF ReadAction
    <3>2. Close({}) /\ UNCHANGED retiring
      BY <2>1, StacksStay DEF tasks
    <3> QED  BY <1>0, <2>0, <2>1, <3>1, <3>2, Aside
  <2> QED  BY <2>2, <2>3
<1>5. CASE ReadCancel
  <2> DEFINE matches == IF session = None THEN {} ELSE {session}
  <2>1. /\ Close(matches) /\ queue' = <<>>
        /\ UNCHANGED <<session, admission, worker, prompted, retiring>>
    BY <1>5 DEF ReadCancel, thread, tasks
  <2>2. matches \in SUBSET records /\ queue' \in Seq(Frames)
    BY <2>1 DEF IInv, Shape
  <2> HIDE DEF matches
  <2> QED  BY <2>1, <2>2, Aside
<1> QED  BY <1>1, <1>2, <1>3, <1>4, <1>5 DEF Handle

LEMMA ClientHolds == IInv /\ (SendAction \/ SendCommand) => IInv'
<1> SUFFICES ASSUME IInv, NEW f \in Frames, Send(f)  PROVE IInv'
  BY DEF SendAction, SendCommand, Frames
<1>1. UNCHANGED <<session, admission, stacks, thread, prompted, tasks>>
  BY DEF Send
<1>2. queue' \in Seq(Frames)
  BY DEF Send, IInv, Shape
<1>3. Close({}) /\ UNCHANGED <<worker, retiring>> /\ {} \in SUBSET records
  BY <1>1, StacksStay DEF tasks, thread
<1> QED  BY <1>1, <1>2, <1>3, Aside

LEMMA WorkerHolds ==
    ASSUME IInv, NEW m \in Matches, WorkerStep(m) \/ TickRaises(m)
    PROVE  IInv'
<1> DEFINE inside == Places \ {"none", "reaped"}
<1>1. \E from, to \in inside : Work(m, from, to) /\ (from = "asking" => m \in closed)
  <2>1. CASE Enter(m)
    BY <2>1 DEF Enter, Places
  <2>2. CASE Checkpoint(m)
    BY <2>2 DEF Checkpoint, Places
  <2>3. CASE AskHuman(m)
    BY <2>3 DEF AskHuman, Places
  <2>4. CASE Resolve(m) \/ ResolveLast(m)
    BY <2>4 DEF Resolve, ResolveLast, Places
  <2>5. CASE Finish(m)
    BY <2>5 DEF Finish, Places
  <2>6. CASE AskCancelled(m)
    BY <2>6 DEF AskCancelled, Places
  <2>7. CASE TickRaises(m)
    BY <2>7 DEF TickRaises, Places
  <2> QED  BY <2>1, <2>2, <2>3, <2>4, <2>5, <2>6, <2>7 DEF WorkerStep
<1> QED  BY <1>1, WorkHolds

(* A reported failure closes the session's stack, if any.                  *)
LEMMA Reports == ReportFailure => Close({}) \/ (session # None /\ Close({session}))
BY DEF ReportFailure, Close

LEMMA LoopHolds ==
    ASSUME IInv, LoopStep \/ \E m \in Matches : WatcherRaises(m)
    PROVE  IInv'
<1>0. {} \in SUBSET records /\ queue \in Seq(Frames) /\ (session # None => {session} \in SUBSET records)
  BY DEF IInv, Shape
<1>1. ASSUME NEW m \in Matches, RunTaskDone(m)  PROVE IInv'
  <2>1. /\ worker[m] \in {"returned", "raised"} /\ worker' = [worker EXCEPT ![m] = "reaped"]
        /\ retiring' = TRUE
        /\ UNCHANGED <<session, admission, prompted, queue>>
        /\ ReportFailure \/ UNCHANGED stacks
    BY <1>1 DEF RunTaskDone
  <2>2. session = m /\ session # None /\ m \in records
    BY <2>1, LaunchAssumption DEF IInv, Held, Working, Shape, LaunchAssumption
  <2>3. Close({}) \/ Close({m})
    BY <2>1, <2>2, Reports, StacksStay
  <2>4. closed \subseteq closed' /\ closed' \subseteq records /\ clients' \subseteq clients \ closed'
    BY <2>2, <2>3 DEF Close, IInv, Shape, Clean
  <2>5. Shape'
    BY <2>1, <2>4 DEF IInv, Shape, Places, admission, deployment
  <2>6. Held'
    <3>1. \A n \in Matches : worker'[n] = IF n = m THEN "reaped" ELSE worker[n]
      BY <2>1 DEF IInv, Shape
    <3>2. \A n \in prompted : n \notin closed => n # m
      BY <2>1 DEF IInv, Held
    <3> QED  BY <2>1, <2>2, <2>4, <3>1, <3>2 DEF IInv, Held, Working, Shape
  <2>7. Clean' /\ Earned'
    BY <2>1, <2>4, EarnedStays DEF IInv, Clean
  <2> QED  BY <2>5, <2>6, <2>7 DEF IInv
<1>2. CASE RetireSession
  <2>1. /\ retiring /\ session # None /\ Close({session}) /\ session' = None /\ prompted' = {}
        /\ retiring' = FALSE /\ UNCHANGED <<admission, worker, queue>>
    BY <1>2 DEF RetireSession, thread
  <2>2. session \in records /\ worker[session] = "reaped"
    BY <2>1 DEF IInv, Shape, Held
  <2>3. closed' = closed \cup {session} /\ clients' = {}
    BY <2>1 DEF Close, IInv, Clean
  <2>4. Shape'
    BY <2>1, <2>2, <2>3 DEF IInv, Shape, admission, deployment
  <2>5. Held' /\ Clean' /\ Earned'
    BY <2>1, <2>2, <2>3, EarnedStays DEF IInv, Held, Working, Clean
  <2> QED  BY <2>4, <2>5 DEF IInv
<1>3. CASE RetireDone \/ \E m \in Matches : WatcherEnds(m)
  <2>1. UNCHANGED <<session, admission, stacks, thread, prompted, retiring, queue>>
    BY <1>3 DEF RetireDone, WatcherEnds
  <2>2. Close({}) /\ UNCHANGED worker
    BY <2>1, StacksStay DEF thread
  <2> QED  BY <1>0, <2>1, <2>2, Aside
<1>4. ASSUME NEW m \in Matches, WatcherSends(m)  PROVE IInv'
  <2>1. /\ worker[m] = "asking" /\ prompted' = prompted \cup {m}
        /\ UNCHANGED <<session, admission, stacks, thread, tasks, queue>>
    BY <1>4 DEF WatcherSends
  <2>2. Shape'
    BY <2>1 DEF IInv, Shape, admission, deployment, stacks, thread, tasks
  <2>3. Held' /\ Clean' /\ Earned'
    BY <2>1, EarnedStays DEF IInv, Held, Clean, Working, stacks, thread, tasks
  <2> QED  BY <2>2, <2>3 DEF IInv
<1>5. ASSUME NEW m \in Matches, WatcherRaises(m)  PROVE IInv'
  <2>1. /\ ReportFailure /\ UNCHANGED <<session, admission, thread, prompted, retiring, queue>>
    BY <1>5 DEF WatcherRaises
  <2>2. UNCHANGED worker
    BY <2>1 DEF thread
  <2>3. \E matches \in SUBSET records : Close(matches)
    BY <2>1, <1>0, Reports
  <2> QED  BY <1>0, <2>1, <2>2, <2>3, Aside
<1> QED  BY <1>1, <1>2, <1>3, <1>4, <1>5 DEF LoopStep

-----------------------------------------------------------------------------
LEMMA Step == IInv /\ [Next]_vars => IInv'
<1> SUFFICES ASSUME IInv, [Next]_vars  PROVE IInv'
  OBVIOUS
<1>1. CASE UNCHANGED vars
  <2>1. UNCHANGED <<session, admission, stacks, thread, prompted, tasks, queue>>
    BY <1>1 DEF vars
  <2>2. Close({}) /\ UNCHANGED <<worker, retiring>> /\ {} \in SUBSET records /\ queue \in Seq(Frames)
    BY <2>1, StacksStay DEF thread, tasks, IInv, Shape
  <2> QED  BY <2>1, <2>2, Aside
<1>2. CASE Next
  BY <1>2, HandleHolds, ClientHolds, WorkerHolds, LoopHolds DEF Next
<1> QED  BY <1>1, <1>2

(* The session, its worker, its client and its grants keep the relations   *)
(* above, whatever the client sends and whichever launch fails.            *)
THEOREM SessionInvariance == Spec => []IInv
<1> QED  BY Start, Step, PTL DEF Spec

LEMMA Implied == IInv => OneMatchHoldsAll
<1> SUFFICES ASSUME IInv  PROVE OneMatchHoldsAll
  OBVIOUS
<1>1. AliveIsSession
  BY DEF AliveIsSession, Alive, Gone, IInv, Held, Working
<1>2. ClientsAreHeld
  BY DEF ClientsAreHeld, IInv, Clean
<1>3. ASSUME NEW m \in records  PROVE Entitled(m)
  <2>1. AsDeclared(deployment, m)
    BY ServedAsDeclared DEF IInv, Shape
  <2> QED  BY <2>1 DEF Entitled, IInv, Earned, Invited, Funded, Covered, Distinct
<1>4. \A i \in DOMAIN spent : spent[i] <= deployment.grant[i].budget
  BY DEF IInv, Shape, Earned
<1> QED  BY <1>1, <1>2, <1>3, <1>4 DEF OneMatchHoldsAll

(* One match at a time has a worker and an open client, though admissions  *)
(* fail, sessions are cancelled and retired and prompts are answered late; *)
(* every match admitted is entitled to its seats and its providers, and no *)
(* grant is spent beyond its budget (BrowserPlayServer._admit_start,       *)
(* _run_task_done, _retire_completed_session).                             *)
THEOREM OneMatch == Spec => []OneMatchHoldsAll
<1> QED  BY SessionInvariance, Implied, PTL
=============================================================================
