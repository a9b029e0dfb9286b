-------------------------- MODULE MCBrowserSession --------------------------
(* Bounded instances of BrowserSession for TLC. *)
EXTENDS BrowserSession

CONSTANTS m1, m2

TwoMatches == {m1, m2}
OneTick == [m \in Matches |-> 1]
TicksDef == [m \in Matches |-> IF m = m1 THEN 2 ELSE 1]

Starts(first, second) ==
  [m \in TwoMatches |-> [seat |-> IF m = m1 THEN first ELSE second, current |-> TRUE]]
Model(id, name) == [kind |-> "model", identity |-> id, pilot |-> name, persona |-> name]
Llm(id, name) == [archetype |-> "llm", provider |-> id, persona |-> name]
Provider(kind) == [kind |-> kind, keyed |-> FALSE, model |-> "configured"]
Options == {"operator", "script", "droid", "sniper", "brawler", "other", "remote"}
Pilots == Options \ {"operator"}

\* What `so play` is started with: no live provider, but one of the overlay's
\* providers is reached by a client of one's own.
Packaged ==
  [request |-> Starts(<<"operator", "script">>, <<"operator", "script">>),
   option |-> [operator |-> [kind |-> "human", identity |-> "human", pilot |-> "operator"],
               script |-> Model("stub", "script"), droid |-> Model("stub", "droid"),
               sniper |-> Model("qwen", "sniper"), brawler |-> Model("qwen", "brawler"),
               other |-> Model("glm", "other"), remote |-> Model("bus", "remote")],
   allowed |-> <<Options, Options>>,
   flown |-> <<[o \in Options |-> o], [o \in Options |-> o]>>,
   identity |-> [i \in {"stub", "qwen", "glm", "bus"} |-> i],
   provider |-> [stub |-> Provider("stub"), qwen |-> Provider("http"), glm |-> Provider("http"),
                 bus |-> Provider("delegation")],
   spec |-> [script |-> Llm("stub", "script"), droid |-> Llm("stub", "droid"), sniper |-> Llm("qwen", "sniper"),
             brawler |-> Llm("qwen", "brawler"), other |-> Llm("glm", "other"),
             remote |-> Llm("bus", "remote")],
   personas |-> Pilots, overridden |-> {"sniper"},
   permissions |-> {"match:create", "red", "blue"}, human |-> "human",
   live |-> "none", grant |-> [i \in {} |-> 0], resolver |-> "none", transport |-> "own",
   catalog |-> TRUE, cards |-> "enabled",
   decks |-> [known |-> TRUE, chosen |-> TRUE, partitioned |-> TRUE],
   packs |-> [rules |-> "default", utilities |-> None, defenses |-> "default"],
   arena |-> "settles", bounty |-> TRUE, paced |-> TRUE, programmers |-> TRUE,
   archetype |-> <<None, None>>, legal |-> TRUE, declares |-> {}, index |-> None, loadout |-> [i \in {} |-> 0],
   learning |-> [kind |-> "selection_outcome", loadout |-> TRUE, complete |-> TRUE,
                 numeric |-> TRUE, seat |-> 2]]

\* Two matches between programs, on a server whose launches may fail.
Troubled ==
  [Packaged EXCEPT !.request = Starts(<<"script", "droid">>, <<"script", "droid">>)]

\* Live play: every start has grants of its own, the transport is injected.  A
\* mirror pairing comes first.
LivePlay ==
  [Packaged EXCEPT !.live = "per start", !.transport = "injected",
                   !.request = Starts(<<"sniper", "sniper">>, <<"operator", "brawler">>)]

\* Two sources of a catalog: the operator, whom its roster offers to red only, and
\* two pilots of qwen, one of them for blue only; and the sniper, played by glm.
SourceSeat(allowed, default) ==
  [allowed |-> allowed, default |-> default, loadout |-> "spare", named |-> [o \in allowed |-> o]]
Loadout(name) == [pilot |-> name]
QwenSource ==
  [provider |-> [qwen |-> Provider("http"), stub |-> Provider("stub")], identity |-> [qwen |-> "qwen"],
   spec |-> [sniper |-> Llm("qwen", "sniper"), brawler |-> Llm("qwen", "brawler")],
   option |-> [operator |-> Packaged.option["operator"], sniper |-> Model("qwen", "sniper"),
               brawler |-> Model("qwen", "brawler")],
   seat |-> <<SourceSeat({"operator", "sniper"}, "sniper"), SourceSeat({"sniper", "brawler"}, None)>>,
   alias |-> [operator |-> "operator", sniper |-> "qwen_sniper", brawler |-> "qwen_brawler"],
   loadout |-> [operator |-> Loadout("operator"), sniper |-> Loadout("sniper"), brawler |-> Loadout("brawler")],
   programmers |-> TRUE]
GlmSource ==
  [provider |-> [glm |-> Provider("http")], identity |-> [glm |-> "glm"],
   spec |-> [other |-> [archetype |-> "llm", provider |-> "glm", persona |-> "sniper"]],
   option |-> [sniper |-> [kind |-> "model", identity |-> "glm", pilot |-> "other", persona |-> "sniper"]],
   seat |-> <<SourceSeat({"sniper"}, None), [SourceSeat({"sniper"}, None) EXCEPT !.named = [o \in {} |-> 0]]>>,
   alias |-> [sniper |-> "glm_sniper"],
   loadout |-> [sniper |-> Loadout("sniper"), spare |-> Loadout("other")],
   programmers |-> FALSE]
CatalogIndex ==
  [source |-> [qwen |-> QwenSource, glm |-> GlmSource],
   seat |-> [s \in {1, 2} |-> [allowed |-> None, default |-> IF s = 1 THEN "qwen_sniper" ELSE "qwen_brawler",
                              loadout |-> "spare", named |-> [o \in {} |-> 0]]],
   chassis |-> <<"heavy", "medium">>, mirror |-> FALSE]
\* What `so play` is started with by default.  The first match is a human's,
\* the second is between two players of one persona.
CatalogPlay ==
  [LivePlay EXCEPT !.index = CatalogIndex, !.programmers = FALSE, !.learning.seat = 1,
                   !.loadout = [script |-> Loadout("script")], !.option = [o \in {} |-> 0],
                   !.allowed = <<{}, {}>>, !.flown = <<[o \in {} |-> 0], [o \in {} |-> 0]>>,
                   !.request = Starts(<<"qwen_brawler", "operator">>, <<"qwen_sniper", "glm_sniper">>)]
\* An overlay and a source that disagree on a provider.
Disagreeing ==
  [CatalogPlay EXCEPT !.provider = [qwen |-> [Provider("http") EXCEPT !.model = "another"]],
                      !.identity = [qwen |-> "qwen"]]
\* One thing is wrong with each of these.
NoServers ==
  <<Disagreeing,
    [CatalogPlay EXCEPT !.index.source["glm"].alias["sniper"] = "qwen_sniper"],
    [CatalogPlay EXCEPT !.index.source["glm"].spec["other"].persona = "other"],
    [CatalogPlay EXCEPT !.index.seat[2].default = "qwen_sniper"],
    [CatalogPlay EXCEPT !.index.seat[1].allowed = {"qwen_sniper", "unknown"}],
    [CatalogPlay EXCEPT !.index.seat[1].default = "operator", !.index.seat[2].default = None],
    [CatalogPlay EXCEPT !.overridden = {"nobody"}],
    [CatalogPlay EXCEPT !.packs["rules"] = "unknown"]>>
\* The catalog is for mirror matches, which launches refuse; red may choose from
\* a list, and a loadout that a source names flies another pilot.
Mirror ==
  [CatalogPlay EXCEPT !.index.mirror = TRUE, !.index.seat[2].default = "qwen_sniper",
                      !.index.seat[1].allowed = {"qwen_sniper", "glm_sniper", "operator"},
                      !.index.seat[2].allowed = {"qwen_sniper", "qwen_brawler"},
                      !.request = Starts(<<"qwen_sniper", "qwen_sniper">>, <<"glm_sniper", "qwen_brawler">>)]

\* Fixed grants: the second one of the first match is another match's.
Fixed ==
  [Packaged EXCEPT
     !.live = "fixed", !.request = Starts(<<"sniper", "other">>, <<"operator", "other">>),
     !.grant = [qwen |-> [match |-> m1, budget |-> 1], glm |-> [match |-> m2, budget |-> 2]]]

\* One thing is wrong with each of these.
Refusing ==
  <<[Packaged EXCEPT !.request = [Starts(<<"operator", "script">>, <<"nobody", "script">>)
                                    EXCEPT ![m1].current = FALSE]],
    [Packaged EXCEPT !.request = Starts(<<"operator", "sniper">>, <<"script", "script">>)],
    [LivePlay EXCEPT !.request = Starts(<<"operator", "script">>, <<"sniper", "script">>)],
    [LivePlay EXCEPT !.request = Starts(<<"script", "sniper">>, <<"operator", "remote">>)],
    [Packaged EXCEPT !.permissions = {"match:create", "blue"}],
    [Packaged EXCEPT !.permissions = {"red", "blue"}],
    [Packaged EXCEPT !.human = "another"],
    [Packaged EXCEPT !.spec["script"].persona = "sniper"],
    [Packaged EXCEPT !.flown[2]["script"] = None],
    [CatalogPlay EXCEPT !.provider = [stub |-> Provider("stub")], !.identity = [stub |-> "stub"],
                        !.index.source["qwen"].provider["qwen"].keyed = TRUE],
    [Packaged EXCEPT !.catalog = FALSE],
    [Packaged EXCEPT !.decks.partitioned = FALSE],
    [Packaged EXCEPT !.learning.numeric = FALSE],
    [Packaged EXCEPT !.learning.seat = 1],
    [Packaged EXCEPT !.packs["utilities"] = "unknown"],
    [Packaged EXCEPT !.arena = "decoy"],
    [Packaged EXCEPT !.cards = "passive", !.decks.chosen = FALSE, !.paced = FALSE, !.programmers = FALSE],
    [Packaged EXCEPT !.personas = {"script", "sniper"}],
    [Packaged EXCEPT !.archetype[2] = "sniper"],
    [Packaged EXCEPT !.legal = FALSE],
    [CatalogPlay EXCEPT !.live = "fixed", !.grant = [qwen |-> [match |-> m1, budget |-> 1]]]>>

DeploymentsDef == <<Packaged, Troubled, LivePlay, Fixed, CatalogPlay, Mirror>> \o Refusing \o NoServers
FaultyDef == {2, 4}
OneDeployment == <<Packaged>>
AllOfThem == {1}
=============================================================================
