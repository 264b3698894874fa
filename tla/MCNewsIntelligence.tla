------------------------- MODULE MCNewsIntelligence -------------------------
(* One source that carries a story of an attack, one HIGH macro event      *)
(* whose figure is above the forecast, and a provider that answers out of  *)
(* range, blocks on a story of low relevance, or cannot be read.           *)
EXTENDS NewsIntelligence, TLC

Attack == [id |-> "attack", relevance |-> "CRITICAL", words |-> {"attack", "conflict"}]

MCFeed == [rss |-> {Attack}]
MCCollectors == <<"rss">>

Cpi(surprise) == [id |-> "cpi", type |-> "CPI", importance |-> "HIGH", surprise |-> surprise]
MCEvents == {Cpi("above")}

MCProviderAnswers ==
  {[relevance |-> "LOW", direction |-> "UP", confidence |-> 40, impact |-> "LOW",
    weight |-> 900, action |-> "MANUAL_REVIEW", blocks |-> TRUE, reduces |-> TRUE,
    duration |-> 0]}

Interchangeable == Permutations(Handlers)
=============================================================================
