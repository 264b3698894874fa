-------------------------- MODULE NewsIntelligence --------------------------
(***************************************************************************)
(* The news service (news_intelligence/service.py) over its PostgreSQL     *)
(* repository: collections, manual news and macro events run as handlers   *)
(* of the event loop, which each holds except while it awaits a collector; *)
(* the signal cycle aggregates in a thread of its own, between any two     *)
(* statements of a handler.                                                *)
(***************************************************************************)
EXTENDS NewsState

CONSTANTS
  Handlers,         \* requests the loop serves; one may serve again when done
  Feed,             \* the stories each collector's source carries
  Collectors,       \* the collectors' sources, in order
  Events,           \* macro events as they are posted
  ProviderAnswers,  \* what the AI provider answers; none: rules only
  NewsValidity, MacroValidity,   \* 240 and 120 minutes, in units of time
  MinToAnalyse,     \* news_min_relevance_to_analyze
  MaxNow, MaxAnalyses, MaxFaults   \* bounds of the model

Stories == UNION Range(Feed)

ASSUME ItemsAssumption ==   \* what the sources, the callers and the provider send
  /\ Collectors \in Seq(DOMAIN Feed)
  /\ \A story \in Stories : story.relevance \in Relevances
  /\ ProviderAnswers \subseteq Answers
  /\ NewsValidity \in Nat /\ MacroValidity \in Nat

VARIABLES
  now,
  stories,    \* news_items: the stories stored, one row each
  events,     \* macro_events: the row of each event stored
  analyses,   \* news_ai_analysis, oldest first
  row,        \* strategy_news_state: the one row of the instrument
  handler,    \* where each handler is and what it holds
  cycle,      \* the cycle's aggregation: waiting, or the rows it has read
  faults

stored  == <<stories, events, analyses, row>>
vars    == <<now, stored, handler, cycle, faults>>

Waiting  == [reads |-> FALSE, rows |-> <<>>, seen |-> 0, at |-> 0]
Idle     == [pc |-> "idle", sources |-> <<>>, batch |-> {}, item |-> {},
             rows |-> <<>>, fetched |-> {}]

Init ==
  /\ now = 1
  /\ stories = {} /\ events = <<>> /\ analyses = <<>> /\ row = Neutral
  /\ handler = [h \in Handlers |-> Idle]
  /\ cycle = Waiting
  /\ faults = 0

(* Any statement may fail: the connection is lost, or the database refuses *)
Fault == faults < MaxFaults /\ faults' = faults + 1

LoopFree == \A h \in Handlers : handler[h].pc \in {"idle", "awaiting"}
At(h, pc) == handler[h].pc = pc

(* After an item: the next of the batch, the next collector, or the        *)
(* aggregation that ends every handler.                                    *)
Onward(job) ==
  [job EXCEPT !.item = {},
              !.pc = IF job.batch # {} THEN "items"
                     ELSE IF job.sources # <<>> THEN "awaiting" ELSE "reading"]

(*-------------------------------------------------------------------------*)
(* Collections                                                             *)
(*-------------------------------------------------------------------------*)
CollectRunNow(h) ==
  /\ LoopFree /\ At(h, "idle")
  /\ handler' = [handler EXCEPT ![h] = Onward([Idle EXCEPT !.sources = Collectors])]
  /\ UNCHANGED <<now, stored, cycle, faults>>

ShouldAnalyse(story) ==
  LET order == [LOW |-> 1, UNKNOWN |-> 1, MEDIUM |-> 2, HIGH |-> 3, CRITICAL |-> 4]
  IN  order[story.relevance] >= order[MinToAnalyse]

CollectorAnswers(h) ==
  LET job == handler[h]
  IN  /\ LoopFree /\ At(h, "awaiting")
      /\ \E items \in SUBSET Feed[Head(job.sources)] :
           handler' = [handler EXCEPT ![h] =
             Onward([job EXCEPT
                       !.sources = Tail(job.sources), !.batch = items,
                       !.fetched = job.fetched \cup {s \in items : ShouldAnalyse(s)}])]
      /\ UNCHANGED <<now, stored, cycle, faults>>

(* A collector that fails is passed over.                                  *)
CollectorFails(h) ==
  LET job == handler[h]
  IN  /\ LoopFree /\ At(h, "awaiting")
      /\ handler' = [handler EXCEPT ![h] =
           Onward([job EXCEPT !.sources = Tail(job.sources)])]
      /\ UNCHANGED <<now, stored, cycle, faults>>

(*-------------------------------------------------------------------------*)
(* Items                                                                   *)
(*-------------------------------------------------------------------------*)
ManualNews(h) ==
  /\ LoopFree /\ At(h, "idle")
  /\ \E s \in Stories :
       handler' = [handler EXCEPT ![h] = Onward([Idle EXCEPT !.batch = {s}])]
  /\ UNCHANGED <<now, stored, cycle, faults>>

(* Mutant of SaveNewsItem: a story that has a row is passed over as a      *)
(* duplicate.                                                              *)
SkipKnownItem(h) ==
  /\ At(h, "items")
  /\ \E s \in handler[h].batch :
       /\ stories' = stories \cup {s}
       /\ LET left == [handler[h] EXCEPT !.batch = handler[h].batch \ {s}]
          IN  handler' = [handler EXCEPT ![h] =
                IF ShouldAnalyse(s) /\ s \notin stories
                  THEN [left EXCEPT !.pc = "analysing", !.item = {s}]
                  ELSE Onward(left)]
  /\ UNCHANGED <<now, events, analyses, row, cycle, faults>>

(* save_news_item: a story seen before keeps its row and still has an id,  *)
(* so that it is analysed again.                                           *)
SaveNewsItem(h) ==
  /\ At(h, "items")
  /\ \E s \in handler[h].batch :
       /\ stories' = stories \cup {s}
       /\ LET left == [handler[h] EXCEPT !.batch = handler[h].batch \ {s}]
          IN  handler' = [handler EXCEPT ![h] =
                IF ShouldAnalyse(s)
                  THEN [left EXCEPT !.pc = "analysing", !.item = {s}]
                  ELSE Onward(left)]
  /\ UNCHANGED <<now, events, analyses, row, cycle, faults>>

ManualMacroEvent(h) ==
  /\ LoopFree /\ At(h, "idle")
  /\ \E e \in Events :
       handler' = [handler EXCEPT ![h] = [Idle EXCEPT !.pc = "event", !.item = {e}]]
  /\ UNCHANGED <<now, stored, cycle, faults>>

(* save_macro_event: a posted event replaces the row's actual and status.  *)
SaveMacroEvent(h) ==
  /\ At(h, "event")
  /\ \E e \in handler[h].item :
       events' = [id \in DOMAIN events \cup {e.id} |->
                    IF id = e.id
                      THEN [actual |-> e.surprise # "none", status |-> "SCHEDULED"]
                      ELSE events[id]]
  /\ handler' = [handler EXCEPT ![h].pc = "analysing"]
  /\ UNCHANGED <<now, stories, analyses, row, cycle, faults>>

(* update_macro_actual: the row alone; nothing is analysed again.          *)
UpdateMacroActual ==
  /\ LoopFree
  /\ \E id \in DOMAIN events :
       events' = [events EXCEPT ![id] = [actual |-> TRUE, status |-> "RELEASED"]]
  /\ UNCHANGED <<now, stories, analyses, row, handler, cycle, faults>>

(* The analyzer asks the provider, if there is one, and otherwise, or when *)
(* both attempts fail, applies its rules.                                  *)
Readable(item) ==
  {IF item \in Stories THEN RulesForNews(item, NewsValidity)
                       ELSE RulesForMacro(item, MacroValidity)}
    \cup {Validated(raw, NewsValidity) : raw \in ProviderAnswers}

(* The columns of news_ai_analysis: the end takes the place of the validity. *)
AnalysisRow(item, reading) ==
  [about |-> item.id, until |-> now + reading.duration,
   relevance |-> reading.relevance, direction |-> reading.direction,
   confidence |-> reading.confidence, impact |-> reading.impact,
   weight |-> reading.weight, action |-> reading.action,
   blocks |-> reading.blocks, reduces |-> reading.reduces]

SaveAiAnalysis(h) ==
  /\ At(h, "analysing") /\ Len(analyses) < MaxAnalyses
  /\ \E item \in handler[h].item : \E reading \in Readable(item) :
       analyses' = Append(analyses, AnalysisRow(item, reading))
  /\ handler' = [handler EXCEPT ![h] = Onward(@)]
  /\ UNCHANGED <<now, stories, events, row, cycle, faults>>

(* The provider gives no valid answer and the rules raise: the story or    *)
(* event is left without an analysis, and the handler goes on.             *)
AnalyzerFails(h) ==
  LET job == handler[h]
  IN  /\ At(h, "analysing")
      /\ Fault
      /\ handler' = [handler EXCEPT ![h] =
           Onward([job EXCEPT !.fetched = job.fetched \ job.item])]
      /\ UNCHANGED <<now, stored, cycle>>

(* An exception of the repository leaves the handler: the rest of the      *)
(* batch and the aggregation are lost.                                     *)
Raises(h) ==
  /\ handler[h].pc \in {"items", "event", "analysing", "reading", "writing"}
  /\ Fault
  /\ handler' = [handler EXCEPT ![h] = Idle]
  /\ UNCHANGED <<now, stored, cycle>>

(*-------------------------------------------------------------------------*)
(* Aggregation: one read, one write, in a handler or in the cycle          *)
(*-------------------------------------------------------------------------*)
UsableNow ==
  Restrict(analyses, {i \in NewestActive(analyses, now) : IsUsable(analyses[i], now)})

HandlerReads(h) ==
  /\ At(h, "reading")
  /\ handler' = [handler EXCEPT ![h].pc = "writing", ![h].rows = UsableNow]
  /\ UNCHANGED <<now, stored, cycle, faults>>

HandlerWrites(h) ==
  /\ At(h, "writing")
  /\ row' = Aggregate(handler[h].rows)
  /\ handler' = [handler EXCEPT ![h] = Idle]
  /\ UNCHANGED <<now, stories, events, analyses, cycle, faults>>

CycleReads ==
  /\ ~cycle.reads
  /\ cycle' = [reads |-> TRUE, rows |-> UsableNow, seen |-> Len(analyses), at |-> now]
  /\ UNCHANGED <<now, stored, handler, faults>>

CycleWrites ==   \* the state written is the one the cycle goes on with
  /\ cycle.reads
  /\ row' = Aggregate(cycle.rows)
  /\ cycle' = Waiting
  /\ UNCHANGED <<now, stories, events, analyses, handler, faults>>

(* Either statement of the aggregation fails: the cycle goes on without a  *)
(* news state.                                                             *)
CycleAggregationFails ==
  /\ Fault
  /\ cycle' = Waiting
  /\ UNCHANGED <<now, stored, handler>>

Tick ==
  /\ now < MaxNow
  /\ now' = now + 1
  /\ UNCHANGED <<stored, handler, cycle, faults>>

Next ==
  \/ \E h \in Handlers :
       \/ CollectRunNow(h) \/ CollectorAnswers(h) \/ CollectorFails(h)
       \/ ManualNews(h) \/ SaveNewsItem(h)
       \/ ManualMacroEvent(h) \/ SaveMacroEvent(h)
       \/ SaveAiAnalysis(h) \/ AnalyzerFails(h) \/ Raises(h)
       \/ HandlerReads(h) \/ HandlerWrites(h)
  \/ UpdateMacroActual
  \/ CycleReads \/ CycleWrites \/ CycleAggregationFails
  \/ Tick

Spec == Init /\ [][Next]_vars

(*-------------------------------------------------------------------------*)
(* Properties                                                              *)
(*-------------------------------------------------------------------------*)
(* What the cycle is told of the news it may be told of: a usable blocking *)
(* analysis stored before the cycle's read and valid then blocks, unless   *)
(* Limit younger valid ones hide it; and it is never told to lean to one   *)
(* side while one of the analyses it could see votes for the other         *)
(* (get_ai_analyses and aggregate, in the cycle's thread while handlers    *)
(* add analyses).                                                          *)
AnswerHeedsTheNews ==
  [][CycleWrites =>
       LET seen == 1..cycle.seen
           open(i) == analyses[i].until > cycle.at
           visible(i) == /\ IsUsable(analyses[i], cycle.at)
                         /\ Cardinality({j \in seen : j > i /\ open(j)}) < Limit
       IN  \A i \in seen : visible(i) =>
             /\ Blocking(analyses[i]) => row'.blocks
             /\ row'.bias = "BUY" => analyses[i].direction # "DOWN"
             /\ row'.bias = "SELL" => analyses[i].direction # "UP"]_vars

(* Whatever the row that GET /api/news/state serves says other than        *)
(* "nothing", some usable analysis stands behind it that has not ended: a  *)
(* stale aggregate written late, a lost aggregation or a quiet service     *)
(* cannot keep a dead state alive (valid_until of the row and              *)
(* _clear_if_expired).                                                     *)
ServedIsAlive ==
  Cleared(row, now).weight > 0 \/ Cleared(row, now).blocks
      \/ Cleared(row, now).reduces =>
    \E i \in DOMAIN analyses : /\ IsUsable([analyses[i] EXCEPT !.until = @ + 1], now)

(* A collection that ends has left an analysis of every story it fetched   *)
(* that is relevant enough, those that an earlier collection had stored    *)
(* and then failed to analyse among them, except where the analyzer itself *)
(* gives none (save_news_item's ON CONFLICT and the loop of                *)
(* collect_run_now).                                                       *)
CollectedIsAnalysed ==
  [][\A h \in Handlers : HandlerWrites(h) =>
       \A s \in handler[h].fetched :
         s \in stories /\ \E i \in DOMAIN analyses : analyses[i].about = s.id]_vars
=============================================================================
