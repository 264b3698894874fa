----------------------- MODULE OutcomeValidationProofs -----------------------
(***************************************************************************)
(* Proofs about OutcomeValidation, for any number of signals, cycles,      *)
(* posts, crashes and failed writes.  First the bookkeeping, which is right *)
(* whatever the walk over the candles says (no fact about Validate is used); *)
(* then what the walk says: OutcomeIsFirstPassage.                         *)
(***************************************************************************)
EXTENDS OutcomeValidation, FiniteSetTheorems, TLAPS

(* The part of the types the bookkeeping needs.  An actor has a signal while *)
(* it writes its outcome; a run lists signals only after List.              *)
Writing == {"save", "count", "update", "record"}

Shape ==
  /\ rows \in [Signals -> Nat] /\ counted \in [Signals -> Nat]
  /\ status = [s \in Signals |-> status[s]]
  /\ pc \in [Actors -> {"idle", "decide", "list", "walk"} \cup Writing]
  /\ sub \in [Actors -> Signals \cup {NoSignal}]
  /\ verdict = [a \in Actors |-> verdict[a]]
  /\ listed = [r \in Runs |-> listed[r]]
  /\ faults \in Nat
  /\ \A a \in Actors : pc[a] \in Writing <=> sub[a] \in Signals
  /\ \A r \in Runs : /\ pc[r] \notin {"update", "record"}
                     /\ DOMAIN listed[r] \subseteq Signals
                     /\ pc[r] \in {"idle", "decide", "list"} => DOMAIN listed[r] = {}
  /\ \A p \in Posters : pc[p] \in {"idle", "update", "record"}

LEMMA ShapeInit == Init => Shape
BY SetAssumption DEF Init, Shape, Writing, Actors, Nothing

LEMMA ShapeStep == Shape /\ [Next]_vars => Shape'
<1> SUFFICES ASSUME Shape, [Next]_vars
             PROVE  Shape'
  OBVIOUS
<1> USE SetAssumption, NatAssumption
    DEF Shape, Writing, Actors, marketVars, ledgerVars, actorVars, historyVars
(* An actor that lets its signal go.                                        *)
<1>r. ASSUME NEW a \in Actors, NEW point, Release(a, point), UNCHANGED <<status, listed>>,
             \/ a \in Runs /\ point = "walk"
             \/ a \in Posters /\ point = "idle",
             rows' \in [Signals -> Nat], counted' \in [Signals -> Nat], faults' \in Nat
      PROVE  Shape'
  <2>1. /\ pc' = [pc EXCEPT ![a] = point]
        /\ sub' = [sub EXCEPT ![a] = NoSignal]
        /\ verdict' = [verdict EXCEPT ![a] = "PENDING"]
    BY <1>r DEF Release, Goto
  <2>2. \A b \in Actors \ {a} : pc'[b] = pc[b] /\ sub'[b] = sub[b]
    BY <2>1
  <2>3. pc'[a] = point /\ sub'[a] = NoSignal /\ point \in {"walk", "idle"}
    BY <2>1, <1>r
  <2>4. /\ pc' \in [Actors -> {"idle", "decide", "list", "walk"} \cup Writing]
        /\ sub' \in [Actors -> Signals \cup {NoSignal}]
        /\ verdict' = [b \in Actors |-> verdict'[b]]
    BY <2>1, <2>3
  <2>5. \A b \in Actors : pc'[b] \in Writing <=> sub'[b] \in Signals
    BY <2>2, <2>3
  <2>6. \A x \in Runs : /\ pc'[x] \notin {"update", "record"}
                        /\ DOMAIN listed'[x] \subseteq Signals
                        /\ pc'[x] \in {"idle", "decide", "list"} => DOMAIN listed'[x] = {}
    BY <2>2, <2>3, <1>r
  <2>7. \A p \in Posters : pc'[p] \in {"idle", "update", "record"}
    BY <2>2, <2>3, <1>r
  <2> QED BY <1>r, <2>4, <2>5, <2>6, <2>7
<1>1. ASSUME NEW r \in Runs, Start(r) PROVE Shape'
  BY <1>1 DEF Start, Idle, Goto
<1>2. ASSUME NEW r \in Runs, Hold(r) PROVE Shape'
  BY <1>2 DEF Hold, Goto
<1>3. ASSUME NEW r \in Runs, List(r) PROVE Shape'
  BY <1>3 DEF List, Enlist, Goto, Pending
<1>4. ASSUME NEW r \in Runs, Count(r) PROVE Shape'
  <2>1. sub[r] \in Signals
    BY <1>4 DEF Count
  <2>2. counted' \in [Signals -> Nat]
    BY <1>4, <2>1 DEF Count
  <2> QED BY <1>4, <2>2, <1>r DEF Count
<1>5. ASSUME NEW r \in Runs, Finish(r) PROVE Shape'
  BY <1>5 DEF Finish, Goto
<1>6. ASSUME NEW r \in Runs, NEW s \in Signals, Recommend(r, s) PROVE Shape'
  BY <1>6 DEF Recommend, Goto
<1>7. ASSUME NEW r \in Runs, NEW s \in Signals, NEW ok \in BOOLEAN, Judge(r, s, ok)
      PROVE  Shape'
  <2> DEFINE new == Validate(s, listed[r][s], window[r])
  <2>0. /\ pc[r] = "walk" /\ Unlist(r, s) /\ Update(s, new.status, new.in, ok)
        /\ UNCHANGED <<rows, counted>>
        /\ \/ /\ Goto(r, "save")
              /\ sub' = [sub EXCEPT ![r] = s]
              /\ verdict' = [verdict EXCEPT ![r] = new.status]
           \/ UNCHANGED <<pc, sub, verdict>>
    BY <1>7 DEF Judge
  <2> HIDE DEF new
  <2>1. faults' \in Nat /\ status' = [x \in Signals |-> status'[x]]
    BY <2>0 DEF Update, Attempt
  <2>2. /\ listed' = [x \in Runs |-> listed'[x]]
        /\ \A x \in Runs : DOMAIN listed'[x] \subseteq DOMAIN listed[x]
    BY <2>0 DEF Unlist
  <2>3. CASE UNCHANGED <<pc, sub, verdict>>
    BY <2>0, <2>1, <2>2, <2>3
  <2>4. CASE /\ Goto(r, "save")
             /\ sub' = [sub EXCEPT ![r] = s]
             /\ verdict' = [verdict EXCEPT ![r] = new.status]
    BY <2>0, <2>1, <2>2, <2>4 DEF Goto
  <2> QED BY <2>0, <2>3, <2>4
<1>8. ASSUME NEW r \in Runs, NEW ok \in BOOLEAN, Save(r, ok) PROVE Shape'
  <2>1. sub[r] \in Signals
    BY <1>8 DEF Save
  <2>2. faults' \in Nat /\ rows' \in [Signals -> Nat]
    BY <1>8, <2>1 DEF Save, Insert, Attempt
  <2>3. CASE verdict[r] \in Scored
    BY <1>8, <2>2, <2>3 DEF Save, AfterSave, Goto
  <2>4. CASE verdict[r] \notin Scored
    BY <1>8, <2>2, <2>4, <1>r DEF Save, AfterSave
  <2> QED BY <2>3, <2>4
<1>9. ASSUME NEW p \in Posters, PostCount(p) PROVE Shape'
  <2>1. sub[p] \in Signals
    BY <1>9 DEF PostCount
  <2>2. counted' \in [Signals -> Nat]
    BY <1>9, <2>1 DEF PostCount
  <2> QED BY <1>9, <2>2, <1>r DEF PostCount
<1>10. ASSUME NEW p \in Posters, NEW s \in Signals, NEW o \in Posts, NEW ok \in BOOLEAN,
              PostSave(p, s, o, ok)
       PROVE  Shape'
  <2>1. faults' \in Nat /\ rows' \in [Signals -> Nat]
    BY <1>10 DEF PostSave, Insert, Attempt
  <2> QED BY <1>10, <2>1 DEF PostSave, Goto, Idle
<1>11. ASSUME NEW p \in Posters, NEW ok \in BOOLEAN, PostUpdate(p, ok) PROVE Shape'
  <2>1. faults' \in Nat /\ status' = [x \in Signals |-> status'[x]]
    BY <1>11 DEF PostUpdate, Update, Attempt
  <2> QED BY <1>11, <2>1 DEF PostUpdate, Goto
<1>12. ASSUME Crash PROVE Shape'
  BY <1>12 DEF Crash, Nothing
<1>13. ASSUME NEW c \in Shapes, NewCandle(c) \/ Widen(c) PROVE Shape'
  BY <1>13 DEF NewCandle, Widen
<1>14. ASSUME Forget PROVE Shape'
  BY <1>14 DEF Forget
<1>15. CASE UNCHANGED vars
  BY <1>15 DEF vars
<1> QED
  BY <1>1, <1>2, <1>3, <1>4, <1>5, <1>6, <1>7, <1>8, <1>9, <1>10, <1>11, <1>12, <1>13,
     <1>14, <1>15 DEF Next, RunStep, PostStep

-------------------------------------------------------------------------------
(* CountedFromRow: whoever has written a row and not yet counted it is owed *)
(* one count.                                                               *)

Owing(s) == {a \in Actors : pc[a] \in {"count", "update", "record"} /\ sub[a] = s}

OwingInv ==
  faults = 0 => \A s \in Signals : counted[s] + Cardinality(Owing(s)) <= rows[s]

LEMMA OwingFinite ==
  \A s : IsFiniteSet(Owing(s)) /\ Cardinality(Owing(s)) \in Nat
<1> TAKE s
<1>1. Owing(s) \subseteq Actors
  BY DEF Owing
<1> QED BY <1>1, FiniteAssumption, FS_Subset, FS_CardinalityType

LEMMA OwingInit == Init => OwingInv
<1> SUFFICES ASSUME Init, NEW s \in Signals
             PROVE  counted[s] + Cardinality(Owing(s)) <= rows[s]
  BY DEF OwingInv
<1>1. Owing(s) = {}
  BY DEF Init, Owing
<1> QED BY <1>1, FS_EmptySet DEF Init

LEMMA OwingStep == Shape /\ OwingInv /\ [Next]_vars => OwingInv'
<1> SUFFICES ASSUME Shape, OwingInv, [Next]_vars, faults' = 0, NEW x \in Signals
             PROVE  (counted[x] + Cardinality(Owing(x)) <= rows[x])'
  BY DEF OwingInv
<1> DEFINE Goal == (counted[x] + Cardinality(Owing(x)) <= rows[x])'
<1> USE DEF marketVars, ledgerVars, actorVars, historyVars
<1>t. /\ rows[x] \in Nat /\ counted[x] \in Nat
      /\ Cardinality(Owing(x)) \in Nat /\ IsFiniteSet(Owing(x))
  BY OwingFinite DEF Shape
<1>n. ASSUME faults = 0
      PROVE  counted[x] + Cardinality(Owing(x)) <= rows[x]
  BY <1>n DEF OwingInv
(* A step that writes no row, counts nothing and moves nobody in or out.    *)
<1>s. ASSUME faults = 0, Owing(x)' = Owing(x), UNCHANGED <<rows, counted>>
      PROVE  Goal
  BY <1>s, <1>n
<1>1. ASSUME NEW r \in Runs, Start(r) PROVE Goal
  BY <1>1, <1>s DEF Start, Goto, Idle, Owing, Shape, Actors
<1>2. ASSUME NEW r \in Runs, Hold(r) PROVE Goal
  BY <1>2, <1>s DEF Hold, Goto, Owing, Shape, Actors
<1>3. ASSUME NEW r \in Runs, List(r) PROVE Goal
  BY <1>3, <1>s DEF List, Enlist, Goto, Owing, Shape, Actors
<1>4. ASSUME NEW r \in Runs, Count(r) PROVE Goal
  <2>1. /\ r \in Actors /\ sub[r] \in Signals /\ faults = 0 /\ rows' = rows
        /\ counted' = [counted EXCEPT ![sub[r]] = @ + 1]
        /\ pc' = [pc EXCEPT ![r] = "walk"]
        /\ sub' = [sub EXCEPT ![r] = NoSignal]
    BY <1>4 DEF Count, Release, Goto, Shape, Actors, Writing
  <2>2. Owing(x)' = Owing(x) \ {r}
    BY <2>1, SetAssumption DEF Owing, Shape
  <2>3. CASE sub[r] = x
    <3>1. r \in Owing(x)
      BY <1>4, <2>1, <2>3 DEF Count, Owing
    <3>2. Cardinality(Owing(x)') = Cardinality(Owing(x)) - 1
      BY <3>1, <2>2, <1>t, FS_RemoveElement
    <3>3. counted'[x] = counted[x] + 1
      BY <2>1, <2>3 DEF Shape
    <3> QED BY <3>2, <3>3, <2>1, <1>n, <1>t
  <2>4. CASE sub[r] # x
    <3>1. Owing(x)' = Owing(x)
      BY <2>2, <2>4 DEF Owing
    <3>2. counted'[x] = counted[x]
      BY <2>1, <2>4 DEF Shape
    <3> QED BY <3>1, <3>2, <2>1, <1>n
  <2> QED BY <2>3, <2>4
<1>5. ASSUME NEW r \in Runs, Finish(r) PROVE Goal
  BY <1>5, <1>s DEF Finish, Goto, Owing, Shape, Actors
<1>6. ASSUME NEW r \in Runs, NEW s \in Signals, Recommend(r, s) PROVE Goal
  BY <1>6, <1>s DEF Recommend, Goto, Owing, Shape, Actors
<1>7. ASSUME NEW r \in Runs, NEW s \in Signals, NEW ok \in BOOLEAN, Judge(r, s, ok)
      PROVE  Goal
  <2>1. /\ r \in Actors /\ pc[r] = "walk"
        /\ \E outcome, in : Update(s, outcome, in, ok)
        /\ UNCHANGED <<rows, counted>>
        /\ \/ Goto(r, "save") /\ sub' = [sub EXCEPT ![r] = s]
           \/ UNCHANGED <<pc, sub>>
    BY <1>7 DEF Judge, Actors
  <2>2. faults = 0
    BY <2>1 DEF Update, Attempt, Shape
  <2>3. Owing(x)' = Owing(x)
    BY <2>1 DEF Owing, Goto, Shape
  <2> QED BY <2>1, <2>2, <2>3, <1>s
(* A row is written, with success: no write has failed so far.              *)
<1>w. ASSUME NEW a \in Actors, NEW s \in Signals, NEW ok \in BOOLEAN, Insert(s, ok),
             Owing(x)' \subseteq IF x = s THEN Owing(x) \cup {a} ELSE Owing(x),
             UNCHANGED counted
      PROVE  Goal
  <2>0. ok /\ faults = 0
    BY <1>w DEF Insert, Attempt, Shape
  <2>1. faults = 0 /\ rows' = [rows EXCEPT ![s] = @ + 1]
    BY <1>w, <2>0 DEF Insert
  <2>2. CASE x = s
    <3>1. /\ IsFiniteSet(Owing(x) \cup {a})
          /\ Cardinality(Owing(x) \cup {a}) <= Cardinality(Owing(x)) + 1
      BY <1>t, FS_AddElement
    <3>2. Owing(x)' \subseteq Owing(x) \cup {a}
      BY <1>w, <2>2
    <3>3. Cardinality(Owing(x)') <= Cardinality(Owing(x)) + 1
      BY <3>1, <3>2, <1>t, FS_Subset, FS_CardinalityType
    <3>4. rows'[x] = rows[x] + 1 /\ Cardinality(Owing(x)') \in Nat
      BY <2>1, <2>2, <3>1, <3>2, FS_Subset, FS_CardinalityType DEF Shape
    <3> QED BY <3>3, <3>4, <2>1, <1>w, <1>n, <1>t
  <2>3. CASE x # s
    <3>1. Owing(x)' \subseteq Owing(x) /\ rows'[x] = rows[x]
      BY <1>w, <2>1, <2>3 DEF Shape
    <3>2. Cardinality(Owing(x)') <= Cardinality(Owing(x)) /\ Cardinality(Owing(x)') \in Nat
      BY <3>1, <1>t, FS_Subset, FS_CardinalityType
    <3> QED BY <3>1, <3>2, <2>1, <1>w, <1>n, <1>t
  <2> QED BY <2>2, <2>3
<1>8. ASSUME NEW r \in Runs, NEW ok \in BOOLEAN, Save(r, ok) PROVE Goal
  <2>1. /\ r \in Actors /\ sub[r] \in Signals /\ Insert(sub[r], ok) /\ UNCHANGED counted
        /\ pc[r] = "save"
        /\ \/ Goto(r, "count") /\ UNCHANGED sub
           \/ Release(r, "walk")
    BY <1>8 DEF Save, AfterSave, Shape, Actors, Writing
  <2>2. \A b \in Actors \ {r} : pc'[b] = pc[b] /\ sub'[b] = sub[b]
    BY <2>1 DEF Goto, Release, Shape
  <2>3. sub'[r] = sub[r] \/ sub'[r] = NoSignal
    BY <2>1 DEF Release, Shape
  <2>4. Owing(x)' \subseteq IF x = sub[r] THEN Owing(x) \cup {r} ELSE Owing(x)
    BY <2>1, <2>2, <2>3, SetAssumption DEF Owing
  <2> QED BY <2>1, <2>4, <1>w
<1>9. ASSUME NEW p \in Posters, PostCount(p) PROVE Goal
  <2>1. /\ p \in Actors /\ sub[p] \in Signals /\ faults = 0 /\ rows' = rows
        /\ counted' = [counted EXCEPT ![sub[p]] = @ + 1]
        /\ pc' = [pc EXCEPT ![p] = "idle"]
        /\ sub' = [sub EXCEPT ![p] = NoSignal]
    BY <1>9 DEF PostCount, Release, Goto, Shape, Actors, Writing
  <2>2. Owing(x)' = Owing(x) \ {p}
    BY <2>1, SetAssumption DEF Owing, Shape
  <2>3. CASE sub[p] = x
    <3>1. p \in Owing(x)
      BY <1>9, <2>1, <2>3 DEF PostCount, Owing
    <3>2. Cardinality(Owing(x)') = Cardinality(Owing(x)) - 1
      BY <3>1, <2>2, <1>t, FS_RemoveElement
    <3>3. counted'[x] = counted[x] + 1
      BY <2>1, <2>3 DEF Shape
    <3> QED BY <3>2, <3>3, <2>1, <1>n, <1>t
  <2>4. CASE sub[p] # x
    <3>1. Owing(x)' = Owing(x)
      BY <2>2, <2>4 DEF Owing
    <3>2. counted'[x] = counted[x]
      BY <2>1, <2>4 DEF Shape
    <3> QED BY <3>1, <3>2, <2>1, <1>n
  <2> QED BY <2>3, <2>4
<1>10. ASSUME NEW p \in Posters, NEW s \in Signals, NEW o \in Posts, NEW ok \in BOOLEAN,
              PostSave(p, s, o, ok)
       PROVE  Goal
  <2>1. /\ p \in Actors /\ Insert(s, ok) /\ UNCHANGED counted
        /\ \A b \in Actors \ {p} : pc'[b] = pc[b] /\ sub'[b] = sub[b]
        /\ sub'[p] = s
    BY <1>10 DEF PostSave, Goto, Shape, Actors
  <2>2. Owing(x)' \subseteq IF x = s THEN Owing(x) \cup {p} ELSE Owing(x)
    BY <2>1 DEF Owing
  <2> QED BY <2>1, <2>2, <1>w
<1>11. ASSUME NEW p \in Posters, NEW ok \in BOOLEAN, PostUpdate(p, ok) PROVE Goal
  <2>1. faults = 0 /\ UNCHANGED <<rows, counted>>
    BY <1>11 DEF PostUpdate, Update, Attempt, Shape
  <2>2. Owing(x)' = Owing(x)
    BY <1>11 DEF PostUpdate, Goto, Owing, Shape, Actors
  <2> QED BY <2>1, <2>2, <1>s
<1>12. ASSUME Crash PROVE Goal
  <2>1. faults' = faults + 1 /\ faults \in Nat
    BY <1>12 DEF Crash, Shape
  <2> QED BY <2>1
<1>13. ASSUME NEW c \in Shapes, NewCandle(c) \/ Widen(c) PROVE Goal
  BY <1>13, <1>s DEF NewCandle, Widen, Owing
<1>14. ASSUME Forget PROVE Goal
  BY <1>14, <1>s DEF Forget, Owing
<1>15. CASE UNCHANGED vars
  BY <1>15, <1>s DEF vars, Owing
<1> QED
  BY <1>1, <1>2, <1>3, <1>4, <1>5, <1>6, <1>7, <1>8, <1>9, <1>10, <1>11, <1>12, <1>13,
     <1>14, <1>15 DEF Next, RunStep, PostStep

(* The models never learn an outcome without a row of its own: each          *)
(* record_model_outcome follows its own save_outcome, in every interleaving  *)
(* of cycles and posts.                                                      *)
THEOREM CountsHaveRows == Spec => []CountedFromRow
<1>1. Shape /\ OwingInv => CountedFromRow
  <2> SUFFICES ASSUME Shape, OwingInv, faults = 0, NEW s \in Signals
               PROVE  counted[s] <= rows[s]
    BY DEF CountedFromRow
  <2>1. counted[s] + Cardinality(Owing(s)) <= rows[s]
    BY DEF OwingInv
  <2>2. counted[s] \in Nat /\ rows[s] \in Nat /\ Cardinality(Owing(s)) \in Nat
    BY OwingFinite DEF Shape
  <2> QED BY <2>1, <2>2
<1>2. Spec => [](Shape /\ OwingInv)
  BY ShapeInit, ShapeStep, OwingInit, OwingStep, PTL DEF Spec
<1> QED BY <1>1, <1>2, PTL

-------------------------------------------------------------------------------
(* Without overlap one actor is at work, and what it has listed is not final *)
(* yet.                                                                      *)

AloneInv ==
  ~overlap =>
    /\ \A a, b \in Actors : a # b => Idle(a) \/ Idle(b)
    /\ \A r \in Runs : \A s \in DOMAIN listed[r] : status[s] \notin Final

LEMMA AloneInit == Init => AloneInv
BY DEF Init, AloneInv, Idle, Nothing

LEMMA AloneStep == Shape /\ AloneInv /\ [Next]_vars => AloneInv'
<1> SUFFICES ASSUME Shape, AloneInv, [Next]_vars, ~overlap'
             PROVE  /\ \A a, b \in Actors : a # b => Idle(a)' \/ Idle(b)'
                    /\ \A r \in Runs : \A s \in DOMAIN listed'[r] : status'[s] \notin Final
  BY DEF AloneInv
<1> DEFINE Goal == /\ \A a, b \in Actors : a # b => Idle(a)' \/ Idle(b)'
                   /\ \A r \in Runs : \A s \in DOMAIN listed'[r] : status'[s] \notin Final
<1> USE DEF marketVars, ledgerVars, actorVars, historyVars
<1>h. ASSUME ~overlap
      PROVE  /\ \A a, b \in Actors : a # b => Idle(a) \/ Idle(b)
             /\ \A r \in Runs : \A s \in DOMAIN listed[r] : status[s] \notin Final
  BY <1>h DEF AloneInv
(* An actor that is at work moves on; the lists and outcomes stay.          *)
<1>m. ASSUME ~overlap, NEW a \in Actors, ~Idle(a),
             \A b \in Actors \ {a} : pc'[b] = pc[b], UNCHANGED <<listed, status>>
      PROVE  Goal
  BY <1>m, <1>h DEF Idle
(* An actor sets to work.                                                   *)
<1>n. ASSUME NEW a \in Actors, NoteStart(a),
             \A b \in Actors \ {a} : pc'[b] = pc[b], UNCHANGED <<listed, status>>
      PROVE  Goal
  <2>1. ~overlap /\ \A b \in Actors \ {a} : Idle(b)
    BY <1>n DEF NoteStart
  <2> QED BY <2>1, <1>n, <1>h DEF Idle
<1>1. ASSUME NEW r \in Runs, Start(r) PROVE Goal
  BY <1>1, <1>n DEF Start, Goto, Shape, Actors
<1>2. ASSUME NEW r \in Runs, Hold(r) PROVE Goal
  BY <1>2, <1>m DEF Hold, Goto, Shape, Actors, Idle
<1>3. ASSUME NEW r \in Runs, List(r) PROVE Goal
  <2>1. /\ r \in Actors /\ ~Idle(r) /\ ~overlap /\ status' = status
        /\ pc' = [pc EXCEPT ![r] = "walk"]
        /\ listed' = [listed EXCEPT ![r] = [s \in Pending |-> entered[s]]]
    BY <1>3 DEF List, Enlist, Goto, Idle, Actors
  <2>2. \A q \in Runs : DOMAIN listed'[q] = IF q = r THEN Pending ELSE DOMAIN listed[q]
    BY <2>1 DEF Shape
  <2>3. \A q \in Runs : \A s \in DOMAIN listed'[q] : status'[s] \notin Final
    BY <2>1, <2>2, <1>h DEF Pending
  <2>4. \A b \in Actors \ {r} : pc'[b] = pc[b]
    BY <2>1 DEF Shape
  <2> QED BY <2>1, <2>3, <2>4, <1>h DEF Idle
<1>4. ASSUME NEW r \in Runs, Count(r) PROVE Goal
  BY <1>4, <1>m DEF Count, Release, Goto, Shape, Actors, Idle
<1>5. ASSUME NEW r \in Runs, Finish(r) PROVE Goal
  BY <1>5, <1>m DEF Finish, Goto, Shape, Actors, Idle
<1>6. ASSUME NEW r \in Runs, NEW s \in Signals, Recommend(r, s) PROVE Goal
  BY <1>6, <1>m DEF Recommend, Goto, Shape, Actors, Idle
<1>7. ASSUME NEW r \in Runs, NEW s \in Signals, NEW ok \in BOOLEAN, Judge(r, s, ok)
      PROVE  Goal
  <2>1. /\ r \in Actors /\ ~Idle(r) /\ ~overlap
        /\ Unlist(r, s) /\ \E outcome, in : Update(s, outcome, in, ok)
        /\ Goto(r, "save") \/ pc' = pc
    BY <1>7 DEF Judge, Actors, Idle
  <2>2. \A x \in Signals \ {s} : status'[x] = status[x]
    BY <2>1 DEF Update, Shape
  <2>3. \A q \in Runs \ {r} : DOMAIN listed'[q] = DOMAIN listed[q]
    BY <2>1 DEF Unlist, Shape
  <2>4. DOMAIN listed'[r] = DOMAIN listed[r] \ {s}
    BY <2>1 DEF Unlist, Shape
  <2>5. \A q \in Runs \ {r} : DOMAIN listed[q] = {}
    BY <2>1, <1>h DEF Idle, Shape, Actors
  <2>6. \A q \in Runs : \A x \in DOMAIN listed'[q] : status'[x] \notin Final
    BY <2>1, <2>2, <2>3, <2>4, <2>5, <1>h DEF Shape
  <2>7. \A b \in Actors \ {r} : pc'[b] = pc[b]
    BY <2>1 DEF Goto, Shape
  <2> QED BY <2>1, <2>6, <2>7, <1>h DEF Idle
<1>8. ASSUME NEW r \in Runs, NEW ok \in BOOLEAN, Save(r, ok) PROVE Goal
  <2>1. /\ r \in Actors /\ ~Idle(r) /\ ~overlap /\ UNCHANGED <<listed, status>>
        /\ Goto(r, "count") \/ Goto(r, "walk")
    BY <1>8 DEF Save, AfterSave, Release, Actors, Idle
  <2>2. \A b \in Actors \ {r} : pc'[b] = pc[b]
    BY <2>1 DEF Goto, Shape
  <2> QED BY <2>1, <2>2, <1>m
<1>9. ASSUME NEW p \in Posters, PostCount(p) PROVE Goal
  BY <1>9, <1>m DEF PostCount, Release, Goto, Shape, Actors, Idle
<1>10. ASSUME NEW p \in Posters, NEW s \in Signals, NEW o \in Posts, NEW ok \in BOOLEAN,
              PostSave(p, s, o, ok)
       PROVE  Goal
  BY <1>10, <1>n DEF PostSave, Goto, Shape, Actors
<1>11. ASSUME NEW p \in Posters, NEW ok \in BOOLEAN, PostUpdate(p, ok) PROVE Goal
  <2>1. /\ p \in Actors /\ ~Idle(p) /\ ~overlap /\ listed' = listed
        /\ \A b \in Actors \ {p} : pc'[b] = pc[b]
    BY <1>11 DEF PostUpdate, Goto, Shape, Actors, Idle
  <2>2. \A r \in Runs : DOMAIN listed[r] = {}
    BY <2>1, <1>h, SetAssumption DEF Idle, Shape, Actors
  <2> QED BY <2>1, <2>2, <1>h DEF Idle
<1>12. ASSUME Crash PROVE Goal
  BY <1>12 DEF Crash, Nothing, Idle, Actors
<1>13. ASSUME NEW c \in Shapes, NewCandle(c) \/ Widen(c) PROVE Goal
  BY <1>13, <1>h DEF NewCandle, Widen, Idle
<1>14. ASSUME Forget PROVE Goal
  BY <1>14, <1>h DEF Forget, Idle
<1>15. CASE UNCHANGED vars
  BY <1>15, <1>h DEF vars, Idle
<1> QED
  BY <1>1, <1>2, <1>3, <1>4, <1>5, <1>6, <1>7, <1>8, <1>9, <1>10, <1>11, <1>12, <1>13,
     <1>14, <1>15 DEF Next, RunStep, PostStep

(* What a cycle found final, or a client posted, stays: no later validation  *)
(* changes it, however often cycles run, fail or crash, unless another actor *)
(* is at work at the same time.                                              *)
THEOREM FinalOutcomesStay == Spec => FinalStays
<1> DEFINE Keeps == \A s \in Signals :
              status[s] \in Final /\ status'[s] # status[s]
                => overlap \/ \E p \in Posters : pc[p] = "update" /\ sub[p] = s
<1>1. Shape /\ AloneInv /\ [Next]_vars => [Keeps]_vars
  <2> SUFFICES ASSUME Shape, AloneInv, [Next]_vars, NEW s \in Signals,
                      status[s] \in Final, status'[s] # status[s], ~overlap
               PROVE  \E p \in Posters : pc[p] = "update" /\ sub[p] = s
    OBVIOUS
  <2> USE DEF marketVars, ledgerVars, actorVars, historyVars
  <2>1. ASSUME NEW r \in Runs, RunStep(r) PROVE FALSE
    <3>1. PICK x \in Signals, ok \in BOOLEAN : Judge(r, x, ok)
      BY <2>1 DEF RunStep, Start, Hold, List, Enlist, Count, Finish, Recommend, Save
    <3>2. x \in DOMAIN listed[r] /\ \E outcome, in : Update(x, outcome, in, ok)
      BY <3>1 DEF Judge
    <3>3. x = s
      BY <3>2 DEF Update, Shape
    <3> QED BY <3>2, <3>3 DEF AloneInv
  <2>2. ASSUME NEW p \in Posters, PostStep(p)
        PROVE  pc[p] = "update" /\ sub[p] = s
    <3>1. PICK ok \in BOOLEAN : PostUpdate(p, ok)
      BY <2>2 DEF PostStep, PostCount, PostSave
    <3> QED BY <3>1 DEF PostUpdate, Update, Shape
  <2>3. CASE Crash
    BY <2>3 DEF Crash
  <2>4. CASE (\E c \in Shapes : NewCandle(c) \/ Widen(c)) \/ Forget \/ UNCHANGED vars
    BY <2>4 DEF NewCandle, Widen, Forget, vars
  <2> QED BY <2>1, <2>2, <2>3, <2>4 DEF Next
<1>2. Spec => [](Shape /\ AloneInv)
  BY ShapeInit, ShapeStep, AloneInit, AloneStep, PTL DEF Spec
<1> HIDE DEF Keeps
<1>3. Spec => [][Keeps]_vars
  BY <1>1, <1>2, PTL DEF Spec
<1> QED BY <1>3 DEF Keeps, FinalStays

-------------------------------------------------------------------------------
(* SavedOnce and FinalRowExists: where a signal is between its status and    *)
(* its row.                                                                  *)

PostInv == \A p \in Posters : sub[p] \in Signals => sub[p] \in posted

Unseen(s) == \A a \in Actors : sub[a] # s

Open(s) == Unseen(s) /\ status[s] \notin Final /\ rows[s] = 0 /\ counted[s] = 0

Closed(s) == /\ Unseen(s) /\ status[s] \in Final /\ rows[s] = 1
             /\ counted[s] = IF status[s] \in Scored THEN 1 ELSE 0

Unsaved(s, r) == /\ sub[r] = s /\ pc[r] = "save" /\ verdict[r] = status[s]
                 /\ status[s] \in Final /\ rows[s] = 0 /\ counted[s] = 0

Uncounted(s, r) == /\ sub[r] = s /\ pc[r] = "count" /\ status[s] \in Scored
                   /\ rows[s] = 1 /\ counted[s] = 0

LedgerInv ==
  ~overlap /\ faults = 0 =>
    \A s \in Signals \ posted :
      \/ Open(s) \/ Closed(s)
      \/ \E r \in Runs : Unsaved(s, r) \/ Uncounted(s, r)

LEMMA LedgerInit == Init => PostInv /\ LedgerInv
BY SetAssumption DEF Init, PostInv, LedgerInv, Open, Unseen, Final, Actors

LEMMA PostStepInv == Shape /\ PostInv /\ [Next]_vars => PostInv'
<1> SUFFICES ASSUME Shape, PostInv, [Next]_vars, NEW q \in Posters, sub'[q] \in Signals
             PROVE  sub'[q] \in posted'
  BY DEF PostInv
<1> USE SetAssumption
    DEF marketVars, ledgerVars, actorVars, historyVars, Shape, Actors, Goto, Release
<1>0. posted \subseteq posted' \/ posted' = posted
  BY DEF Next, RunStep, PostStep, Start, Hold, List, Enlist, Count, Finish, Recommend, Judge,
         Save, PostCount, PostSave, PostUpdate, Crash, NewCandle, Widen, Forget, vars
<1>k. ASSUME sub'[q] = sub[q] PROVE sub'[q] \in posted'
  BY <1>k, <1>0 DEF PostInv
<1>1. ASSUME NEW r \in Runs, RunStep(r) PROVE sub'[q] \in posted'
  <2>1. sub'[q] = sub[q]
    BY <1>1 DEF RunStep, Start, Hold, List, Enlist, Count, Finish, Recommend, Judge,
                Save, AfterSave
  <2> QED BY <2>1, <1>k
<1>2. ASSUME NEW p \in Posters, PostStep(p) PROVE sub'[q] \in posted'
  <2>1. CASE p # q
    <3>1. sub'[q] = sub[q]
      BY <1>2, <2>1 DEF PostStep, PostCount, PostSave, PostUpdate
    <3> QED BY <3>1, <1>k
  <2>2. CASE p = q
    BY <1>2, <1>k, <2>2 DEF PostStep, PostCount, PostSave, PostUpdate
  <2> QED BY <2>1, <2>2
<1>3. CASE Crash
  BY <1>3 DEF Crash
<1>4. CASE (\E c \in Shapes : NewCandle(c) \/ Widen(c)) \/ Forget \/ UNCHANGED vars
  BY <1>4, <1>k DEF NewCandle, Widen, Forget, vars
<1> QED BY <1>1, <1>2, <1>3, <1>4 DEF Next

LEMMA LedgerStep ==
  Shape /\ AloneInv /\ PostInv /\ LedgerInv /\ [Next]_vars => LedgerInv'
<1> SUFFICES ASSUME Shape, AloneInv, PostInv, LedgerInv, [Next]_vars,
                    ~overlap', faults' = 0, NEW x \in Signals, x \notin posted'
             PROVE  \/ Open(x)' \/ Closed(x)'
                    \/ \E r \in Runs : Unsaved(x, r)' \/ Uncounted(x, r)'
  BY DEF LedgerInv
<1> DEFINE Goal == \/ Open(x)' \/ Closed(x)'
                   \/ \E r \in Runs : Unsaved(x, r)' \/ Uncounted(x, r)'
<1> USE DEF marketVars, ledgerVars, actorVars, historyVars
<1>h. ASSUME ~overlap, faults = 0, x \notin posted
      PROVE  \/ Open(x) \/ Closed(x)
             \/ \E r \in Runs : Unsaved(x, r) \/ Uncounted(x, r)
  BY <1>h DEF LedgerInv
(* A step that does not touch x.                                            *)
<1>s. ASSUME ~overlap, faults = 0, x \notin posted,
             \A a \in Actors : sub[a] = x \/ sub'[a] = x =>
                 pc'[a] = pc[a] /\ sub'[a] = sub[a] /\ verdict'[a] = verdict[a],
             status'[x] = status[x], rows'[x] = rows[x], counted'[x] = counted[x]
      PROVE  Goal
  <2>1. CASE Open(x) \/ Closed(x)
    BY <2>1, <1>s DEF Open, Closed, Unseen
  <2>2. CASE \E r \in Runs : Unsaved(x, r) \/ Uncounted(x, r)
    BY <2>2, <1>s DEF Unsaved, Uncounted, Actors
  <2> QED BY <2>1, <2>2, <1>s, <1>h
(* A run that has no signal keeps none.                                     *)
<1>i. ASSUME NEW r \in Runs, pc[r] \notin Writing, ~overlap, faults = 0, x \notin posted,
             \A b \in Actors \ {r} : pc'[b] = pc[b],
             UNCHANGED <<sub, verdict, status, rows, counted>>
      PROVE  Goal
  BY <1>i, <1>s DEF Shape, Actors
<1>1. ASSUME NEW r \in Runs, Start(r) PROVE Goal
  BY <1>1, <1>i DEF Start, NoteStart, Goto, Shape, Actors, Idle, Writing
<1>2. ASSUME NEW r \in Runs, Hold(r) PROVE Goal
  BY <1>2, <1>i DEF Hold, Goto, Shape, Actors, Writing
<1>3. ASSUME NEW r \in Runs, List(r) PROVE Goal
  BY <1>3, <1>i DEF List, Enlist, Goto, Shape, Actors, Writing
<1>4. ASSUME NEW r \in Runs, Count(r) PROVE Goal
  <2>1. /\ r \in Actors /\ sub[r] \in Signals /\ pc[r] = "count"
        /\ ~overlap /\ faults = 0 /\ x \notin posted
        /\ rows' = rows /\ status' = status
        /\ counted' = [counted EXCEPT ![sub[r]] = @ + 1]
        /\ sub'[r] = NoSignal
        /\ \A b \in Actors \ {r} : pc'[b] = pc[b] /\ sub'[b] = sub[b] /\ verdict'[b] = verdict[b]
    BY <1>4 DEF Count, Release, Goto, Shape, Actors, Writing
  <2>2. CASE sub[r] # x
    BY <2>1, <2>2, <1>s, SetAssumption DEF Shape
  <2>3. CASE sub[r] = x
    <3>1. \A b \in Actors \ {r} : sub[b] # x
      BY <2>1 DEF AloneInv, Shape, Idle, Writing
    <3>2. Uncounted(x, r)
      BY <2>1, <2>3, <3>1, <1>h
         DEF Open, Closed, Unseen, Unsaved, Uncounted, Actors
    <3>3. Unseen(x)'
      BY <2>1, <3>1, SetAssumption DEF Unseen
    <3>4. counted'[x] = 1
      BY <2>1, <2>3, <3>2 DEF Uncounted, Shape
    <3> QED BY <2>1, <3>2, <3>3, <3>4 DEF Closed, Uncounted, Final, Scored
  <2> QED BY <2>2, <2>3
<1>5. ASSUME NEW r \in Runs, Finish(r) PROVE Goal
  BY <1>5, <1>i DEF Finish, Goto, Shape, Actors, Writing
<1>6. ASSUME NEW r \in Runs, NEW s \in Signals, Recommend(r, s) PROVE Goal
  BY <1>6, <1>i DEF Recommend, Goto, Shape, Actors, Writing
<1>7. ASSUME NEW r \in Runs, NEW s \in Signals, NEW ok \in BOOLEAN, Judge(r, s, ok)
      PROVE  Goal
  <2> DEFINE new == Validate(s, listed[r][s], window[r])
  <2>1. /\ r \in Actors /\ pc[r] = "walk" /\ ~overlap /\ x \notin posted
        /\ s \in DOMAIN listed[r] /\ Update(s, new.status, new.in, ok)
        /\ UNCHANGED <<rows, counted>>
        /\ IF new.status \in Final
             THEN /\ Goto(r, "save")
                  /\ sub' = [sub EXCEPT ![r] = s]
                  /\ verdict' = [verdict EXCEPT ![r] = new.status]
             ELSE UNCHANGED <<pc, sub, verdict>>
    BY <1>7 DEF Judge, Actors
  <2> HIDE DEF new
  <2>2. faults = 0 /\ status' = [status EXCEPT ![s] = new.status]
    BY <2>1 DEF Update, Attempt, Shape
  <2>3. sub[r] \notin Signals
    BY <2>1 DEF Shape, Writing
  <2>4. CASE x # s
    <3>1. status'[x] = status[x]
      BY <2>2, <2>4 DEF Shape
    <3>2. CASE new.status \in Final
      BY <2>1, <2>2, <2>3, <2>4, <3>1, <3>2, <1>s DEF Goto, Shape
    <3>3. CASE new.status \notin Final
      BY <2>1, <2>2, <3>1, <3>3, <1>s
    <3> QED BY <3>2, <3>3
  <2>5. CASE x = s
    <3>1. status[x] \notin Final
      BY <2>1, <2>5 DEF AloneInv
    <3>2. Open(x)
      BY <2>1, <2>2, <3>1, <1>h DEF Closed, Unsaved, Uncounted, Final, Scored
    <3>3. status'[x] = new.status
      BY <2>2, <2>5 DEF Shape
    <3>4. CASE new.status \in Final
      <4>1. pc'[r] = "save" /\ sub'[r] = x /\ verdict'[r] = new.status
        BY <2>1, <2>5, <3>4 DEF Goto, Shape
      <4>2. Unsaved(x, r)'
        BY <4>1, <2>1, <3>2, <3>3, <3>4 DEF Unsaved, Open
      <4> QED BY <4>2
    <3>5. CASE new.status \notin Final
      BY <2>1, <3>2, <3>3, <3>5 DEF Open, Unseen
    <3> QED BY <3>4, <3>5
  <2> QED BY <2>4, <2>5
<1>8. ASSUME NEW r \in Runs, NEW ok \in BOOLEAN, Save(r, ok) PROVE Goal
  <2>0. ok /\ faults = 0
    BY <1>8 DEF Save, Insert, Attempt, Shape
  <2>1. /\ r \in Actors /\ sub[r] \in Signals /\ pc[r] = "save"
        /\ ~overlap /\ x \notin posted
        /\ rows' = [rows EXCEPT ![sub[r]] = @ + 1]
        /\ counted' = counted /\ status' = status
    BY <1>8, <2>0 DEF Save, Insert, Shape, Actors, Writing
  <2>2. /\ \A b \in Actors \ {r} : pc'[b] = pc[b] /\ sub'[b] = sub[b] /\ verdict'[b] = verdict[b]
        /\ IF verdict[r] \in Scored THEN pc'[r] = "count" /\ sub'[r] = sub[r]
                                    ELSE sub'[r] = NoSignal
    BY <1>8, <2>1 DEF Save, AfterSave, Release, Goto, Shape
  <2>3. CASE sub[r] # x
    BY <2>0, <2>1, <2>2, <2>3, <1>s, SetAssumption DEF Shape
  <2>4. CASE sub[r] = x
    <3>1. \A b \in Actors \ {r} : sub[b] # x
      BY <2>1 DEF AloneInv, Shape, Idle, Writing
    <3>2. Unsaved(x, r)
      BY <2>0, <2>1, <2>4, <3>1, <1>h
         DEF Open, Closed, Unseen, Unsaved, Uncounted, Actors
    <3>3. rows'[x] = 1
      BY <2>1, <2>4, <3>2 DEF Unsaved, Shape
    <3>4. CASE verdict[r] \in Scored
      BY <2>1, <2>2, <2>4, <3>2, <3>3, <3>4 DEF Unsaved, Uncounted
    <3>5. CASE verdict[r] \notin Scored
      <4>1. Unseen(x)'
        BY <2>2, <3>1, <3>5, SetAssumption DEF Unseen
      <4> QED BY <4>1, <2>1, <3>2, <3>3, <3>5 DEF Unsaved, Closed
    <3> QED BY <3>4, <3>5
  <2> QED BY <2>3, <2>4
<1>9. ASSUME NEW p \in Posters, PostStep(p) PROVE Goal
  <2>1. CASE PostCount(p)
    <3>1. /\ p \in Actors /\ sub[p] \in Signals /\ sub[p] # x
          /\ ~overlap /\ faults = 0 /\ x \notin posted
      BY <2>1 DEF PostCount, PostInv, Shape, Actors, Writing
    <3> QED BY <2>1, <3>1, <1>s, SetAssumption DEF PostCount, Release, Goto, Shape
  <2>2. CASE \E ok \in BOOLEAN : PostUpdate(p, ok)
    <3>1. /\ p \in Actors /\ sub[p] \in Signals /\ sub[p] # x
          /\ ~overlap /\ faults = 0 /\ x \notin posted
      BY <2>2 DEF PostUpdate, Update, Attempt, PostInv, Shape, Actors, Writing
    <3>2. status'[x] = status[x]
      BY <2>2, <3>1 DEF PostUpdate, Update, Shape
    <3> QED BY <2>2, <3>1, <3>2, <1>s DEF PostUpdate, Goto, Shape
  <2>3. CASE \E s \in Signals, o \in Posts, ok \in BOOLEAN : PostSave(p, s, o, ok)
    <3>1. PICK s \in Signals, o \in Posts, ok \in BOOLEAN : PostSave(p, s, o, ok)
      BY <2>3
    <3>2. /\ p \in Actors /\ sub[p] \notin Signals /\ s # x
          /\ ~overlap /\ faults = 0 /\ x \notin posted
      BY <3>1 DEF PostSave, NoteStart, Insert, Attempt, Idle, Shape, Actors, Writing
    <3>3. rows'[x] = rows[x] /\ status' = status /\ counted' = counted
      BY <3>1, <3>2 DEF PostSave, Insert, Shape
    <3>4. /\ sub'[p] = s
          /\ \A b \in Actors \ {p} : pc'[b] = pc[b] /\ sub'[b] = sub[b] /\ verdict'[b] = verdict[b]
      BY <3>1, <3>2 DEF PostSave, Goto, Shape
    <3> QED BY <3>2, <3>3, <3>4, <1>s
  <2> QED BY <1>9, <2>1, <2>2, <2>3 DEF PostStep
<1>10. ASSUME Crash PROVE Goal
  BY <1>10 DEF Crash, Shape
<1>11. CASE (\E c \in Shapes : NewCandle(c) \/ Widen(c)) \/ Forget \/ UNCHANGED vars
  BY <1>11, <1>s DEF NewCandle, Widen, Forget, vars
<1> QED
  BY <1>1, <1>2, <1>3, <1>4, <1>5, <1>6, <1>7, <1>8, <1>9, <1>10, <1>11 DEF Next, RunStep

LEMMA LedgerAlways == Spec => [](Shape /\ LedgerInv)
BY ShapeInit, ShapeStep, AloneInit, AloneStep, LedgerInit, PostStepInv, LedgerStep, PTL DEF Spec

(* Cycle after cycle, a signal gets one automatic outcome at most.            *)
THEOREM OutcomeSavedOnce == Spec => []SavedOnce
<1>1. LedgerInv => SavedOnce
  BY DEF LedgerInv, SavedOnce, Open, Closed, Unsaved, Uncounted
<1> QED BY <1>1, LedgerAlways, PTL

(* A signal that is final has its row, and was counted once if it is scored. *)
THEOREM FinalOutcomesRecorded == Spec => []FinalRowExists
<1>1. LedgerInv => FinalRowExists
  <2> SUFFICES ASSUME LedgerInv, ~overlap, faults = 0, NEW s \in Signals \ posted,
                      Unseen(s), status[s] \in Final
               PROVE  rows[s] = 1 /\ counted[s] = IF status[s] \in Scored THEN 1 ELSE 0
    BY DEF FinalRowExists, Unseen
  <2>1. Closed(s)
    BY DEF LedgerInv, Open, Unseen, Unsaved, Uncounted, Actors
  <2> QED BY <2>1 DEF Closed
<1> QED BY <1>1, LedgerAlways, PTL

-------------------------------------------------------------------------------
(* OutcomeIsFirstPassage: the walk.  It is a recursive function of the index *)
(* of a candle; what holds of it for each index is proved by a least index   *)
(* for which it does not.                                                    *)

(* A set of natural numbers has a least one, by its finite beginnings: the  *)
(* induction theorems of the library take a predicate for a parameter.       *)
LEMMA LeastNatural ==
  ASSUME NEW T \in SUBSET Nat, T # {}
  PROVE  \E m \in T : \A k \in T : m <= k
<1>1. PICK n \in T : TRUE OBVIOUS
<1> DEFINE below == {0..k : k \in {k \in T : k <= n}}
           R == StrictSubsetOrdering(0..n)
           all == SUBSET (0..n)
<1>2. IsWellFoundedOn(R, all)
  <2>1. IsFiniteSet(0..n) BY <1>1, FS_Interval
  <2> QED BY <2>1, FS_StrictSubsetOrderingWellFounded, FS_FiniteSubsetsOfFinite
<1>3. below \subseteq all /\ below # {}
  <2>1. ASSUME NEW k \in T, k <= n PROVE 0..k \subseteq 0..n BY <1>1, <2>1
  <2>2. below \subseteq all BY <2>1
  <2>3. n \in {k \in T : k <= n} BY <1>1
  <2>4. 0..n \in below BY <2>3
  <2> QED BY <2>2, <2>4
<1>4. \E x \in below : \A y \in below : <<y, x>> \notin R
  <2> HIDE DEF below, R, all
  <2> QED BY ONLY <1>2, <1>3, WFMin
<1>5. PICK m \in {k \in T : k <= n} : \A y \in below : <<y, 0..m>> \notin R BY <1>4
<1>6. ASSUME NEW k \in T PROVE m <= k
  <2>1. CASE k > n BY <1>1, <1>5, <2>1
  <2>2. CASE k <= n /\ k < m
    <3>1. 0..k \in below /\ <<0..k, 0..m>> \notin R BY <1>5, <2>2
    <3>2. 0..k \subseteq 0..m /\ m \in 0..m /\ m \notin 0..k BY <1>1, <1>5, <2>2
    <3>3. 0..k \subseteq 0..n /\ 0..m \subseteq 0..n BY <1>1, <1>5, <2>2
    <3> QED BY <3>1, <3>2, <3>3 DEF StrictSubsetOrdering
  <2> QED BY <1>1, <1>5, <2>1, <2>2
<1> QED BY <1>5, <1>6

(* The candle at which a walk starts, and what it holds before that one.     *)
FirstTurn(s, w) == IF w.from > born[s] THEN w.from ELSE born[s] + 1

Unturned(in) == [in |-> in, tp1 |-> FALSE, result |-> "OPEN"]

(* The equation that Walk chooses its function by.                           *)
WalkEq(g, s, in, w) ==
  g = [i \in Nat |-> IF i < FirstTurn(s, w) THEN Unturned(in)
                     ELSE Turn(s, g[i - 1], i, w.candles[i])]

LEMMA WalkUnfolds ==
  \A s, in, w : Walk(s, in, w) = (CHOOSE g : WalkEq(g, s, in, w))[Len(w.candles)]
BY Zenon DEF Walk, WalkEq, FirstTurn, Unturned

(* Such a function exists: it is put together from its beginnings.           *)
LEMMA WalkExists ==
  ASSUME NEW s, NEW in, NEW w, FirstTurn(s, w) \in Nat, FirstTurn(s, w) > 0
  PROVE  \E g : WalkEq(g, s, in, w)
<1> DEFINE first == FirstTurn(s, w)
           T(v, i) == Turn(s, v, i, w.candles[i])
           base == Unturned(in)
           Upto(g, n) == \A i \in 0..n : g[i] = IF i < first THEN base ELSE T(g[i - 1], i)
           bad == {n \in Nat : ~\E g : Upto(g, n)}
<1>f. first \in Nat /\ first > 0 OBVIOUS
<1>w. \A g : WalkEq(g, s, in, w)
        <=> g = [i \in Nat |-> IF i < first THEN base ELSE T(g[i - 1], i)]
  BY Zenon DEF WalkEq
<1> HIDE DEF first, T, base
<1>1. ASSUME bad # {} PROVE FALSE
  <2>1. PICK m \in bad : \A k \in bad : m <= k
    <3> HIDE DEF bad
    <3>1. bad \in SUBSET Nat BY DEF bad
    <3> QED BY <1>1, <3>1, LeastNatural
  <2>2. m \in Nat /\ ~\E g : Upto(g, m) OBVIOUS
  <2>3. CASE m = 0
    <3> DEFINE g == [i \in Nat |-> base]
    <3>1. Upto(g, m) BY <2>3, <1>f
    <3> QED BY <3>1, <2>2
  <2>4. CASE m # 0
    <3>0. m - 1 \in Nat /\ ~(m <= m - 1) BY <2>4, <2>2
    <3>1. m - 1 \notin bad
      <4> HIDE DEF bad
      <4> QED BY <3>0, <2>1
    <3>2. PICK g : Upto(g, m - 1) BY <3>0, <3>1
    <3> DEFINE h == [i \in Nat |-> IF i < m THEN g[i]
                                   ELSE IF i < first THEN base ELSE T(g[i - 1], i)]
    <3>3. ASSUME NEW i \in 0..m
          PROVE  h[i] = IF i < first THEN base ELSE T(h[i - 1], i)
      <4>1. i \in Nat /\ (i < first \/ (i - 1 \in Nat /\ i - 1 < m)) BY <2>2, <1>f
      <4>2. i < first \/ h[i - 1] = g[i - 1] BY <4>1
      <4>3. CASE i < m
        <5>1. h[i] = g[i] /\ i \in 0..(m - 1) BY <4>1, <4>3, <2>2
        <5>2. g[i] = IF i < first THEN base ELSE T(g[i - 1], i) BY <5>1, <3>2
        <5> HIDE DEF h, Upto
        <5> QED BY <5>1, <5>2, <4>2
      <4>4. CASE ~(i < m)
        <5>1. h[i] = IF i < first THEN base ELSE T(g[i - 1], i) BY <4>1, <4>4
        <5> HIDE DEF h, Upto
        <5> QED BY <5>1, <4>2
      <4> QED BY <4>3, <4>4
    <3>4. Upto(h, m)
      <4> HIDE DEF h
      <4> QED BY <3>3
    <3> QED BY <3>4, <2>2
  <2> QED BY <2>3, <2>4
<1>2. ASSUME NEW g, NEW h, NEW n \in Nat, NEW m \in Nat, Upto(g, n), Upto(h, m), n <= m
      PROVE  \A i \in 0..n : g[i] = h[i]
  <2> DEFINE off == {i \in 0..n : g[i] # h[i]}
  <2>1. ASSUME off # {} PROVE FALSE
    <3>1. PICK i \in off : \A k \in off : i <= k
      <4> HIDE DEF off
      <4>1. off \in SUBSET Nat BY DEF off
      <4> QED BY <2>1, <4>1, LeastNatural
    <3>2. i \in 0..n /\ i \in 0..m /\ g[i] # h[i] BY <1>2
    <3>3. /\ g[i] = IF i < first THEN base ELSE T(g[i - 1], i)
          /\ h[i] = IF i < first THEN base ELSE T(h[i - 1], i)
      BY <3>2, <1>2
    <3>4. ~(i < first) BY <3>2, <3>3
    <3>5. i - 1 \in 0..n /\ ~(i <= i - 1) BY <3>2, <3>4, <1>f
    <3>6. i - 1 \notin off
      <4> HIDE DEF off
      <4> QED BY <3>1, <3>5
    <3>7. g[i - 1] = h[i - 1] BY <3>5, <3>6
    <3> HIDE DEF Upto
    <3> QED BY <3>2, <3>3, <3>4, <3>7
  <2> QED BY <2>1
<1> DEFINE G(n) == CHOOSE g : Upto(g, n)
           F == [n \in Nat |-> G(n)[n]]
<1>3. \A n \in Nat : Upto(G(n), n) BY <1>1
<1>4. ASSUME NEW n \in Nat
      PROVE  F[n] = IF n < first THEN base ELSE T(F[n - 1], n)
  <2>1. G(n)[n] = IF n < first THEN base ELSE T(G(n)[n - 1], n)
    <3>1. n \in 0..n OBVIOUS
    <3> HIDE DEF G
    <3> QED BY <1>3, <3>1
  <2>2. ASSUME ~(n < first) PROVE G(n)[n - 1] = F[n - 1]
    <3>1. n - 1 \in Nat /\ n - 1 \in 0..(n - 1) /\ n - 1 <= n BY <2>2, <1>f
    <3> HIDE DEF G, Upto
    <3>2. G(n - 1)[n - 1] = G(n)[n - 1] BY <1>2, <1>3, <3>1
    <3> QED BY <3>1, <3>2
  <2>3. F[n] = G(n)[n] OBVIOUS
  <2> HIDE DEF F, G
  <2> QED BY <2>1, <2>2, <2>3
<1>5. F = [n \in Nat |-> IF n < first THEN base ELSE T(F[n - 1], n)]
  <2>1. F = [n \in Nat |-> F[n]] OBVIOUS
  <2> HIDE DEF F
  <2> QED BY <1>4, <2>1
<1> HIDE DEF F
<1> QED BY <1>5, <1>w

(* The types the walk needs.                                                *)
ChartTypes ==
  /\ chart \in Seq(Candle) /\ oldest \in Nat /\ changed \in Nat
  /\ born \in [Signals -> Nat]
  /\ entered = [s \in Signals |-> entered[s]]
  /\ window \in [Runs -> [from : Nat, candles : Seq(Candle)]]

(* The candle that enters a trade, and the first from there that ends it.   *)
Entering(s, e) ==
  /\ e \in After(s) /\ e <= Deadline(s) /\ Touches(s, chart[e])
  /\ \A j \in After(s) : j < e => ~Touches(s, chart[j])

Ends(s, i) == chart[i].adv <= Stop \/ chart[i].fav >= Target \/ i > Deadline(s)

Leaving(s, e, x) ==
  /\ x \in e..Len(chart) /\ Ends(s, x)
  /\ \A j \in e..Len(chart) : j < x => ~Ends(s, j)

Reached(e, i) == \E j \in e..i : chart[j].fav >= Tp1

Ending(s, e, x) == Close(chart[x], Reached(e, x), x > Deadline(s))

(* What a final status rests on, whatever candles follow.                   *)
Told(s) ==
  \/ Tempting(s)
  \/ /\ status[s] = "MISSED_ENTRY" /\ Deadline(s) < Len(chart)
     /\ \A j \in After(s) : j <= Deadline(s) => ~Touches(s, chart[j])
  \/ \E e, x \in 1..Len(chart) :
       Entering(s, e) /\ Leaving(s, e, x) /\ status[s] = Ending(s, e, x)

(* A window is a prefix of the chart.                                       *)
Prefix(w) ==
  /\ w.from = 1 /\ Len(w.candles) <= Len(chart)
  /\ \A i \in 1..Len(w.candles) : w.candles[i] = chart[i]

(* A persisted entry is the one of the chart, seen in an earlier window.    *)
Seen(s, e) ==
  Entering(s, e) /\ \A r \in Runs : ~Idle(r) => e <= Len(window[r].candles)

(* What holds of the windows while nothing has disturbed the chart.          *)
Windows ==
  /\ oldest = 1
  /\ \A r \in Runs : Prefix(window[r])
  /\ \A s \in Signals : born[s] <= Len(chart)

(* What is persisted about a signal rests on the chart as it stands: a final *)
(* status is told by it, an entry was seen in it, and what a run has listed  *)
(* is what the table has.                                                    *)
Judged(s) ==
  /\ status[s] \in Final => born[s] > 0 /\ Told(s)
  /\ \/ entered[s] = FALSE
     \/ entered[s] = TRUE /\ born[s] > 0 /\ \E e \in 1..Len(chart) : Seen(s, e)
  /\ \A r \in Runs : s \in DOMAIN listed[r] => born[s] > 0 /\ listed[r][s] = entered[s]

(* The invariant behind OutcomeIsFirstPassage.                               *)
PassageInv == Undisturbed => Windows /\ \A s \in Signals \ posted : Judged(s)

LEMMA CandleTypes ==
  \A c \in Candle : c.adv \in Nat /\ c.fav \in Nat /\ c.adv <= c.fav
BY DEF Candle, Stop, Target

(* The turns of a walk over the first n candles, from the persisted entry.   *)
Turns(g, s, in, n) ==
  /\ g[born[s]] = Unturned(in)
  /\ \A i \in (born[s] + 1)..n : g[i] = Turn(s, g[i - 1], i, chart[i])

LEMMA WalkTurns ==
  ASSUME ChartTypes, NEW s \in Signals, born[s] > 0, NEW in,
         NEW w \in [from : Nat, candles : Seq(Candle)], Prefix(w)
  PROVE  \E g : /\ Turns(g, s, in, Len(w.candles))
                /\ Walk(s, in, w) = g[Len(w.candles)]
<1>1. /\ FirstTurn(s, w) = born[s] + 1 /\ born[s] \in Nat
      /\ FirstTurn(s, w) \in Nat /\ FirstTurn(s, w) > 0
  BY DEF FirstTurn, Prefix, ChartTypes
<1> DEFINE g == CHOOSE g : WalkEq(g, s, in, w)
<1>2. WalkEq(g, s, in, w) BY <1>1, WalkExists
<1>3. Walk(s, in, w) = g[Len(w.candles)] BY WalkUnfolds
<1> HIDE DEF g
<1>4. \A i \in Nat : g[i] = IF i < born[s] + 1 THEN Unturned(in)
                            ELSE Turn(s, g[i - 1], i, w.candles[i])
  BY <1>1, <1>2 DEF WalkEq
<1>5. g[born[s]] = Unturned(in) BY <1>1, <1>4
<1>6. ASSUME NEW i \in (born[s] + 1)..Len(w.candles)
      PROVE  g[i] = Turn(s, g[i - 1], i, chart[i])
  <2>1. i \in Nat /\ ~(i < born[s] + 1) /\ i \in 1..Len(w.candles) BY <1>1
  <2>2. w.candles[i] = chart[i] BY <2>1 DEF Prefix
  <2> QED BY <2>1, <2>2, <1>4
<1> QED BY <1>3, <1>5, <1>6 DEF Turns

(* Before an entry nothing happens, until it is too late for one.           *)
LEMMA WaitsForEntry ==
  ASSUME ChartTypes, NEW s \in Signals, NEW n \in Nat, n <= Len(chart),
         NEW g, Turns(g, s, FALSE, n),
         \A j \in (born[s] + 1)..n : j <= Deadline(s) => ~Touches(s, chart[j])
  PROVE  \A i \in born[s]..n :
           g[i] = [in |-> FALSE, tp1 |-> FALSE,
                   result |-> IF i > Deadline(s) THEN "MISSED_ENTRY" ELSE "OPEN"]
<1> DEFINE Says(i) == [in |-> FALSE, tp1 |-> FALSE,
                       result |-> IF i > Deadline(s) THEN "MISSED_ENTRY" ELSE "OPEN"]
           bad == {i \in born[s]..n : g[i] # Says(i)}
<1>t. born[s] \in Nat /\ Deadline(s) \in Nat /\ ~(born[s] > Deadline(s))
  BY NatAssumption DEF ChartTypes, Deadline
<1>1. ASSUME bad # {} PROVE FALSE
  <2>1. PICK i \in bad : \A k \in bad : i <= k
    <3>1. bad \in SUBSET Nat BY <1>t
    <3> HIDE DEF bad
    <3> QED BY <1>1, <3>1, LeastNatural
  <2>2. i \in born[s]..n /\ i \in Nat /\ g[i] # Says(i) BY <1>t
  <2>3. CASE i = born[s] BY <2>2, <2>3, <1>t DEF Turns, Unturned
  <2>4. CASE i # born[s]
    <3>1. i - 1 \in born[s]..n /\ ~(i <= i - 1) BY <2>2, <2>4, <1>t
    <3>2. i - 1 \notin bad
      <4> HIDE DEF bad
      <4> QED BY <2>1, <3>1
    <3>3. g[i - 1] = Says(i - 1) BY <3>1, <3>2
    <3>4. i \in (born[s] + 1)..n BY <2>2, <2>4, <1>t
    <3>5. g[i] = Turn(s, Says(i - 1), i, chart[i]) BY <3>3, <3>4 DEF Turns
    <3>6. CASE i - 1 > Deadline(s)
      <4>1. i > Deadline(s) BY <3>6, <2>2, <1>t
      <4> QED BY <4>1, <3>5, <3>6, <2>2 DEF Turn
    <3>7. CASE ~(i - 1 > Deadline(s)) /\ i > Deadline(s)
      BY <3>5, <3>7, <2>2 DEF Turn
    <3>8. CASE ~(i > Deadline(s))
      <4>1. i <= Deadline(s) /\ ~(i - 1 > Deadline(s)) BY <3>8, <2>2, <1>t
      <4>2. ~Touches(s, chart[i]) BY <4>1, <3>4
      <4> QED BY <4>1, <4>2, <3>5, <3>8, <2>2 DEF Turn
    <3> QED BY <3>6, <3>7, <3>8
  <2> QED BY <2>3, <2>4
<1> HIDE DEF Says
<1>2. \A i \in born[s]..n : g[i] = Says(i) BY <1>1
<1> QED BY <1>2 DEF Says

(* A persisted entry is never lost.                                         *)
LEMMA EntryStays ==
  ASSUME ChartTypes, NEW s \in Signals, NEW n \in Nat,
         NEW g, Turns(g, s, TRUE, n)
  PROVE  \A i \in born[s]..n : g[i].in = TRUE
<1> DEFINE Kept(i) == g[i].in = TRUE
           bad == {i \in born[s]..n : ~Kept(i)}
<1>t. born[s] \in Nat BY DEF ChartTypes
<1>n. born[s]..n \subseteq Nat BY <1>t
<1>1. ASSUME bad # {} PROVE FALSE
  <2>1. PICK i \in bad : \A k \in bad : i <= k
    <3>1. bad \in SUBSET Nat BY <1>n
    <3> HIDE DEF bad
    <3> QED BY <1>1, <3>1, LeastNatural
  <2>2. i \in born[s]..n /\ i \in Nat /\ ~Kept(i)
    <3> HIDE DEF Kept
    <3> QED BY <1>n
  <2>3. CASE i = born[s] BY <2>2, <2>3 DEF Turns, Unturned
  <2>4. CASE i # born[s]
    <3>1. i - 1 \in born[s]..n /\ ~(i <= i - 1) BY <2>2, <2>4, <1>t
    <3>2. i - 1 \notin bad
      <4> HIDE DEF bad
      <4> QED BY <2>1, <3>1
    <3>3. g[i - 1].in = TRUE BY <3>1, <3>2
    <3>4. i \in (born[s] + 1)..n BY <2>2, <2>4, <1>t
    <3>5. g[i] = Turn(s, g[i - 1], i, chart[i]) BY <3>4 DEF Turns
    <3>6. g[i].in = TRUE BY <3>3, <3>5 DEF Turn
    <3> QED BY <3>6, <2>2
  <2> QED BY <2>3, <2>4
<1> QED BY <1>1

(* From a persisted entry nothing happens either before the entry is seen    *)
(* again, unless a candle tempts.                                           *)
LEMMA WaitsAgain ==
  ASSUME ChartTypes, NEW s \in Signals, NEW e \in Nat, Entering(s, e), ~Tempting(s),
         NEW g, Turns(g, s, TRUE, e)
  PROVE  g[e - 1] = Unturned(TRUE)
<1> DEFINE bad == {i \in born[s]..(e - 1) : g[i] # Unturned(TRUE)}
<1>t. /\ born[s] \in Nat /\ Deadline(s) \in Nat /\ born[s] < e
      /\ e <= Deadline(s) /\ e <= Len(chart) /\ Len(chart) \in Nat
  BY NatAssumption DEF ChartTypes, Deadline, Entering, After
<1>n. born[s]..(e - 1) \subseteq Nat BY <1>t
<1>1. ASSUME bad # {} PROVE FALSE
  <2>1. PICK i \in bad : \A k \in bad : i <= k
    <3>1. bad \in SUBSET Nat BY <1>n
    <3> HIDE DEF bad
    <3> QED BY <1>1, <3>1, LeastNatural
  <2>2. i \in born[s]..(e - 1) /\ i \in Nat /\ g[i] # Unturned(TRUE) BY <1>n
  <2>3. CASE i = born[s] BY <2>2, <2>3 DEF Turns
  <2>4. CASE i # born[s]
    <3>1. i - 1 \in born[s]..(e - 1) /\ ~(i <= i - 1) BY <2>2, <2>4, <1>t
    <3>2. i - 1 \notin bad
      <4> HIDE DEF bad
      <4> QED BY <2>1, <3>1
    <3>3. g[i - 1] = Unturned(TRUE) BY <3>1, <3>2
    <3>4. i \in (born[s] + 1)..e BY <2>2, <2>4, <1>t
    <3>5. g[i] = Turn(s, Unturned(TRUE), i, chart[i]) BY <3>3, <3>4 DEF Turns
    <3>6. i \in After(s) /\ i < e /\ ~(i > Deadline(s)) BY <2>2, <2>4, <1>t DEF After
    <3>7. \A j \in Entries(s) : i < j
      <4> SUFFICES ASSUME NEW j \in Entries(s) PROVE i < j OBVIOUS
      <4>1. j \in After(s) /\ j \in Nat /\ Touches(s, chart[j]) BY <1>t DEF Entries, After
      <4>2. ~(j < e) BY <4>1 DEF Entering
      <4> QED BY <4>1, <4>2, <3>6, <2>2
    <3>8. ~(chart[i].fav >= Tp1) /\ ~(chart[i].adv <= Stop)
      BY <3>6, <3>7 DEF Tempting
    <3>9. ~(chart[i].fav >= Target)
      <4>1. i \in 1..Len(chart) BY <3>6, <1>t, <2>2 DEF After
      <4>2. chart[i].fav \in Nat BY <4>1, CandleTypes DEF ChartTypes
      <4> QED BY <3>8, <4>2 DEF Tp1, Target
    <3>10. g[i] = Unturned(TRUE)
      BY <3>5, <3>6, <3>8, <3>9 DEF Turn, Unturned, Close
    <3> QED BY <3>10, <2>2
  <2> QED BY <2>3, <2>4
<1>2. e - 1 \in born[s]..(e - 1) BY <1>t
<1> QED BY <1>1, <1>2

LEMMA CloseSays ==
  ASSUME NEW s, NEW i, NEW tp1 \in BOOLEAN
  PROVE  LET new == Close(chart[i], tp1, i > Deadline(s))
         IN  /\ Ends(s, i) => new \in Final
             /\ ~Ends(s, i) => new = "OPEN"
BY DEF Close, Ends, Final

(* What a walk g holds at candle i of a trade entered at e: the trade is     *)
(* still open, or it ended at some x as the chart says.                      *)
Follows(s, g, e, i) ==
  \/ /\ \A j \in e..i : ~Ends(s, j)
     /\ g[i] = [in |-> TRUE, tp1 |-> Reached(e, i), result |-> "OPEN"]
  \/ \E x \in e..i :
       /\ Leaving(s, e, x)
       /\ g[i] = [in |-> TRUE, tp1 |-> Reached(e, x), result |-> Ending(s, e, x)]

(* From its entry a trade is open until the candle that ends it.            *)
LEMMA FollowsTrade ==
  ASSUME ChartTypes, NEW s \in Signals, NEW n \in Nat, n <= Len(chart),
         NEW e \in Nat, Entering(s, e), e <= n,
         NEW in, NEW g, Turns(g, s, in, n), g[e - 1] = Unturned(in)
  PROVE  \A i \in e..n : Follows(s, g, e, i)
<1> DEFINE OpenAt(i) == /\ \A j \in e..i : ~Ends(s, j)
                        /\ g[i] = [in |-> TRUE, tp1 |-> Reached(e, i), result |-> "OPEN"]
           OverAt(i) == \E x \in e..i :
             /\ Leaving(s, e, x)
             /\ g[i] = [in |-> TRUE, tp1 |-> Reached(e, x), result |-> Ending(s, e, x)]
           bad == {i \in e..n : ~(OpenAt(i) \/ OverAt(i))}
<1>t. /\ born[s] \in Nat /\ Deadline(s) \in Nat /\ born[s] < e /\ Len(chart) \in Nat
      /\ ~(e > Deadline(s)) /\ Touches(s, chart[e])
  BY NatAssumption DEF ChartTypes, Deadline, Entering, After
<1>n. e..n \subseteq Nat /\ \A i \in e..n : i \in (born[s] + 1)..n BY <1>t
<1>r. \A i \in e..n : Reached(e, i) \in BOOLEAN BY DEF Reached
(* A turn of an open trade.                                                 *)
<1>o. ASSUME NEW i \in e..n, \A j \in e..n : j < i => ~Ends(s, j),
             g[i] = [in |-> TRUE, tp1 |-> Reached(e, i),
                     result |-> Close(chart[i], Reached(e, i), i > Deadline(s))]
      PROVE  OpenAt(i) \/ OverAt(i)
  <2>1. i \in Nat /\ i \in e..i /\ i \in e..Len(chart) BY <1>n, <1>t
  <2>2. CASE Ends(s, i)
    <3>1. Leaving(s, e, i)
      <4> SUFFICES ASSUME NEW j \in e..Len(chart), j < i PROVE ~Ends(s, j)
        BY <2>1, <2>2 DEF Leaving
      <4>1. j \in e..n BY <2>1, <1>t
      <4> QED BY <4>1, <1>o
    <3>2. g[i] = [in |-> TRUE, tp1 |-> Reached(e, i), result |-> Ending(s, e, i)]
      BY <1>o DEF Ending
    <3> QED BY <2>1, <3>1, <3>2
  <2>3. CASE ~Ends(s, i)
    <3>1. Close(chart[i], Reached(e, i), i > Deadline(s)) = "OPEN"
      BY <2>3, <1>r, CloseSays
    <3>2. \A j \in e..i : ~Ends(s, j)
      <4> SUFFICES ASSUME NEW j \in e..i, j # i PROVE ~Ends(s, j) BY <2>3
      <4>1. j \in e..n /\ j < i BY <2>1
      <4> QED BY <4>1, <1>o
    <3> QED BY <3>1, <3>2, <1>o
  <2> QED BY <2>2, <2>3
<1>1. ASSUME bad # {} PROVE FALSE
  <2>1. PICK i \in bad : \A k \in bad : i <= k
    <3>1. bad \in SUBSET Nat BY <1>n
    <3> HIDE DEF bad
    <3> QED BY <1>1, <3>1, LeastNatural
  <2>2. i \in e..n /\ i \in Nat /\ ~(OpenAt(i) \/ OverAt(i))
    <3> HIDE DEF OpenAt, OverAt
    <3> QED BY <1>n
  <2>3. g[i] = Turn(s, g[i - 1], i, chart[i])
    <3>1. i \in (born[s] + 1)..n BY <1>n, <2>2
    <3> QED BY <3>1 DEF Turns
  <2>4. CASE i = e
    <3>1. (FALSE \/ chart[e].fav >= Tp1) = Reached(e, e)
      <4>1. e..e = {e} OBVIOUS
      <4> QED BY <4>1 DEF Reached
    <3>2. g[e] = [in |-> TRUE, tp1 |-> Reached(e, e),
                  result |-> Close(chart[e], Reached(e, e), e > Deadline(s))]
      <4>1. g[e] = Turn(s, Unturned(in), e, chart[e]) BY <2>3, <2>4
      <4>2. Unturned(in).result = "OPEN" /\ Unturned(in).tp1 = FALSE BY DEF Unturned
      <4>3. Turn(s, Unturned(in), e, chart[e])
              = [in |-> TRUE, tp1 |-> Unturned(in).tp1 \/ chart[e].fav >= Tp1,
                 result |-> Close(chart[e], Unturned(in).tp1 \/ chart[e].fav >= Tp1,
                                  e > Deadline(s))]
        BY <4>2, <1>t DEF Turn
      <4> QED BY <4>1, <4>2, <4>3, <3>1
    <3>3. \A j \in e..n : ~(j < e) OBVIOUS
    <3> HIDE DEF OpenAt, OverAt
    <3> QED BY <3>2, <3>3, <2>2, <2>4, <1>o
  <2>5. CASE i # e
    <3>1. i - 1 \in e..n /\ ~(i <= i - 1) BY <2>2, <2>5
    <3>2. i - 1 \notin bad
      <4> HIDE DEF bad
      <4> QED BY <2>1, <3>1
    <3>3. OpenAt(i - 1) \/ OverAt(i - 1)
      <4> HIDE DEF OpenAt, OverAt
      <4> QED BY <3>1, <3>2
    <3>4. CASE OpenAt(i - 1)
      <4>1. (Reached(e, i - 1) \/ chart[i].fav >= Tp1) = Reached(e, i)
        <5>1. e..i = (e..(i - 1)) \cup {i} BY <2>2
        <5> QED BY <5>1 DEF Reached
      <4>2. g[i] = [in |-> TRUE, tp1 |-> Reached(e, i),
                    result |-> Close(chart[i], Reached(e, i), i > Deadline(s))]
        <5>1. /\ g[i - 1].result = "OPEN" /\ g[i - 1].in = TRUE
              /\ g[i - 1].tp1 = Reached(e, i - 1)
          BY <3>4
        <5>2. Turn(s, g[i - 1], i, chart[i])
                = [in |-> TRUE, tp1 |-> g[i - 1].tp1 \/ chart[i].fav >= Tp1,
                   result |-> Close(chart[i], g[i - 1].tp1 \/ chart[i].fav >= Tp1,
                                    i > Deadline(s))]
          BY <5>1 DEF Turn
        <5> QED BY <2>3, <5>1, <5>2, <4>1
      <4>3. \A j \in e..n : j < i => ~Ends(s, j)
        <5> SUFFICES ASSUME NEW j \in e..n, j < i PROVE ~Ends(s, j) OBVIOUS
        <5>1. j \in e..(i - 1) BY <2>2
        <5> QED BY <5>1, <3>4
      <4> HIDE DEF OpenAt, OverAt
      <4> QED BY <4>2, <4>3, <2>2, <1>o
    <3>5. CASE OverAt(i - 1)
      <4>1. PICK x \in e..(i - 1) :
              /\ Leaving(s, e, x)
              /\ g[i - 1] = [in |-> TRUE, tp1 |-> Reached(e, x), result |-> Ending(s, e, x)]
        BY <3>5
      <4>2. Ending(s, e, x) # "OPEN"
        <5>1. Ends(s, x) /\ Reached(e, x) \in BOOLEAN BY <4>1 DEF Leaving, Reached
        <5> QED BY <5>1, CloseSays DEF Ending, Final
      <4>3. g[i] = g[i - 1] BY <2>3, <4>1, <4>2 DEF Turn
      <4>4. x \in e..i BY <2>2
      <4> QED BY <4>1, <4>3, <4>4, <2>2
    <3> QED BY <3>3, <3>4, <3>5
  <2> QED BY <2>4, <2>5
<1> HIDE DEF OpenAt, OverAt
<1>2. \A i \in e..n : OpenAt(i) \/ OverAt(i) BY <1>1
<1> QED BY <1>2 DEF OpenAt, OverAt, Follows

(* What validate says of a window of the chart, from what is persisted.     *)
LEMMA ValidateSays ==
  ASSUME ChartTypes, NEW s \in Signals, born[s] > 0,
         NEW w \in [from : Nat, candles : Seq(Candle)], Prefix(w), NEW in \in BOOLEAN,
         in = TRUE => \E e \in 1..Len(chart) : Entering(s, e) /\ e <= Len(w.candles)
  PROVE  LET new == Validate(s, in, w)
         IN  /\ new.in \in BOOLEAN
             /\ new.in = TRUE => \E e \in 1..Len(chart) : Entering(s, e) /\ e <= Len(w.candles)
             /\ new.status \in Final =>
                  \/ Tempting(s)
                  \/ /\ new.status = "MISSED_ENTRY" /\ Deadline(s) < Len(chart)
                     /\ \A j \in After(s) : j <= Deadline(s) => ~Touches(s, chart[j])
                  \/ \E e, x \in 1..Len(chart) :
                       Entering(s, e) /\ Leaving(s, e, x) /\ new.status = Ending(s, e, x)
<1> DEFINE n == Len(w.candles)
           new == Validate(s, in, w)
           end == Walk(s, in, w)
           Entered == \E e \in 1..Len(chart) : Entering(s, e) /\ e <= n
           Missed == /\ Deadline(s) < Len(chart)
                     /\ \A j \in After(s) : j <= Deadline(s) => ~Touches(s, chart[j])
           Ended(r) == \E e, x \in 1..Len(chart) :
                         Entering(s, e) /\ Leaving(s, e, x) /\ r = Ending(s, e, x)
           Goal == /\ new.in \in BOOLEAN
                   /\ new.in = TRUE => Entered
                   /\ new.status \in Final => \/ Tempting(s)
                                              \/ new.status = "MISSED_ENTRY" /\ Missed
                                              \/ Ended(new.status)
<1> SUFFICES Goal OBVIOUS
<1>t. /\ born[s] \in Nat /\ Deadline(s) \in Nat /\ n \in Nat /\ Len(chart) \in Nat
      /\ n <= Len(chart)
  BY NatAssumption DEF ChartTypes, Deadline, Prefix
<1>e. in = TRUE => Entered OBVIOUS
<1>a. ChartTypes OBVIOUS
<1>1. CASE n <= born[s]
  <2>1. new = [status |-> "PENDING", in |-> FALSE] BY <1>1 DEF Validate
  <2> QED BY <2>1 DEF Final
<1>2. CASE ~(n <= born[s])
  <2>1. PICK g : Turns(g, s, in, n) /\ end = g[n] BY WalkTurns
  <2> HIDE DEF n, Entered, Missed, Ended
  <2>2. /\ end.result # "OPEN" => new = [status |-> end.result, in |-> end.in]
        /\ end.result = "OPEN" =>
             new = [status |-> IF end.in THEN "ENTRY_TRIGGERED" ELSE "WAITING_FOR_ENTRY",
                    in |-> end.in]
    BY <1>2 DEF Validate, n
  <2> HIDE DEF new, end
  <2>3. \A r : r = "ENTRY_TRIGGERED" \/ r = "WAITING_FOR_ENTRY" => r \notin Final
    BY DEF Final
  <2>4. ASSUME NEW e \in Nat, Entering(s, e), e <= n, g[e - 1] = Unturned(in)
        PROVE  Goal
    <3>1. n \in e..n BY <1>t, <2>4
    <3>n. n \in Nat /\ n <= Len(chart) /\ Turns(g, s, in, n) BY <1>t, <2>1
    <3>2. \/ g[n] = [in |-> TRUE, tp1 |-> Reached(e, n), result |-> "OPEN"]
          \/ \E x \in e..n : /\ Leaving(s, e, x)
                             /\ g[n] = [in |-> TRUE, tp1 |-> Reached(e, x),
                                        result |-> Ending(s, e, x)]
      <4>1. \A i \in e..n : Follows(s, g, e, i)
        BY ONLY <1>a, <3>n, <2>4, FollowsTrade, s \in Signals, e \in Nat
      <4> QED BY <3>1, <4>1 DEF Follows
    <3>3. e \in 1..Len(chart) BY <2>4, <1>t DEF Entering, After
    <3>4. Entered BY <3>3, <2>4 DEF Entered
    <3>5. CASE g[n] = [in |-> TRUE, tp1 |-> Reached(e, n), result |-> "OPEN"]
      <4>1. end.in = TRUE /\ end.result = "OPEN" BY <2>1, <3>5
      <4>2. new = [status |-> "ENTRY_TRIGGERED", in |-> TRUE] BY <4>1, <2>2
      <4>3. new.status = "ENTRY_TRIGGERED" /\ new.in = TRUE BY <4>2
      <4> QED BY <4>3, <2>3, <3>4
    <3>6. CASE \E x \in e..n : /\ Leaving(s, e, x)
                               /\ g[n] = [in |-> TRUE, tp1 |-> Reached(e, x),
                                          result |-> Ending(s, e, x)]
      <4>1. PICK x \in e..n : /\ Leaving(s, e, x)
                              /\ g[n] = [in |-> TRUE, tp1 |-> Reached(e, x),
                                         result |-> Ending(s, e, x)]
        BY <3>6
      <4>2. end.in = TRUE /\ end.result = Ending(s, e, x) BY <2>1, <4>1
      <4>3. Ending(s, e, x) # "OPEN"
        <5>1. Ends(s, x) /\ Reached(e, x) \in BOOLEAN BY <4>1 DEF Leaving, Reached
        <5> QED BY <5>1, CloseSays DEF Ending, Final
      <4>4. new = [status |-> Ending(s, e, x), in |-> TRUE] BY <4>2, <4>3, <2>2
      <4>5. x \in 1..Len(chart) BY <4>1, <3>3, <1>t
      <4>6. Ended(new.status) BY <4>1, <4>4, <4>5, <3>3, <2>4 DEF Ended
      <4> QED BY <4>4, <4>6, <3>4
    <3> QED BY <3>2, <3>5, <3>6
  <2>5. CASE in = TRUE
    <3>1. PICK e \in 1..Len(chart) : Entering(s, e) /\ e <= n BY <1>e, <2>5 DEF Entered
    <3>2. CASE Tempting(s)
      <4>1. end.in = TRUE
        <5>1. Turns(g, s, TRUE, n) BY <2>1, <2>5
        <5>n. n \in born[s]..n BY <1>t, <1>2
        <5>2. \A i \in born[s]..n : g[i].in = TRUE
          BY ONLY <1>a, <1>t, <5>1, EntryStays, s \in Signals
        <5> QED BY <5>n, <5>2, <2>1
      <4>2. new.in = TRUE BY <4>1, <2>2
      <4> QED BY <4>2, <3>2, <1>e, <2>5
    <3>3. CASE ~Tempting(s)
      <4>1. Turns(g, s, TRUE, e) /\ e \in Nat BY <2>1, <2>5, <3>1, <1>t DEF Turns
      <4>2. g[e - 1] = Unturned(TRUE)
        BY ONLY <1>a, <4>1, <3>1, <3>3, WaitsAgain, s \in Signals
      <4> QED BY <4>1, <4>2, <3>1, <2>4, <2>5
    <3> QED BY <3>2, <3>3
  <2>6. CASE in = FALSE /\ \E j \in (born[s] + 1)..n : j <= Deadline(s) /\ Touches(s, chart[j])
    <3> DEFINE entries == {j \in (born[s] + 1)..n : j <= Deadline(s) /\ Touches(s, chart[j])}
    <3>1. PICK e \in entries : \A j \in entries : e <= j
      <4>1. entries \in SUBSET Nat /\ entries # {} BY <1>t, <2>6
      <4> HIDE DEF entries
      <4> QED BY <4>1, LeastNatural
    <3>2. e \in Nat /\ e <= n /\ born[s] < e /\ e <= Deadline(s) /\ Touches(s, chart[e])
      BY <3>1, <1>t
    <3>3. ASSUME NEW j \in Nat, born[s] < j, j < e PROVE ~Touches(s, chart[j])
      <4>1. j \in (born[s] + 1)..n /\ j <= Deadline(s) /\ ~(e <= j) BY <3>2, <3>3, <1>t
      <4>2. j \notin entries
        <5> HIDE DEF entries
        <5> QED BY <3>1, <4>1
      <4> QED BY <4>1, <4>2
    <3>4. Entering(s, e)
      <4>1. e \in After(s) BY <3>2, <1>t DEF After
      <4>2. \A j \in After(s) : j \in Nat /\ born[s] < j BY <1>t DEF After
      <4> QED BY <3>2, <3>3, <4>1, <4>2 DEF Entering
    <3>5. g[e - 1] = Unturned(in)
      <4>1. Turns(g, s, FALSE, e - 1) /\ e - 1 \in Nat /\ e - 1 <= Len(chart)
        <5>1. Turns(g, s, FALSE, n) BY <2>1, <2>6
        <5>2. \A i \in (born[s] + 1)..(e - 1) : i \in (born[s] + 1)..n BY <3>2, <1>t
        <5>3. Turns(g, s, FALSE, e - 1) BY <5>1, <5>2 DEF Turns
        <5>4. e - 1 \in Nat /\ e - 1 <= Len(chart) BY <3>2, <1>t
        <5> QED BY <5>3, <5>4
      <4>2. \A j \in (born[s] + 1)..(e - 1) : j <= Deadline(s) => ~Touches(s, chart[j])
        BY <3>2, <3>3, <1>t
      <4>3. e - 1 \in born[s]..(e - 1) /\ ~(e - 1 > Deadline(s)) BY <3>2, <1>t
      <4>4. \A i \in born[s]..(e - 1) :
              g[i] = [in |-> FALSE, tp1 |-> FALSE,
                      result |-> IF i > Deadline(s) THEN "MISSED_ENTRY" ELSE "OPEN"]
        BY ONLY <1>a, <4>1, <4>2, WaitsForEntry, s \in Signals
      <4>5. g[e - 1] = Unturned(FALSE) BY <4>3, <4>4 DEF Unturned
      <4> QED BY <4>5, <2>6
    <3> HIDE DEF entries
    <3> QED BY <3>2, <3>4, <3>5, <2>4
  <2>7. CASE in = FALSE /\ \A j \in (born[s] + 1)..n : j <= Deadline(s) => ~Touches(s, chart[j])
    <3>1. Turns(g, s, FALSE, n) BY <2>1, <2>7
    <3>2. n \in born[s]..n BY <1>t, <1>2
    <3>3. g[n] = [in |-> FALSE, tp1 |-> FALSE,
                  result |-> IF n > Deadline(s) THEN "MISSED_ENTRY" ELSE "OPEN"]
      BY <3>1, <3>2, <2>7, <1>t, WaitsForEntry
    <3>4. CASE n > Deadline(s)
      <4>1. new = [status |-> "MISSED_ENTRY", in |-> FALSE]
        BY <3>3, <3>4, <2>1, <2>2
      <4>2. Missed
        <5>1. \A j \in After(s) : j <= Deadline(s) => j \in (born[s] + 1)..n
          BY <1>t, <3>4 DEF After
        <5>2. Deadline(s) < Len(chart) BY <1>t, <3>4
        <5> QED BY <5>1, <5>2, <2>7 DEF Missed
      <4>3. new.status = "MISSED_ENTRY" /\ new.in = FALSE BY <4>1
      <4> QED BY <4>2, <4>3
    <3>5. CASE ~(n > Deadline(s))
      <4>1. end.result = "OPEN" /\ end.in = FALSE BY <3>3, <3>5, <2>1
      <4>2. new = [status |-> "WAITING_FOR_ENTRY", in |-> FALSE] BY <4>1, <2>2
      <4>3. new.status = "WAITING_FOR_ENTRY" /\ new.in = FALSE BY <4>2
      <4> QED BY <4>3, <2>3
    <3> QED BY <3>4, <3>5
  <2> QED BY <2>5, <2>6, <2>7
<1> QED BY <1>1, <1>2, <1>t

(* ... and that is the definition.                                          *)
LEMMA ToldIsPassage ==
  ASSUME ChartTypes, NEW s \in Signals, Told(s)
  PROVE  Tempting(s) \/ status[s] = FirstPassage(s)
<1>t. /\ born[s] \in Nat /\ Deadline(s) \in Nat /\ Len(chart) \in Nat
      /\ After(s) \subseteq Nat
  BY NatAssumption DEF ChartTypes, Deadline, After
<1>l. ASSUME NEW S \in SUBSET Nat, NEW m \in S, \A j \in S : m <= j
      PROVE  Least(S) = m
  <2>1. \A i \in S : (\A j \in S : i <= j) => i = m BY <1>l
  <2>2. \E i \in S : \A j \in S : i <= j BY <1>l
  <2> QED BY <2>1, <2>2 DEF Least
<1>1. CASE /\ status[s] = "MISSED_ENTRY"
           /\ \A j \in After(s) : j <= Deadline(s) => ~Touches(s, chart[j])
  <2>1. Entries(s) = {} BY <1>1 DEF Entries
  <2> QED BY <2>1, <1>1 DEF FirstPassage
<1>2. ASSUME NEW e \in 1..Len(chart), NEW x \in 1..Len(chart),
             Entering(s, e), Leaving(s, e, x), status[s] = Ending(s, e, x)
      PROVE  status[s] = FirstPassage(s)
  <2>1. /\ e \in Nat /\ x \in Nat /\ e <= x /\ Ends(s, x)
        /\ e \in After(s) /\ e <= Deadline(s) /\ Touches(s, chart[e])
        /\ x \in After(s)
    BY <1>2, <1>t DEF Entering, Leaving, After
  <2>2. Least(Entries(s)) = e
    <3>1. e \in Entries(s) BY <2>1 DEF Entries
    <3>2. \A j \in Entries(s) : j \in Nat /\ e <= j
      BY <1>2, <1>t, <2>1 DEF Entries, Entering
    <3> QED BY <1>l, <3>1, <3>2
  <2>3. Entries(s) # {} BY <2>1 DEF Entries
  <2>4. Least(Exits(s)) = x
    <3>1. x \in Exits(s) BY <2>1, <2>2 DEF Exits, Ends
    <3>2. ASSUME NEW j \in Exits(s) PROVE j \in Nat /\ x <= j
      <4>1. j \in After(s) /\ j \in Nat /\ e <= j /\ Ends(s, j)
        BY <1>t, <2>2 DEF Exits, Ends
      <4>2. j \in e..Len(chart) BY <4>1, <1>t, <2>1 DEF After
      <4>3. ~(j < x) BY <4>1, <4>2, <1>2 DEF Leaving
      <4> QED BY <4>1, <4>3, <2>1
    <3> QED BY <1>l, <3>1, <3>2
  <2>5. Exits(s) # {} BY <2>1, <2>2 DEF Exits, Ends
  <2>6. x \in 1..Len(chart) /\ chart[x].fav \in Nat /\ chart[x].adv \in Nat
    BY <1>2, CandleTypes DEF ChartTypes
  <2> DEFINE tp1 == \E i \in e..x : chart[i].fav >= Tp1
  <2>7. FirstPassage(s) =
          IF chart[x].adv <= Stop
            THEN IF tp1 /\ chart[x].fav < Tp1 THEN "PARTIAL_TP" ELSE "LOSS"
          ELSE IF chart[x].fav >= Target THEN "WIN"
          ELSE IF tp1 THEN "PARTIAL_TP" ELSE "EXPIRED"
    BY <2>2, <2>3, <2>4, <2>5 DEF FirstPassage
  <2>8. Ending(s, e, x) = Close(chart[x], tp1, x > Deadline(s))
    BY DEF Ending, Reached
  <2>9. tp1 \in BOOLEAN OBVIOUS
  <2> HIDE DEF tp1
  <2>10. (chart[x].fav >= Tp1) <=> ~(chart[x].fav < Tp1) BY <2>6 DEF Tp1
  <2>11. CASE chart[x].adv <= Stop
    <3>1. Close(chart[x], tp1, x > Deadline(s)) =
            IF chart[x].fav >= Tp1 THEN "LOSS" ELSE IF tp1 THEN "PARTIAL_TP" ELSE "LOSS"
      <4>1. CASE tp1 = TRUE BY <4>1, <2>11 DEF Close
      <4>2. CASE tp1 = FALSE BY <4>2, <2>11 DEF Close
      <4> QED BY <4>1, <4>2, <2>9
    <3>2. FirstPassage(s) =
            IF tp1 /\ chart[x].fav < Tp1 THEN "PARTIAL_TP" ELSE "LOSS"
      BY <2>7, <2>11
    <3> QED BY <3>1, <3>2, <1>2, <2>8, <2>9, <2>10
  <2>12. CASE ~(chart[x].adv <= Stop)
    <3>1. chart[x].fav >= Target \/ x > Deadline(s) BY <2>1, <2>12 DEF Ends
    <3>2. Close(chart[x], tp1, x > Deadline(s)) =
            IF chart[x].fav >= Target THEN "WIN" ELSE IF tp1 THEN "PARTIAL_TP" ELSE "EXPIRED"
      <4>1. CASE tp1 = TRUE BY <4>1, <2>12, <3>1 DEF Close
      <4>2. CASE tp1 = FALSE BY <4>2, <2>12, <3>1 DEF Close
      <4> QED BY <4>1, <4>2, <2>9
    <3>3. FirstPassage(s) =
            IF chart[x].fav >= Target THEN "WIN" ELSE IF tp1 THEN "PARTIAL_TP" ELSE "EXPIRED"
      BY <2>7, <2>12
    <3> QED BY <3>2, <3>3, <1>2, <2>8
  <2> QED BY <2>11, <2>12
<1> QED BY <1>1, <1>2 DEF Told

LEMMA TypesInit == Init => ChartTypes
BY DEF Init, ChartTypes, NoWindow

LEMMA TypesStep == ChartTypes /\ [Next]_vars => ChartTypes'
<1> SUFFICES ASSUME ChartTypes, [Next]_vars PROVE ChartTypes'
  OBVIOUS
<1> USE DEF marketVars, ledgerVars, actorVars, historyVars
<1>w. NoWindow \in [from : Nat, candles : Seq(Candle)] BY DEF NoWindow
<1>t. /\ chart \in Seq(Candle) /\ oldest \in Nat /\ changed \in Nat
      /\ born \in [Signals -> Nat] /\ entered = [s \in Signals |-> entered[s]]
      /\ window \in [Runs -> [from : Nat, candles : Seq(Candle)]]
  BY DEF ChartTypes
<1>1. ASSUME NEW r \in Runs, Start(r) PROVE ChartTypes'
  BY <1>1, <1>t DEF Start, ChartTypes
<1>2. ASSUME NEW r \in Runs, Finish(r) PROVE ChartTypes'
  BY <1>2, <1>t, <1>w DEF Finish, ChartTypes
<1>3. ASSUME NEW r \in Runs, NEW s \in Signals, Recommend(r, s) PROVE ChartTypes'
  <2>1. Len(window[r].candles) \in Nat BY <1>t
  <2>2. born' \in [Signals -> Nat] BY <1>3, <2>1, <1>t DEF Recommend
  <2> QED BY <1>3, <2>2, <1>t DEF Recommend, ChartTypes
<1>4. ASSUME NEW r \in Runs, NEW s \in Signals, NEW ok \in BOOLEAN, Judge(r, s, ok)
      PROVE  ChartTypes'
  <2>1. \E in : entered' = [entered EXCEPT ![s] = in] \/ entered' = entered
    BY <1>4 DEF Judge, Update
  <2>2. entered' = [x \in Signals |-> entered'[x]] BY <2>1, <1>t
  <2>3. UNCHANGED <<chart, oldest, changed, born, window>> BY <1>4 DEF Judge
  <2> QED BY <2>2, <2>3, <1>t DEF ChartTypes
<1>5. ASSUME NEW p \in Posters, NEW ok \in BOOLEAN, PostUpdate(p, ok) PROVE ChartTypes'
  <2>1. entered' = [entered EXCEPT ![sub[p]] = TRUE] \/ entered' = entered
    BY <1>5 DEF PostUpdate, Update
  <2>2. entered' = [x \in Signals |-> entered'[x]] BY <2>1, <1>t
  <2>3. UNCHANGED <<chart, oldest, changed, born, window>> BY <1>5 DEF PostUpdate
  <2> QED BY <2>2, <2>3, <1>t DEF ChartTypes
<1>6. ASSUME NEW c \in Shapes, NewCandle(c) PROVE ChartTypes'
  <2>1. c \in Candle BY SetAssumption
  <2>2. chart' \in Seq(Candle) BY <1>6, <2>1, <1>t DEF NewCandle
  <2> QED BY <1>6, <2>2, <1>t DEF NewCandle, ChartTypes
<1>7. ASSUME NEW c \in Shapes, Widen(c) PROVE ChartTypes'
  <2>1. c \in Candle BY SetAssumption
  <2>2. chart' \in Seq(Candle) BY <1>7, <2>1, <1>t DEF Widen
  <2> QED BY <1>7, <2>2, <1>t DEF Widen, ChartTypes
<1>8. CASE Forget
  <2>1. oldest' \in Nat BY <1>8, <1>t DEF Forget
  <2> QED BY <1>8, <2>1, <1>t DEF Forget, ChartTypes
<1>9. CASE Crash
  <2>1. window' \in [Runs -> [from : Nat, candles : Seq(Candle)]]
    BY <1>9, <1>w DEF Crash
  <2> QED BY <1>9, <2>1, <1>t DEF Crash, ChartTypes
<1>10. ASSUME UNCHANGED <<chart, oldest, changed, born, entered, window>> PROVE ChartTypes'
  BY <1>10, <1>t DEF ChartTypes
<1>11. ASSUME NEW r \in Runs, Hold(r) \/ List(r) \/ Count(r) \/ \E ok \in BOOLEAN : Save(r, ok)
       PROVE  ChartTypes'
  BY <1>11, <1>10 DEF Hold, List, Enlist, Count, Save
<1>12. ASSUME NEW p \in Posters,
              \/ PostCount(p)
              \/ \E s \in Signals, o \in Posts, ok \in BOOLEAN : PostSave(p, s, o, ok)
       PROVE  ChartTypes'
  BY <1>12, <1>10 DEF PostCount, PostSave
<1>13. CASE UNCHANGED vars BY <1>13, <1>10 DEF vars
<1> QED
  BY <1>1, <1>2, <1>3, <1>4, <1>5, <1>6, <1>7, <1>8, <1>9, <1>11, <1>12, <1>13
     DEF Next, RunStep, PostStep

(* What a chart says of a trade it goes on saying when it grows.            *)
LEMMA ChartGrows ==
  ASSUME ChartTypes, NEW s \in Signals, NEW c, chart' = Append(chart, c), born' = born
  PROVE  /\ \A e : Entering(s, e) => Entering(s, e)'
         /\ Told(s) /\ status'[s] = status[s] => Told(s)'
<1>t. /\ Len(chart) \in Nat /\ Len(chart') = Len(chart) + 1
      /\ \A i \in 1..Len(chart) : chart'[i] = chart[i]
      /\ born[s] \in Nat /\ Deadline(s) \in Nat /\ Deadline(s)' = Deadline(s)
  BY NatAssumption DEF ChartTypes, Deadline
<1>a. /\ After(s) \subseteq 1..Len(chart) /\ After(s) \subseteq After(s)'
      /\ \A i \in After(s)' : i \in After(s) \/ i = Len(chart) + 1
  BY <1>t DEF After
<1>i. \A i \in 1..Len(chart) : i \in Nat /\ i < Len(chart) + 1 BY <1>t
<1>1. ASSUME NEW e, Entering(s, e) PROVE Entering(s, e)'
  <2>1. e \in After(s) /\ e \in 1..Len(chart) BY <1>1, <1>a DEF Entering
  <2>2. \A j \in After(s)' : j < e => j \in After(s) BY <2>1, <1>a, <1>i
  <2>3. \A j \in After(s) : Touches(s, chart[j]) <=> Touches(s, chart'[j])
    BY <1>t, <1>a
  <2> QED BY <1>1, <2>1, <2>2, <2>3, <1>t, <1>a DEF Entering, Touches
<1>2. Tempting(s) => Tempting(s)'
  <2> SUFFICES ASSUME Tempting(s) PROVE Tempting(s)' OBVIOUS
  <2>1. PICK i \in After(s) : /\ \A j \in Entries(s) : i < j
                              /\ chart[i].fav >= Tp1 \/ chart[i].adv <= Stop
    BY DEF Tempting
  <2>2. ASSUME NEW j \in Entries(s)' PROVE i < j
    <3>1. j \in After(s)' /\ j <= Deadline(s) /\ Touches(s, chart'[j])
      BY <1>t DEF Entries, Touches
    <3>2. CASE j \in After(s)
      <4>1. Touches(s, chart[j]) BY <3>1, <3>2, <1>t, <1>a
      <4> QED BY <4>1, <3>1, <3>2, <2>1 DEF Entries
    <3>3. CASE j = Len(chart) + 1 BY <3>3, <1>a, <1>i
    <3> QED BY <3>1, <3>2, <3>3, <1>a
  <2>3. chart'[i] = chart[i] /\ i \in After(s)' BY <1>t, <1>a
  <2> QED BY <2>1, <2>2, <2>3 DEF Tempting
<1>3. ASSUME Deadline(s) < Len(chart),
             \A j \in After(s) : j <= Deadline(s) => ~Touches(s, chart[j])
      PROVE  /\ Deadline(s)' < Len(chart')
             /\ \A j \in After(s)' : j <= Deadline(s)' => ~Touches(s, chart'[j])
  <2>1. \A j \in After(s)' : j <= Deadline(s) => j \in After(s) /\ chart'[j] = chart[j]
    BY <1>3, <1>t, <1>a
  <2>2. ASSUME NEW j \in After(s)', j <= Deadline(s) PROVE ~Touches(s, chart'[j])
    <3>1. j \in After(s) /\ chart'[j] = chart[j] BY <2>1, <2>2
    <3>2. ~Touches(s, chart[j]) BY <3>1, <1>3, <2>2
    <3> QED BY <3>1, <3>2
  <2>3. Deadline(s)' = Deadline(s) /\ Deadline(s) < Len(chart') BY <1>3, <1>t
  <2>4. \A j \in After(s)' : j <= Deadline(s)' => ~Touches(s, chart'[j])
    <3> SUFFICES ASSUME NEW j \in After(s)', j <= Deadline(s)' PROVE ~Touches(s, chart'[j])
      OBVIOUS
    <3>1. j <= Deadline(s) BY <2>3
    <3> QED BY <2>2, <3>1
  <2> QED BY <2>3, <2>4
<1>4. ASSUME NEW e \in 1..Len(chart), NEW x \in 1..Len(chart),
             Entering(s, e), Leaving(s, e, x), status[s] = Ending(s, e, x), status'[s] = status[s]
      PROVE  Leaving(s, e, x)' /\ status'[s] = Ending(s, e, x)'
  <2>1. e \in Nat /\ x \in Nat /\ e <= x /\ x <= Len(chart) BY <1>4, <1>t DEF Leaving
  <2>2. \A j \in e..Len(chart) : Ends(s, j)' <=> Ends(s, j)
    <3>1. \A j \in e..Len(chart) : chart'[j] = chart[j] BY <1>t, <2>1
    <3> QED BY <3>1, <1>t DEF Ends
  <2>3. \A j \in e..Len(chart') : j < x => j \in e..Len(chart) BY <1>t, <2>1
  <2>4. x \in e..Len(chart) /\ x \in e..Len(chart') BY <2>1, <1>t
  <2>5. Leaving(s, e, x)' BY <1>4, <2>2, <2>3, <2>4 DEF Leaving
  <2>6. Reached(e, x)' = Reached(e, x)
    <3>1. \A j \in e..x : chart'[j] = chart[j] BY <1>t, <2>1
    <3> QED BY <3>1 DEF Reached
  <2>7. Ending(s, e, x)' = Ending(s, e, x) BY <2>6, <1>t DEF Ending
  <2> QED BY <2>5, <2>7, <1>4
<1>5. ASSUME Told(s), status'[s] = status[s] PROVE Told(s)'
  <2>1. CASE Tempting(s) BY <2>1, <1>2 DEF Told
  <2>2. CASE /\ status[s] = "MISSED_ENTRY" /\ Deadline(s) < Len(chart)
             /\ \A j \in After(s) : j <= Deadline(s) => ~Touches(s, chart[j])
    <3>1. \A j \in After(s)' : j <= Deadline(s)' => ~Touches(s, chart'[j]) BY <2>2, <1>3
    <3> QED BY <2>2, <1>3, <1>5, <3>1 DEF Told, Touches
  <2>3. ASSUME NEW e \in 1..Len(chart), NEW x \in 1..Len(chart),
               Entering(s, e), Leaving(s, e, x), status[s] = Ending(s, e, x)
        PROVE  Told(s)'
    <3>1. Entering(s, e)' BY <2>3, <1>1
    <3>2. Leaving(s, e, x)' /\ status'[s] = Ending(s, e, x)' BY <2>3, <1>4, <1>5
    <3>3. e \in 1..Len(chart') /\ x \in 1..Len(chart') BY <1>t
    <3> QED BY <3>1, <3>2, <3>3 DEF Told
  <2> QED BY <2>1, <2>2, <2>3, <1>5 DEF Told
<1> QED BY <1>1, <1>5

(* ... and whatever is done to another trade.                               *)
LEMMA ChartStays ==
  ASSUME NEW s \in Signals, chart' = chart, born'[s] = born[s]
  PROVE  /\ \A e : Entering(s, e)' <=> Entering(s, e)
         /\ \A e, x : Leaving(s, e, x)' <=> Leaving(s, e, x)
         /\ \A e, x : Ending(s, e, x)' = Ending(s, e, x)
         /\ Tempting(s)' <=> Tempting(s)
         /\ Deadline(s)' = Deadline(s) /\ After(s)' = After(s)
         /\ Told(s) /\ status'[s] = status[s] => Told(s)'
<1>1. Deadline(s)' = Deadline(s) /\ After(s)' = After(s) BY DEF Deadline, After
<1>2. \A c : Touches(s, c)' <=> Touches(s, c) BY DEF Touches
<1>3. \A e : Entering(s, e)' <=> Entering(s, e) BY <1>1, <1>2 DEF Entering
<1>4. \A e, x : Leaving(s, e, x)' <=> Leaving(s, e, x) BY <1>1 DEF Leaving, Ends
<1>5. \A e, x : Ending(s, e, x)' = Ending(s, e, x) BY <1>1 DEF Ending, Reached
<1>6. Entries(s)' = Entries(s) BY <1>1, <1>2 DEF Entries
<1>7. Tempting(s)' <=> Tempting(s) BY <1>1, <1>6 DEF Tempting
<1>8. Told(s) /\ status'[s] = status[s] => Told(s)'
  BY <1>1, <1>2, <1>3, <1>4, <1>5, <1>7 DEF Told
<1> QED BY <1>1, <1>3, <1>4, <1>5, <1>7, <1>8

LEMMA PassageInit == Init => PassageInv
<1> SUFFICES ASSUME Init PROVE PassageInv OBVIOUS
<1>1. Windows
  <2>1. \A r \in Runs : Prefix(window[r])
    BY DEF Init, Prefix, NoWindow
  <2> QED BY <2>1 DEF Init, Windows
<1>2. \A s \in Signals : Judged(s)
  BY DEF Init, Judged, Nothing, Final
<1> QED BY <1>1, <1>2 DEF PassageInv

(* A step that leaves the chart and what is said of s alone, whatever other *)
(* actors it moves.                                                         *)
LEMMA JudgedStays ==
  ASSUME ChartTypes, NEW s \in Signals, Judged(s), chart' = chart, born'[s] = born[s],
         status'[s] = status[s], entered'[s] = entered[s],
         \A r \in Runs : \/ Idle(r)'
                         \/ ~Idle(r) /\ window'[r] = window[r]
                         \/ Len(window'[r].candles) = Len(chart),
         \A r \in Runs : s \in DOMAIN listed'[r] =>
           s \in DOMAIN listed[r] /\ listed'[r][s] = listed[r][s]
  PROVE  Judged(s)'
<1>1. status'[s] \in Final => born'[s] > 0 /\ Told(s)'
  BY ChartStays DEF Judged
<1>2. ASSUME entered[s] = TRUE, born[s] > 0, NEW e \in 1..Len(chart), Seen(s, e)
      PROVE  Seen(s, e)'
  <2>1. Entering(s, e)' BY <1>2, ChartStays DEF Seen
  <2>2. e <= Len(chart) BY DEF ChartTypes
  <2>3. ASSUME NEW r \in Runs, ~Idle(r)' PROVE e <= Len(window'[r].candles)
    <3>1. CASE ~Idle(r) /\ window'[r] = window[r] BY <1>2, <3>1 DEF Seen
    <3>2. CASE Len(window'[r].candles) = Len(chart) BY <2>2, <3>2
    <3> QED BY <2>3, <3>1, <3>2
  <2> QED BY <2>1, <2>3 DEF Seen
<1>3. \/ entered'[s] = FALSE
      \/ entered'[s] = TRUE /\ born'[s] > 0 /\ \E e \in 1..Len(chart') : Seen(s, e)'
  <2>1. CASE entered[s] = FALSE BY <2>1
  <2>2. CASE entered[s] = TRUE /\ born[s] > 0 /\ \E e \in 1..Len(chart) : Seen(s, e)
    <3>1. PICK e \in 1..Len(chart) : Seen(s, e) BY <2>2
    <3>2. Seen(s, e)' /\ e \in 1..Len(chart') BY <1>2, <2>2, <3>1
    <3> QED BY <2>2, <3>2
  <2> QED BY <2>1, <2>2 DEF Judged
<1>4. \A r \in Runs : s \in DOMAIN listed'[r] => born'[s] > 0 /\ listed'[r][s] = entered'[s]
  BY DEF Judged
<1> QED BY <1>1, <1>3, <1>4 DEF Judged

(* The verdict of a run that is alone, and is written.                      *)
LEMMA JudgedByRun ==
  ASSUME Shape, AloneInv, ChartTypes, Undisturbed, Windows,
         NEW r \in Runs, NEW s \in Signals, Judge(r, s, TRUE), Judged(s)
  PROVE  Judged(s)'
<1> DEFINE in == listed[r][s]
           w == window[r]
           new == Validate(s, in, w)
<1>1. /\ r \in Actors /\ ~Idle(r) /\ s \in DOMAIN listed[r] /\ born[s] > 0
      /\ listed[r][s] = entered[s]
  BY DEF Judge, Actors, Idle, Judged
<1>2. /\ status'[s] = new.status /\ entered'[s] = new.in
      /\ chart' = chart /\ born' = born /\ window' = window
      /\ \A q \in Runs : listed'[q] = IF q = r
           THEN [x \in DOMAIN listed[r] \ {s} |-> listed[r][x]] ELSE listed[q]
      /\ \A q \in Runs \ {r} : pc'[q] = pc[q]
  <2> HIDE DEF new
  <2>1. /\ Unlist(r, s) /\ Update(s, new.status, new.in, TRUE)
        /\ UNCHANGED <<chart, born, window>>
        /\ Goto(r, "save") \/ UNCHANGED pc
    BY DEF Judge, marketVars, new
  <2>2. status'[s] = new.status /\ entered'[s] = new.in
    BY <2>1 DEF Update, Shape, ChartTypes
  <2>3. \A q \in Runs : listed'[q] = IF q = r
           THEN [x \in DOMAIN listed[r] \ {s} |-> listed[r][x]] ELSE listed[q]
    BY <2>1 DEF Unlist, Shape
  <2>4. \A q \in Runs \ {r} : pc'[q] = pc[q] BY <2>1 DEF Goto, Shape, Actors
  <2> QED BY <2>1, <2>2, <2>3, <2>4
<1>3. \A q \in Runs \ {r} : Idle(q) /\ Idle(q)' /\ DOMAIN listed[q] = {}
  <2>1. \A q \in Runs \ {r} : Idle(q)
    BY <1>1 DEF AloneInv, Undisturbed, Actors
  <2> QED BY <2>1, <1>2 DEF Idle, Shape
<1>4. /\ w \in [from : Nat, candles : Seq(Candle)] /\ Prefix(w) /\ Len(chart) \in Nat
      /\ Len(w.candles) <= Len(chart)
  BY DEF ChartTypes, Windows, Prefix
<1>5. in \in BOOLEAN BY <1>1 DEF Judged
<1>6. in = TRUE => \E e \in 1..Len(chart) : Entering(s, e) /\ e <= Len(w.candles)
  BY <1>1 DEF Judged, Seen
<1>7. /\ new.in \in BOOLEAN
      /\ new.in = TRUE => \E e \in 1..Len(chart) : Entering(s, e) /\ e <= Len(w.candles)
      /\ new.status \in Final =>
           \/ Tempting(s)
           \/ /\ new.status = "MISSED_ENTRY" /\ Deadline(s) < Len(chart)
              /\ \A j \in After(s) : j <= Deadline(s) => ~Touches(s, chart[j])
           \/ \E e, x \in 1..Len(chart) :
                Entering(s, e) /\ Leaving(s, e, x) /\ new.status = Ending(s, e, x)
  <2>a. ChartTypes /\ s \in Signals OBVIOUS
  <2> HIDE DEF in, w
  <2> QED BY ONLY <2>a, <1>1, <1>4, <1>5, <1>6, ValidateSays DEF new
<1> HIDE DEF new, in, w
<1>8. status'[s] \in Final => born'[s] > 0 /\ Told(s)'
  <2>1. \A c : Touches(s, c)' <=> Touches(s, c) BY DEF Touches
  <2>2. ASSUME new.status \in Final PROVE Told(s)'
    <3>1. CASE Tempting(s) BY <3>1, <1>2, ChartStays DEF Told
    <3>2. CASE /\ new.status = "MISSED_ENTRY" /\ Deadline(s) < Len(chart)
               /\ \A j \in After(s) : j <= Deadline(s) => ~Touches(s, chart[j])
      BY <3>2, <1>2, <2>1, ChartStays DEF Told
    <3>3. CASE \E e, x \in 1..Len(chart) :
                 Entering(s, e) /\ Leaving(s, e, x) /\ new.status = Ending(s, e, x)
      BY <3>3, <1>2, ChartStays DEF Told
    <3> QED BY <2>2, <3>1, <3>2, <3>3, <1>7
  <2> QED BY <2>2, <1>1, <1>2
<1>9. ASSUME entered'[s] = TRUE PROVE \E e \in 1..Len(chart') : Seen(s, e)'
  <2>1. PICK e \in 1..Len(chart) : Entering(s, e) /\ e <= Len(w.candles)
    BY <1>7, <1>9, <1>2
  <2>2. Entering(s, e)' BY <2>1, <1>2, ChartStays
  <2>3. \A q \in Runs : ~Idle(q)' => e <= Len(window'[q].candles)
    BY <2>1, <1>2, <1>3 DEF w
  <2> QED BY <2>2, <2>3, <1>2 DEF Seen
<1>10. \/ entered'[s] = FALSE
       \/ entered'[s] = TRUE /\ born'[s] > 0 /\ \E e \in 1..Len(chart') : Seen(s, e)'
  <2>1. entered'[s] \in BOOLEAN BY <1>2, <1>7
  <2> QED BY <2>1, <1>9, <1>1, <1>2
<1>11. \A q \in Runs : s \notin DOMAIN listed'[q] BY <1>2, <1>3
<1> QED BY <1>8, <1>10, <1>11 DEF Judged

LEMMA PassageStep ==
  Shape /\ AloneInv /\ PostInv /\ ChartTypes /\ PassageInv /\ [Next]_vars => PassageInv'
<1> SUFFICES ASSUME Shape, AloneInv, PostInv, ChartTypes, PassageInv, [Next]_vars,
                    Undisturbed'
             PROVE  Windows' /\ \A s \in Signals \ posted' : Judged(s)'
  BY DEF PassageInv
<1> DEFINE Goal == Windows' /\ \A s \in Signals \ posted' : Judged(s)'
<1> USE DEF marketVars, ledgerVars, actorVars, historyVars
<1>t. /\ Len(chart) \in Nat /\ changed \in Nat /\ NatAssumption
      /\ window \in [Runs -> [from : Nat, candles : Seq(Candle)]]
      /\ born \in [Signals -> Nat]
  BY NatAssumption DEF ChartTypes
<1>h. ASSUME Undisturbed
      PROVE  /\ Windows /\ oldest = 1
             /\ \A s \in Signals \ posted : Judged(s)
  BY <1>h DEF PassageInv, Windows
(* The chart and the windows stay, or a window becomes the chart.           *)
<1>w. ASSUME Undisturbed, UNCHANGED <<chart, oldest>>,
             \A s \in Signals : born'[s] <= Len(chart),
             \A r \in Runs : \/ window'[r] = window[r] \/ window'[r] = NoWindow
                             \/ window'[r] = [from |-> oldest, candles |-> chart]
      PROVE  Windows'
  <2>1. ASSUME NEW r \in Runs PROVE Prefix(window[r])'
    <3>1. Prefix(window[r]) BY <1>w, <1>h DEF Windows
    <3>2. CASE window'[r] = window[r] BY <3>1, <3>2, <1>w DEF Prefix
    <3>3. CASE window'[r] = NoWindow BY <3>3, <1>w, <1>t DEF Prefix, NoWindow
    <3>4. CASE window'[r] = [from |-> oldest, candles |-> chart]
      BY <3>4, <1>w, <1>h, <1>t DEF Prefix
    <3> QED BY <1>w, <3>2, <3>3, <3>4
  <2> QED BY <2>1, <1>w, <1>h DEF Windows
<1>b. Undisturbed => \A s \in Signals : born[s] <= Len(chart) BY <1>h DEF Windows
(* A step of the actors that says nothing of a trade.                       *)
<1>k. ASSUME Undisturbed, UNCHANGED <<chart, oldest, born, status, entered>>,
             posted \subseteq posted',
             \A r \in Runs : \/ pc[r] # "idle" /\ window'[r] = window[r]
                             \/ pc'[r] = "idle"
                                  /\ (window'[r] = window[r] \/ window'[r] = NoWindow)
                             \/ window'[r] = [from |-> oldest, candles |-> chart],
             \A r \in Runs : listed'[r] = listed[r] \/ DOMAIN listed'[r] = {}
      PROVE  Goal
  <2>1. Windows' BY <1>k, <1>w, <1>b
  <2>2. ASSUME NEW s \in Signals \ posted' PROVE Judged(s)'
    <3>1. Judged(s) BY <1>k, <1>h
    <3>2. \A r \in Runs : \/ Idle(r)'
                          \/ ~Idle(r) /\ window'[r] = window[r]
                          \/ Len(window'[r].candles) = Len(chart)
      BY <1>k DEF Idle
    <3>3. \A r \in Runs : s \in DOMAIN listed'[r] =>
            s \in DOMAIN listed[r] /\ listed'[r][s] = listed[r][s]
      BY <1>k
    <3> QED BY <1>k, <3>1, <3>2, <3>3, JudgedStays
  <2> QED BY <2>1, <2>2
<1>1. ASSUME NEW r \in Runs, Start(r) PROVE Goal
  <2>1. Undisturbed BY <1>1 DEF Start, NoteStart, Undisturbed
  <2>2. /\ window' = [window EXCEPT ![r] = [from |-> oldest, candles |-> chart]]
        /\ pc' = [pc EXCEPT ![r] = "decide"]
        /\ UNCHANGED <<chart, oldest, born, status, entered, posted, listed>>
    BY <1>1 DEF Start, Goto
  <2>3. \A q \in Runs \ {r} : pc'[q] = pc[q] /\ window'[q] = window[q]
    BY <2>2, <1>t DEF Shape
  <2>4. window'[r] = [from |-> oldest, candles |-> chart] BY <2>2, <1>t
  <2> QED BY <2>1, <2>2, <2>3, <2>4, <1>k
(* A step of a run that keeps its window.                                   *)
<1>r. ASSUME NEW r \in Runs, pc[r] # "idle", UNCHANGED <<chart, oldest, changed, overlap>>,
             UNCHANGED <<born, status, entered, window, listed, posted>>,
             \A a \in Actors \ {r} : pc'[a] = pc[a]
      PROVE  Goal
  <2>1. Undisturbed BY <1>r DEF Undisturbed
  <2>2. \A q \in Runs : pc[q] # "idle" \/ pc'[q] = "idle" BY <1>r DEF Actors
  <2> QED BY <2>1, <2>2, <1>r, <1>k
<1>2. ASSUME NEW r \in Runs, Hold(r) \/ Count(r) \/ \E ok \in BOOLEAN : Save(r, ok)
      PROVE  Goal
  <2>1. /\ pc[r] # "idle" /\ \E point : pc' = [pc EXCEPT ![r] = point]
        /\ UNCHANGED <<chart, oldest, changed, overlap>>
        /\ UNCHANGED <<born, status, entered, window, listed, posted>>
    BY <1>2 DEF Hold, Count, Save, AfterSave, Release, Goto
  <2>2. \A a \in Actors \ {r} : pc'[a] = pc[a] BY <2>1 DEF Shape
  <2> QED BY <2>1, <2>2, <1>r
<1>3. ASSUME NEW r \in Runs, Finish(r) PROVE Goal
  <2>1. /\ pc' = [pc EXCEPT ![r] = "idle"] /\ window' = [window EXCEPT ![r] = NoWindow]
        /\ UNCHANGED <<chart, oldest, changed, overlap>>
        /\ UNCHANGED <<born, status, entered, listed, posted>>
    BY <1>3 DEF Finish, Goto
  <2>2. \A q \in Runs \ {r} : pc'[q] = pc[q] /\ window'[q] = window[q]
    BY <2>1, <1>t DEF Shape
  <2>3. pc'[r] = "idle" /\ window'[r] = NoWindow BY <2>1, <1>t DEF Shape, Actors
  <2>4. Undisturbed BY <2>1 DEF Undisturbed
  <2> QED BY <2>1, <2>2, <2>3, <2>4, <1>k
<1>4. ASSUME NEW r \in Runs, List(r) PROVE Goal
  <2>1. /\ pc[r] = "list" /\ pc' = [pc EXCEPT ![r] = "walk"]
        /\ listed' = [listed EXCEPT ![r] = [s \in Pending |-> entered[s]]]
        /\ UNCHANGED <<chart, oldest, changed, overlap>>
        /\ UNCHANGED <<born, status, entered, window, posted>>
    BY <1>4 DEF List, Enlist, Goto
  <2>2. Undisturbed BY <2>1 DEF Undisturbed
  <2>3. Windows' BY <2>1, <2>2, <1>w, <1>b
  <2>4. ASSUME NEW s \in Signals \ posted' PROVE Judged(s)'
    <3>1. Judged(s) BY <2>1, <2>2, <1>h
    <3>2. \A q \in Runs : pc'[q] # "idle" => pc[q] # "idle" BY <2>1 DEF Shape
    <3>3. \A q \in Runs : s \in DOMAIN listed'[q] => born[s] > 0 /\ listed'[q][s] = entered[s]
      <4>1. \A q \in Runs \ {r} : listed'[q] = listed[q] BY <2>1 DEF Shape
      <4>2. listed'[r] = [x \in Pending |-> entered[x]] BY <2>1 DEF Shape
      <4> QED BY <4>1, <4>2, <3>1 DEF Judged, Pending
    <3>4. ASSUME NEW e \in 1..Len(chart), Seen(s, e) PROVE Seen(s, e)'
      <4>1. Entering(s, e)' BY <3>4, <2>1, ChartStays DEF Seen
      <4> QED BY <4>1, <3>4, <3>2, <2>1 DEF Seen, Idle
    <3>5. status'[s] \in Final => born'[s] > 0 /\ Told(s)'
      BY <3>1, <2>1, ChartStays DEF Judged
    <3>6. \/ entered'[s] = FALSE
          \/ entered'[s] = TRUE /\ born'[s] > 0 /\ \E e \in 1..Len(chart') : Seen(s, e)'
      <4>1. CASE entered[s] = FALSE BY <4>1, <2>1
      <4>2. CASE entered[s] = TRUE /\ born[s] > 0 /\ \E e \in 1..Len(chart) : Seen(s, e)
        <5>1. PICK e \in 1..Len(chart) : Seen(s, e) BY <4>2
        <5>2. Seen(s, e)' /\ e \in 1..Len(chart') BY <3>4, <5>1, <2>1
        <5> QED BY <4>2, <5>2, <2>1
      <4> QED BY <4>1, <4>2, <3>1 DEF Judged
    <3> QED BY <3>3, <3>5, <3>6, <2>1 DEF Judged
  <2> QED BY <2>3, <2>4
<1>5. ASSUME NEW r \in Runs, NEW s \in Signals, Recommend(r, s) PROVE Goal
  <2>1. /\ pc[r] = "decide" /\ pc' = [pc EXCEPT ![r] = "list"]
        /\ born[s] = 0 /\ born' = [born EXCEPT ![s] = Len(window[r].candles)]
        /\ UNCHANGED <<chart, oldest, changed, overlap>>
        /\ UNCHANGED <<status, entered, window, posted, listed>>
    BY <1>5 DEF Recommend, Goto
  <2>2. Undisturbed BY <2>1 DEF Undisturbed
  <2>3. Windows'
    <3>1. Prefix(window[r]) BY <2>2, <1>h DEF Windows
    <3>2. \A x \in Signals : born'[x] = IF x = s THEN Len(window[r].candles) ELSE born[x]
      BY <2>1, <1>t
    <3>3. \A x \in Signals : born'[x] <= Len(chart)
      BY <3>1, <3>2, <2>2, <1>b DEF Prefix
    <3> QED BY <3>3, <2>1, <2>2, <1>w
  <2>4. ASSUME NEW x \in Signals \ posted' PROVE Judged(x)'
    <3>1. Judged(x) BY <2>1, <2>2, <1>h
    <3>2. CASE x # s
      <4>1. born'[x] = born[x] BY <2>1, <3>2, <1>t
      <4>2. \A q \in Runs : Idle(q)' \/ (~Idle(q) /\ window'[q] = window[q])
        BY <2>1 DEF Idle, Shape
      <4> QED BY <3>1, <4>1, <4>2, <2>1, JudgedStays
    <3>3. CASE x = s
      <4>1. /\ ~(born[s] > 0) /\ status[s] \notin Final /\ entered[s] = FALSE
            /\ \A q \in Runs : s \notin DOMAIN listed[q]
        BY <3>1, <3>3, <2>1 DEF Judged
      <4> QED BY <4>1, <3>3, <2>1 DEF Judged
    <3> QED BY <3>2, <3>3
  <2> QED BY <2>3, <2>4
<1>6. ASSUME NEW r \in Runs, NEW s \in Signals, NEW ok \in BOOLEAN, Judge(r, s, ok)
      PROVE  Goal
  <2>1. /\ pc[r] = "walk" /\ Unlist(r, s) /\ s \in DOMAIN listed[r]
        /\ \E outcome, in : Update(s, outcome, in, ok)
        /\ Goto(r, "save") \/ pc' = pc
        /\ UNCHANGED <<chart, oldest, changed, overlap, born, window, posted>>
    BY <1>6 DEF Judge
  <2>2. Undisturbed BY <2>1 DEF Undisturbed
  <2>3. Windows' BY <2>1, <2>2, <1>w, <1>b
  <2>4. \A q \in Runs : Idle(q)' \/ (~Idle(q) /\ window'[q] = window[q])
    BY <2>1 DEF Idle, Goto, Shape, Actors
  <2>5. \A x \in Signals : \A q \in Runs : x \in DOMAIN listed'[q] =>
          x \in DOMAIN listed[q] /\ listed'[q][x] = listed[q][x]
    BY <2>1 DEF Unlist, Shape
  <2>6. ASSUME NEW x \in Signals \ posted' PROVE Judged(x)'
    <3>1. Judged(x) BY <2>1, <2>2, <1>h
    <3>2. CASE x # s \/ ok = FALSE
      <4>1. status'[x] = status[x] /\ entered'[x] = entered[x]
        BY <2>1, <3>2 DEF Update, Shape, ChartTypes
      <4> QED BY <3>1, <4>1, <2>1, <2>4, <2>5, JudgedStays
    <3>3. CASE x = s /\ ok = TRUE
      <4>1. Judge(r, s, TRUE) BY <1>6, <3>3
      <4> QED BY <4>1, <3>1, <3>3, <2>2, <1>h, JudgedByRun
    <3> QED BY <3>2, <3>3
  <2> QED BY <2>3, <2>6
(* The poster leaves the runs alone.                                        *)
<1>p. ASSUME NEW p \in Posters, UNCHANGED <<chart, oldest, changed, born, window, listed>>,
             ~overlap, \A a \in Actors \ {p} : pc'[a] = pc[a], posted \subseteq posted',
             \A s \in Signals \ posted' : status'[s] = status[s] /\ entered'[s] = entered[s]
      PROVE  Goal
  <2>1. Undisturbed BY <1>p DEF Undisturbed
  <2>2. Windows' BY <1>p, <2>1, <1>w, <1>b
  <2>3. \A q \in Runs : Idle(q)' \/ (~Idle(q) /\ window'[q] = window[q])
    BY <1>p, SetAssumption DEF Idle, Actors
  <2>4. ASSUME NEW s \in Signals \ posted' PROVE Judged(s)'
    <3>1. Judged(s) BY <1>p, <2>1, <1>h
    <3> QED BY <3>1, <2>3, <1>p, JudgedStays
  <2> QED BY <2>2, <2>4
<1>7. ASSUME NEW p \in Posters, PostCount(p) PROVE Goal
  <2>1. \A a \in Actors \ {p} : pc'[a] = pc[a] BY <1>7 DEF PostCount, Release, Goto, Shape
  <2>2. ~overlap BY <1>7 DEF PostCount, Undisturbed
  <2> QED BY <1>7, <2>1, <2>2, <1>p DEF PostCount
<1>8. ASSUME NEW p \in Posters, NEW s \in Signals, NEW o \in Posts, NEW ok \in BOOLEAN,
             PostSave(p, s, o, ok)
      PROVE  Goal
  <2>1. \A a \in Actors \ {p} : pc'[a] = pc[a] BY <1>8 DEF PostSave, Goto, Shape
  <2>2. ~overlap BY <1>8 DEF PostSave, NoteStart, Undisturbed
  <2>3. posted \subseteq posted' BY <1>8 DEF PostSave
  <2> QED BY <1>8, <2>1, <2>2, <2>3, <1>p DEF PostSave
<1>9. ASSUME NEW p \in Posters, NEW ok \in BOOLEAN, PostUpdate(p, ok) PROVE Goal
  <2>1. \A a \in Actors \ {p} : pc'[a] = pc[a] BY <1>9 DEF PostUpdate, Goto, Shape
  <2>2. ~overlap BY <1>9 DEF PostUpdate, Undisturbed
  <2>3. sub[p] \in posted BY <1>9 DEF PostUpdate, PostInv, Shape, Writing, Actors
  <2>4. \A s \in Signals \ posted : status'[s] = status[s] /\ entered'[s] = entered[s]
    BY <1>9, <2>3 DEF PostUpdate, Update, Shape, ChartTypes
  <2> QED BY <1>9, <2>1, <2>2, <2>4, <1>p DEF PostUpdate
<1>10. ASSUME NEW c \in Shapes, NewCandle(c) PROVE Goal
  <2>1. /\ chart' = Append(chart, c) /\ oldest' = oldest
        /\ UNCHANGED <<born, status, entered, posted, pc, window, listed>>
        /\ UNCHANGED <<changed, overlap>>
    BY <1>10 DEF NewCandle
  <2>2. Undisturbed BY <2>1 DEF Undisturbed
  <2>3. /\ Len(chart') = Len(chart) + 1
        /\ \A i \in 1..Len(chart) : chart'[i] = chart[i]
        /\ 1..Len(chart) \subseteq 1..Len(chart')
    BY <2>1, <1>t DEF ChartTypes
  <2>4. Windows'
    <3>1. ASSUME NEW r \in Runs PROVE Prefix(window[r])'
      <4>1. Prefix(window[r]) BY <2>2, <1>h DEF Windows
      <4>2. Len(window[r].candles) \in Nat BY <1>t
      <4> QED BY <4>1, <4>2, <2>1, <2>3, <1>t DEF Prefix
    <3>2. \A s \in Signals : born'[s] <= Len(chart')
      BY <2>1, <2>2, <2>3, <1>b, <1>t
    <3> QED BY <3>1, <3>2, <2>1, <2>2, <1>h DEF Windows
  <2>5. ASSUME NEW s \in Signals \ posted' PROVE Judged(s)'
    <3>1. Judged(s) BY <2>1, <2>2, <1>h
    <3>2. /\ \A e : Entering(s, e) => Entering(s, e)'
          /\ Told(s) /\ status'[s] = status[s] => Told(s)'
      BY <2>1, ChartGrows
    <3>3. \A e : Seen(s, e) => Seen(s, e)' BY <3>2, <2>1 DEF Seen, Idle
    <3> QED BY <3>1, <3>2, <3>3, <2>1, <2>3 DEF Judged
  <2> QED BY <2>4, <2>5
<1>11. ASSUME (\E c \in Shapes : Widen(c)) \/ Forget PROVE Goal
  <2>1. changed' = changed + 1 BY <1>11 DEF Widen, Forget
  <2> QED BY <2>1, <1>t DEF Undisturbed
<1>12. CASE Crash
  <2>1. /\ pc' = [a \in Actors |-> "idle"] /\ window' = [r \in Runs |-> NoWindow]
        /\ listed' = [r \in Runs |-> Nothing]
        /\ UNCHANGED <<chart, oldest, changed, born, status, entered, overlap, posted>>
    BY <1>12 DEF Crash
  <2>2. Undisturbed BY <2>1 DEF Undisturbed
  <2>3. \A r \in Runs : pc'[r] = "idle" /\ window'[r] = NoWindow /\ DOMAIN listed'[r] = {}
    BY <2>1 DEF Actors, Nothing
  <2> QED BY <2>1, <2>2, <2>3, <1>k
<1>13. CASE UNCHANGED vars
  <2>1. Undisturbed BY <1>13 DEF vars, Undisturbed
  <2>2. \A r \in Runs : pc'[r] = "idle" \/ pc[r] # "idle" BY <1>13 DEF vars
  <2> QED BY <1>13, <2>1, <2>2, <1>k DEF vars
<1> QED
  BY <1>1, <1>2, <1>3, <1>4, <1>5, <1>6, <1>7, <1>8, <1>9, <1>10, <1>11, <1>12, <1>13
     DEF Next, RunStep, PostStep

(* The outcome the table has at last is the first passage of the chart, over *)
(* any number of cycles, crashes and failed writes, for a chart of any       *)
(* length and candles of any shape: validations that start again from a      *)
(* persisted entry find what one look at the whole chart would, unless a     *)
(* candle before the entry tempts them.                                      *)
THEOREM OutcomesAreFirstPassages == Spec => []OutcomeIsFirstPassage
<1>1. ChartTypes /\ PassageInv => OutcomeIsFirstPassage
  <2> SUFFICES ASSUME ChartTypes, PassageInv, Undisturbed, NEW s \in Signals \ posted,
                      status[s] \in Final
               PROVE  Tempting(s) \/ status[s] = FirstPassage(s)
    BY DEF OutcomeIsFirstPassage
  <2>1. Told(s) BY DEF PassageInv, Judged
  <2> QED BY <2>1, ToldIsPassage
<1>2. Spec => [](Shape /\ AloneInv /\ PostInv /\ ChartTypes /\ PassageInv)
  BY ShapeInit, ShapeStep, AloneInit, AloneStep, LedgerInit, PostStepInv,
     TypesInit, TypesStep, PassageInit, PassageStep, PTL DEF Spec
<1> QED BY <1>1, <1>2, PTL

=============================================================================
