--------------------- MODULE OptimizationProfilesProofs ---------------------
(***************************************************************************)
(* Proofs about OptimizationProfiles and OperatorSettings, for any bounds. *)
(* As long as no statement fails, memory and table hold the same profiles, *)
(* numbered without a gap, and activate and rollback are those of          *)
(* ProfileHistory; all of it goes on holding beside the other settings.    *)
(* Those survive as long as nothing has cut their POST short.              *)
(***************************************************************************)
EXTENDS OperatorSettings, FiniteSetTheorems, SequenceTheorems, TLAPS

\* The rows are 1..n, and memory is their image.
Mirrored(n) ==
  /\ n \in Ids
  /\ \A p \in Ids : rows[p] # None <=> p <= n
  /\ Len(profiles) = n
  /\ \A i \in 1..n : profiles[i] = [id |-> i, params |-> rows[i], active |-> i \in flags]
  /\ \A k \in DOMAIN stack : stack[k] \in 1..n

Clean ==
  /\ rows \in [Ids -> Made \cup {None}]
  /\ profiles \in Seq(Profile) /\ stack \in Seq(Ids)
  /\ made \in Made
  /\ \E n \in Ids : Mirrored(n)
  /\ \E a \in Ids : /\ flags = {a} /\ rows[a] # None
                    /\ thresholds \in {Runtime, rows[a]}

IInv == faults \in Nat /\ (faults = 0 => Clean)

-------------------------------------------------------------------------------
(* Lemmas about the lists                                                  *)

(* The first element of a set of naturals that has one. *)
LEMMA FirstIs ==
  ASSUME NEW i \in Nat
  PROVE  First({i}) = i
BY DEF First

(* Without a gap the n-th row is row n. *)
LEMMA SavedAtIs ==
  ASSUME NEW n \in Ids, Saved = 1..n
  PROVE  /\ Cardinality(Saved) = n
         /\ \A i \in 1..n : SavedAt(i) = i
<1>1. n \in Nat /\ n >= 1
  BY BoundAssumption DEF Ids
<1>2. Cardinality(Saved) = n
  BY <1>1, FS_Interval
<1>3. ASSUME NEW p \in Saved  PROVE Cardinality({q \in Saved : q <= p}) = p
  <2>1. p \in Nat /\ 1 <= p /\ p <= n
    BY <1>1
  <2>2. {q \in Saved : q <= p} = 1..p
    BY <1>1, <2>1
  <2>3. Cardinality(1..p) = p
    BY <2>1, FS_Interval
  <2> QED
    BY <2>2, <2>3
<1>4. ASSUME NEW i \in 1..n  PROVE SavedAt(i) = i
  <2>1. i \in Saved /\ Cardinality({q \in Saved : q <= i}) = i
    BY <1>3
  <2>2. \A p \in Saved : Cardinality({q \in Saved : q <= p}) = i => p = i
    BY <1>3
  <2> QED
    BY <2>1, <2>2 DEF SavedAt
<1> QED
  BY <1>2, <1>4

(* A restart finds in the table what memory had. *)
LEMMA LoadedIs ==
  ASSUME NEW n \in Ids, rows \in [Ids -> Made \cup {None}], profiles \in Seq(Profile), Mirrored(n)
  PROVE  Saved = 1..n /\ Loaded = profiles
<1>1. Saved = 1..n
  BY BoundAssumption DEF Saved, Mirrored, Ids
<1>2. Loaded = [i \in 1..n |-> [id |-> i, params |-> rows[i], active |-> i \in flags]]
  BY <1>1, SavedAtIs DEF Loaded
<1>3. profiles = [i \in 1..n |-> profiles[i]]
  BY DEF Mirrored
<1> QED
  BY <1>1, <1>2, <1>3 DEF Mirrored

(* A profile is found at its own number, or nowhere. *)
LEMMA FindIs ==
  ASSUME NEW n \in Ids, profiles \in Seq(Profile), Mirrored(n), NEW p \in Ids
  PROVE  Find(profiles, p) = IF p <= n THEN p ELSE None
<1>1. DOMAIN profiles = 1..n /\ n \in Nat /\ p \in Nat /\ p >= 1
  BY BoundAssumption DEF Mirrored, Ids
<1>2. \A i \in 1..n : profiles[i].id = i
  BY DEF Mirrored
<1>3. CASE p <= n
  <2>1. {i \in DOMAIN profiles : profiles[i].id = p} = {p}
    BY <1>1, <1>2, <1>3
  <2> QED
    BY <1>1, <1>3, <2>1, FirstIs DEF Find
<1>4. CASE ~(p <= n)
  <2>1. {i \in DOMAIN profiles : profiles[i].id = p} = {}
    BY <1>1, <1>2, <1>4
  <2> QED
    BY <1>4, <2>1 DEF Find, First
<1> QED
  BY <1>3, <1>4

(* The active profile is the one the table flags. *)
LEMMA CurrentIs ==
  ASSUME NEW n \in Ids, profiles \in Seq(Profile), Mirrored(n),
         NEW a \in 1..n, flags = {a}
  PROVE  Current(profiles) = a /\ ActiveId = a
<1>1. DOMAIN profiles = 1..n /\ n \in Nat /\ a \in Nat /\ a # None
  BY BoundAssumption DEF Mirrored, Ids, None
<1>2. \A i \in 1..n : profiles[i].id = i /\ profiles[i].active = (i \in flags)
  BY DEF Mirrored
<1>3. {i \in DOMAIN profiles : profiles[i].active} = {a}
  BY <1>1, <1>2
<1>4. Current(profiles) = a
  BY <1>1, <1>3, FirstIs DEF Current
<1> QED
  BY <1>1, <1>2, <1>4 DEF ActiveId

-------------------------------------------------------------------------------
(* The invariant                                                           *)

LEMMA InitClean == Init => IInv
<1> SUFFICES ASSUME Init  PROVE IInv
  OBVIOUS
<1> USE DEF Init, Ids, Made, None, Runtime
<1>1. 1 \in Ids /\ 1 \in Made
  BY BoundAssumption
<1>2. rows \in [Ids -> Made \cup {None}] /\ rows[1] = 1 /\ \A p \in Ids : rows[p] # None <=> p <= 1
  BY <1>1
<1>3. profiles \in Seq(Profile) /\ stack \in Seq(Ids) /\ made \in Made /\ faults \in Nat
  BY <1>1 DEF Default, Profile
<1>4. Mirrored(1)
  <2>1. Default = [id |-> 1, params |-> rows[1], active |-> 1 \in flags]
    <3>1. (1 \in flags) = TRUE
      OBVIOUS
    <3> QED
      BY <1>2, <3>1 DEF Default
  <2>2. Len(profiles) = 1 /\ profiles[1] = Default
    OBVIOUS
  <2> QED
    BY <1>1, <1>2, <2>1, <2>2 DEF Mirrored
<1>5. flags = {1} /\ rows[1] # None /\ thresholds \in {Runtime, rows[1]}
  BY <1>2
<1> QED
  BY <1>1, <1>2, <1>3, <1>4, <1>5 DEF IInv, Clean

(* What a switch to profile i leaves behind when nothing fails. *)
LEMMA SwitchClean ==
  ASSUME Clean, NEW n \in Ids, Mirrored(n), NEW i \in 1..n,
         Switch(profiles, i, "ok"),
         stack' \in Seq(Ids), \A k \in DOMAIN stack' : stack'[k] \in 1..n
  PROVE  /\ Clean'
         /\ ActiveId' = i
<1>1. /\ profiles' = [j \in 1..n |-> [profiles[j] EXCEPT !.active = (j = i)]]
      /\ UNCHANGED <<rows, made>>
  BY DEF Switch, Mirrored
<1>2. n \in Nat /\ i \in Ids /\ i \in Saved /\ profiles[i].id = i /\ profiles[i].params = rows[i]
  BY BoundAssumption DEF Ids, Saved, Mirrored
<1>3. flags' = {i} /\ thresholds' = rows[i]
  BY <1>2 DEF Switch, Flagged, Told
<1>4. ASSUME NEW j \in 1..n
      PROVE  profiles'[j] = [id |-> j, params |-> rows'[j], active |-> j \in flags']
  <2>1. profiles[j] = [id |-> j, params |-> rows[j], active |-> j \in flags]
    BY DEF Mirrored
  <2>2. profiles'[j] = [id |-> j, params |-> rows[j], active |-> j = i]
    BY <1>1, <2>1
  <2>3. (j = i) = (j \in flags')
    BY <1>3
  <2> QED
    BY <1>1, <2>2, <2>3
<1>5. ASSUME NEW j \in 1..n  PROVE profiles'[j] \in Profile
  <2>1. profiles'[j] = [id |-> j, params |-> rows[j], active |-> j \in flags']
    BY <1>1, <1>4
  <2>2. j \in Ids /\ j <= n
    BY <1>2, BoundAssumption DEF Ids
  <2>3. rows[j] \in Made
    BY <2>2 DEF Clean, Mirrored
  <2> QED
    BY <2>1, <2>2, <2>3 DEF Profile
<1>6. profiles' \in Seq(Profile) /\ Len(profiles') = n
  <2>1. profiles' \in [1..n -> Profile]
    BY <1>1, <1>5
  <2> QED
    BY <1>2, <2>1, SeqDef
<1>7. Mirrored(n)'
  BY <1>1, <1>4, <1>6 DEF Mirrored
<1>8. Clean'
  BY <1>1, <1>2, <1>3, <1>6, <1>7 DEF Clean, Saved
<1>9. ActiveId' = i
  <2>1. DOMAIN profiles' = 1..n /\ i # None /\ i \in Nat
    BY <1>1, <1>2 DEF None, Ids
  <2>2. \A j \in 1..n : profiles'[j].id = j /\ profiles'[j].active = (j \in flags')
    <3> SUFFICES ASSUME NEW j \in 1..n  PROVE profiles'[j].id = j /\ profiles'[j].active = (j \in flags')
      OBVIOUS
    <3>1. profiles'[j] = [id |-> j, params |-> rows'[j], active |-> j \in flags']
      BY <1>4
    <3>2. profiles'[j].active = (j \in flags')
      BY ONLY <3>1
    <3>3. profiles'[j].id = j
      BY ONLY <3>1
    <3> QED
      BY <3>2, <3>3
  <2>3. {j \in DOMAIN profiles' : profiles'[j].active} = {i}
    BY <1>3, <2>1, <2>2
  <2>4. Current(profiles)' = i
    BY <2>1, <2>3, FirstIs DEF Current
  <2> QED
    BY <2>1, <2>2, <2>4 DEF ActiveId
<1> QED
  BY <1>8, <1>9

(* A candidate is appended to both lists under the same number. *)
LEMMA CandidateClean ==
  ASSUME Clean, NEW n \in Ids, Mirrored(n), NEW a \in 1..n, flags = {a}, Candidate(TRUE)
  PROVE  /\ Clean'
         /\ ActiveId' = ActiveId
         /\ \A p \in Saved : rows'[p] = rows[p]
<1> DEFINE new == [id |-> n + 1, params |-> made + 1, active |-> FALSE]
<1>1. /\ n + 1 \in Ids /\ NewId = n + 1 /\ made < MaxMade
      /\ profiles' = Append(profiles, new)
      /\ rows' = [rows EXCEPT ![n + 1] = made + 1]
      /\ made' = made + 1 /\ UNCHANGED <<stack, thresholds>>
  BY DEF Candidate, NewId, Mirrored
<1>2. n \in Nat /\ made + 1 \in Made /\ made + 1 # None
  BY <1>1, BoundAssumption DEF Clean, Made, Ids, None
<1>3. flags' = {a} /\ flags' = flags
  BY <1>1, <1>2 DEF Candidate
<1>4. rows[n + 1] = None /\ \A p \in Ids : rows'[p] = IF p = n + 1 THEN made + 1 ELSE rows[p]
  BY <1>1, <1>2 DEF Clean, Mirrored
<1>5. rows' \in [Ids -> Made \cup {None}] /\ \A p \in Ids : rows'[p] # None <=> p <= n + 1
  <2>1. rows' \in [Ids -> Made \cup {None}]
    BY <1>1, <1>2 DEF Clean
  <2>2. ASSUME NEW p \in Ids  PROVE rows'[p] # None <=> p <= n + 1
    <3>1. p \in Nat
      BY BoundAssumption DEF Ids
    <3> QED
      BY <1>2, <1>4, <3>1 DEF Mirrored
  <2> QED
    BY <2>1, <2>2
<1>6. new \in Profile
  BY <1>1, <1>2 DEF Profile
<1>7. profiles' \in Seq(Profile) /\ Len(profiles') = n + 1
  BY <1>1, <1>6 DEF Clean, Mirrored
<1>8. \A j \in 1..n + 1 : profiles'[j] = IF j = n + 1 THEN new ELSE profiles[j]
  BY <1>1, <1>2, <1>6 DEF Clean, Mirrored
<1>9. ASSUME NEW j \in 1..n + 1
      PROVE  profiles'[j] = [id |-> j, params |-> rows'[j], active |-> j \in flags']
  <2>1. CASE j = n + 1
    <3>1. (j \in flags') = FALSE
      BY <1>2, <1>3, <2>1
    <3>2. rows'[j] = made + 1
      BY <1>1, <1>4, <2>1
    <3> QED
      BY <1>8, <2>1, <3>1, <3>2
  <2>2. CASE j # n + 1
    <3>1. j \in 1..n /\ j \in Ids
      BY <1>2, <2>2, BoundAssumption DEF Ids
    <3>2. rows'[j] = rows[j] /\ profiles'[j] = profiles[j]
      BY <1>4, <1>8, <2>2, <3>1
    <3>3. profiles[j] = [id |-> j, params |-> rows[j], active |-> j \in flags]
      BY <3>1 DEF Mirrored
    <3> QED
      BY <1>3, <3>2, <3>3
  <2> QED
    BY <2>1, <2>2
<1>10. \A k \in DOMAIN stack' : stack'[k] \in 1..n + 1
  BY <1>1, <1>2 DEF Mirrored
<1>11. Mirrored(n + 1)'
  BY <1>1, <1>5, <1>7, <1>9, <1>10 DEF Mirrored
<1>12. a \in Ids /\ a # n + 1 /\ rows'[a] = rows[a] /\ rows[a] # None
  BY <1>2, <1>4, BoundAssumption DEF Ids, Mirrored
<1>13. Clean'
  <2>1. thresholds' \in {Runtime, rows'[a]}
    BY <1>1, <1>12 DEF Clean
  <2> QED
    BY <1>1, <1>2, <1>3, <1>5, <1>7, <1>11, <1>12, <2>1 DEF Clean, Mirrored
<1>14. ActiveId = a /\ ActiveId' = a
  <2>1. ActiveId = a
    BY CurrentIs DEF Clean
  <2>2. DOMAIN profiles' = 1..n + 1 /\ a \in 1..n + 1 /\ a # None /\ a \in Nat
    BY <1>2, <1>7 DEF None
  <2>3. ASSUME NEW j \in 1..n + 1  PROVE profiles'[j].id = j /\ profiles'[j].active = (j \in flags')
    <3>1. profiles'[j] = [id |-> j, params |-> rows'[j], active |-> j \in flags']
      BY <1>9
    <3>2. profiles'[j].active = (j \in flags')
      BY ONLY <3>1
    <3>3. profiles'[j].id = j
      BY ONLY <3>1
    <3> QED
      BY <3>2, <3>3
  <2>4. {j \in DOMAIN profiles' : profiles'[j].active} = {a}
    BY <1>3, <2>2, <2>3
  <2>5. Current(profiles)' = a
    BY <2>2, <2>4, FirstIs DEF Current
  <2> QED
    BY <2>1, <2>2, <2>3, <2>5 DEF ActiveId
<1>15. ASSUME NEW p \in Saved  PROVE rows'[p] = rows[p]
  BY <1>4 DEF Saved
<1> QED
  BY <1>13, <1>14, <1>15

-------------------------------------------------------------------------------
(* A step without a failure is a step of ProfileHistory                    *)

Strict ==
  \/ (\E p \in Ids : History!Activate(p)) \/ History!Rollback \/ History!RollbackBlindly \/ History!Restart
  \/ UNCHANGED <<ActiveId, stack>>

Preserved == \A p \in Saved : rows'[p] = rows[p]

LEMMA CleanRestart ==
  ASSUME Clean, Restart(TRUE)
  PROVE  Clean' /\ Strict /\ Preserved
<1>1. PICK n \in Ids : Mirrored(n)
  BY DEF Clean
<1>2. /\ profiles' = profiles /\ stack' = <<>> /\ thresholds' = Runtime
      /\ UNCHANGED <<rows, flags, made>>
  BY <1>1, LoadedIs DEF Restart, Clean
<1>3. Mirrored(n)'
  BY <1>1, <1>2 DEF Mirrored
<1>4. Clean'
  BY <1>2, <1>3 DEF Clean
<1>5. ActiveId' = ActiveId
  BY <1>2 DEF ActiveId, Current
<1> QED
  BY <1>2, <1>4, <1>5 DEF Strict, Preserved, History!Restart

LEMMA CleanActivate ==
  ASSUME Clean, NEW p \in Ids, Activate(p, "ok")
  PROVE  Clean' /\ Strict /\ Preserved
<1>1. PICK n \in Ids, a \in Ids : Mirrored(n) /\ flags = {a} /\ rows[a] # None
  BY DEF Clean
<1>2. n \in Nat /\ p \in Nat /\ p >= 1 /\ p # None /\ a \in 1..n
  BY <1>1, BoundAssumption DEF Ids, None, Mirrored
<1>3. Current(profiles) = a /\ ActiveId = a /\ profiles[a].id = a /\ a # None
  <2>1. Current(profiles) = a /\ ActiveId = a
    BY <1>1, <1>2, CurrentIs DEF Clean
  <2>2. profiles[a] = [id |-> a, params |-> rows[a], active |-> a \in flags]
    BY <1>1, <1>2 DEF Mirrored
  <2>3. profiles[a].id = a
    BY ONLY <2>2
  <2> QED
    BY <1>2, <2>1, <2>3 DEF None
<1>4. Loaded = profiles
  BY <1>1, LoadedIs DEF Clean
<1>5. CASE p <= n
  <2>1. Find(profiles, p) = p
    BY <1>1, <1>5, FindIs DEF Clean
  <2>2. stack' = Append(stack, a) /\ Switch(profiles, p, "ok")
    BY <1>2, <1>3, <2>1 DEF Activate, Push
  <2>3. stack' \in Seq(Ids) /\ \A k \in DOMAIN stack' : stack'[k] \in 1..n
    BY <1>1, <1>2, <2>2 DEF Clean, Mirrored
  <2>4. Clean' /\ ActiveId' = p
    BY <1>1, <1>2, <1>5, <2>2, <2>3, SwitchClean
  <2>5. Preserved
    BY <2>2 DEF Switch, Preserved
  <2> QED
    BY <1>3, <2>2, <2>4, <2>5 DEF Strict, History!Activate
<1>6. CASE ~(p <= n)
  <2>1. Find(profiles, p) = None
    BY <1>1, <1>6, FindIs DEF Clean
  <2>2. UNCHANGED <<rows, flags, profiles, stack, thresholds, made>>
    BY <1>4, <2>1 DEF Activate
  <2>3. Clean' /\ ActiveId' = ActiveId
    BY <2>2 DEF Clean, Mirrored, ActiveId, Current
  <2> QED
    BY <2>2, <2>3 DEF Strict, Preserved
<1> QED
  BY <1>5, <1>6

LEMMA CleanRollback ==
  ASSUME Clean, Rollback("ok")
  PROVE  Clean' /\ Strict /\ Preserved
<1>1. PICK n \in Ids, a \in Ids : Mirrored(n) /\ flags = {a} /\ rows[a] # None
  BY DEF Clean
<1>2. n \in Nat /\ a \in Nat /\ a \in 1..n
  BY <1>1, BoundAssumption DEF Ids, None, Mirrored
<1>3. ActiveId = a
  BY <1>1, <1>2, CurrentIs DEF Clean
<1>4. CASE stack # <<>>
  <2> DEFINE t == stack[Len(stack)]
  <2>1. t \in 1..n /\ t \in Ids /\ t # None /\ stack \in Seq(Ids) /\ Len(stack) \in Nat /\ Len(stack) >= 1
    BY <1>1, <1>2, <1>4, BoundAssumption DEF Clean, Mirrored, Ids, None
  <2>2. Find(profiles, t) = t
    BY <1>1, <2>1, FindIs DEF Clean
  <2>3. stack' = SubSeq(stack, 1, Len(stack) - 1) /\ Switch(profiles, t, "ok")
    BY <1>4, <2>1, <2>2 DEF Rollback
  <2>4. stack' \in Seq(Ids) /\ \A k \in DOMAIN stack' : stack'[k] \in 1..n
    BY <1>1, <2>1, <2>3 DEF Mirrored
  <2>5. Clean' /\ ActiveId' = t
    BY <1>1, <2>1, <2>3, <2>4, SwitchClean
  <2>6. Preserved
    BY <2>3 DEF Switch, Preserved
  <2> QED
    BY <1>4, <2>3, <2>5, <2>6 DEF Strict, History!Rollback
<1>5. CASE stack = <<>>
  <2> DEFINE others == Saved \ flags
             t == CHOOSE p \in others : \A q \in others : q <= p
  <2>1. Saved = 1..n
    BY <1>1, LoadedIs DEF Clean
  <2>2. others # {} /\ Fallback = <<t>>
    BY <1>5 DEF Rollback, Fallback
  <2>3. \E p \in others : \A q \in others : q <= p
    <3>1. CASE a # n
      BY <1>1, <1>2, <2>1, <3>1
    <3>2. CASE a = n
      <4>1. n - 1 \in others
        BY <1>1, <1>2, <2>1, <2>2, <3>2
      <4> QED
        BY <1>1, <1>2, <2>1, <3>2, <4>1
    <3> QED
      BY <3>1, <3>2
  <2>4. t \in others
    BY <2>3
  <2>5. t \in 1..n /\ t \in Ids /\ t # None /\ t # a
    BY <1>1, <1>2, <2>1, <2>4, BoundAssumption DEF Ids, None
  <2> HIDE DEF t
  <2>6. Find(profiles, t) = t
    BY <1>1, <2>5, FindIs DEF Clean
  <2>7. stack' = SubSeq(<<t>>, 1, 0) /\ Switch(profiles, t, "ok")
    BY <1>5, <2>2, <2>5, <2>6 DEF Rollback
  <2>8. stack' = <<>>
    BY <2>7, SubSeqEmpty
  <2>9. Clean' /\ ActiveId' = t
    BY <1>1, <2>5, <2>7, <2>8, SwitchClean
  <2>10. Preserved
    BY <2>7 DEF Switch, Preserved
  <2> QED
    BY <1>3, <1>5, <2>5, <2>8, <2>9, <2>10 DEF Strict, History!RollbackBlindly
<1> QED
  BY <1>4, <1>5

LEMMA CleanStep ==
  ASSUME IInv, [Next]_vars
  PROVE  /\ IInv'
         /\ faults > 0 => faults' > 0
         /\ faults' = 0 => Strict /\ Preserved
<1>1. faults \in Nat /\ faults' \in {faults, faults + 1}
  <2>1. CASE UNCHANGED vars
    BY <2>1 DEF IInv, vars
  <2>2. ASSUME NEW ok \in BOOLEAN, Candidate(ok) \/ Restart(ok)  PROVE faults' \in {faults, faults + 1}
    BY <2>2 DEF Candidate, Restart, Fault
  <2>3. ASSUME NEW cut \in Cuts, Rollback(cut) \/ (\E p \in Ids : Activate(p, cut))
        PROVE  faults' \in {faults, faults + 1}
    BY <2>3 DEF Rollback, Activate, Switch, Fault
  <2> QED
    BY <2>1, <2>2, <2>3 DEF IInv, Next
<1>2. ASSUME faults' = 0  PROVE Clean' /\ Strict /\ Preserved
  <2>1. faults = 0 /\ Clean
    BY <1>1, <1>2 DEF IInv
  <2>2. CASE UNCHANGED vars
    <3>1. Clean' /\ ActiveId' = ActiveId
      BY <2>1, <2>2 DEF vars, Clean, Mirrored, ActiveId, Current
    <3> QED
      BY <2>2, <3>1 DEF vars, Strict, Preserved
  <2>3. ASSUME NEW ok \in BOOLEAN, Candidate(ok)  PROVE Clean' /\ Strict /\ Preserved
    <3>1. ok = TRUE
      BY <1>2, <2>1, <2>3 DEF Candidate, Fault
    <3>2. PICK n \in Ids, a \in Ids : Mirrored(n) /\ flags = {a} /\ rows[a] # None
      BY <2>1 DEF Clean
    <3>3. a \in 1..n
      BY <3>2, BoundAssumption DEF Ids, Mirrored
    <3>4. Candidate(TRUE) /\ stack' = stack
      BY <2>3, <3>1 DEF Candidate
    <3>5. Clean' /\ ActiveId' = ActiveId /\ Preserved
      BY <2>1, <3>2, <3>3, <3>4, CandidateClean DEF Preserved
    <3> QED
      BY <3>4, <3>5 DEF Strict
  <2>4. ASSUME NEW ok \in BOOLEAN, Restart(ok)  PROVE Clean' /\ Strict /\ Preserved
    <3>1. ok = TRUE
      BY <1>2, <2>1, <2>4 DEF Restart, Fault
    <3> QED
      BY <2>1, <2>4, <3>1, CleanRestart
  <2>5. ASSUME NEW cut \in Cuts, NEW p \in Ids, Activate(p, cut)  PROVE Clean' /\ Strict /\ Preserved
    <3>1. cut = "ok" \/ Activate(p, "ok")
      BY <1>2, <2>1, <2>5 DEF Activate, Switch, Fault
    <3> QED
      BY <2>1, <2>5, <3>1, CleanActivate
  <2>6. ASSUME NEW cut \in Cuts, Rollback(cut)  PROVE Clean' /\ Strict /\ Preserved
    <3>1. cut = "ok" \/ Rollback("ok")
      BY <1>2, <2>1, <2>6 DEF Rollback, Switch, Fault
    <3> QED
      BY <2>1, <2>6, <3>1, CleanRollback
  <2> QED
    BY <2>2, <2>3, <2>4, <2>5, <2>6 DEF Next
<1> QED
  BY <1>1, <1>2 DEF IInv

-------------------------------------------------------------------------------

THEOREM Invariance == Spec => []IInv
<1>1. IInv /\ [Next]_vars => IInv'
  BY CleanStep
<1> QED
  BY <1>1, InitClean, PTL DEF Spec

(* As long as no statement fails, memory, table and strategy agree on the active *)
(* profile; the strategy may not have been told since the start.                 *)
THEOREM ThresholdsFollowProfile == Spec => []ThresholdsFollow
<1>1. IInv => ThresholdsFollow
  <2> SUFFICES ASSUME Clean  PROVE flags = {ActiveId} /\ thresholds \in {Runtime, rows[ActiveId]}
    BY DEF IInv, ThresholdsFollow
  <2>1. PICK n \in Ids : Mirrored(n)
    BY DEF Clean
  <2>2. PICK a \in Ids : flags = {a} /\ rows[a] # None /\ thresholds \in {Runtime, rows[a]}
    BY DEF Clean
  <2>3. a \in 1..n
    BY <2>1, <2>2, BoundAssumption DEF Ids, Mirrored
  <2>4. ActiveId = a
    BY <2>1, <2>2, <2>3, CurrentIs DEF Clean
  <2> QED
    BY <2>2, <2>4
<1> QED
  BY <1>1, Invariance, PTL

(* As long as no statement fails, the parameters of a saved profile stay.        *)
THEOREM SavedProfilesPreserved == Spec => ProfilesPreserved
<1>1. IInv /\ [Next]_vars => [faults' = 0 => \A p \in Saved : rows'[p] = rows[p]]_vars
  BY CleanStep DEF Preserved
<1> QED
  BY <1>1, Invariance, PTL DEF Spec, ProfilesPreserved

(* activate, rollback and a restart do what ProfileHistory promises.             *)
THEOREM ImplementsHistory == Spec => UndoHistory
<1>1. Init => History!Init
  <2> SUFFICES ASSUME Init  PROVE History!Init
    OBVIOUS
  <2>1. profiles = <<Default>> /\ stack = <<>> /\ faults = 0
    BY DEF Init
  <2>2. {i \in DOMAIN profiles : profiles[i].active} = {1}
    BY <2>1 DEF Default
  <2>3. Current(profiles) = 1
    BY <2>2, FirstIs DEF Current
  <2>4. ActiveId = 1
    BY <2>1, <2>3 DEF ActiveId, Default, None
  <2> QED
    BY <2>1, <2>4, BoundAssumption DEF History!Init, Ids
<1>2. IInv /\ [Next]_vars => [History!Next /\ History!StaysBroken]_(History!vars)
  <2> SUFFICES ASSUME IInv, [Next]_vars
               PROVE  [History!Next /\ History!StaysBroken]_(History!vars)
    OBVIOUS
  <2>1. faults \in Nat /\ faults' \in Nat /\ (faults > 0 => faults' > 0)
    BY CleanStep DEF IInv
  <2>2. CASE faults' # 0
    BY <2>1, <2>2 DEF History!Next, History!StaysBroken
  <2>3. CASE faults' = 0
    <3>1. Strict /\ faults = 0
      BY <2>1, <2>3, CleanStep
    <3> QED
      BY <2>3, <3>1 DEF Strict, History!Next, History!StaysBroken, History!vars
  <2> QED
    BY <2>2, <2>3
<1> QED
  BY <1>1, <1>2, Invariance, PTL DEF Spec, UndoHistory, History!Spec

-------------------------------------------------------------------------------
(* The other settings                                                      *)

(* What the profiles do is what they do without the other settings, so the *)
(* theorems above hold of the composition.                                 *)
THEOREM SettingsImplementProfiles == SettingsSpec => Spec
<1>1. SettingsInit => Init
  BY DEF SettingsInit
<1>2. [SettingsNext]_<<vars, settingsVars>> => [Next]_vars
  <2> SUFFICES ASSUME [SettingsNext]_<<vars, settingsVars>>
               PROVE  [Next]_vars
    OBVIOUS
  <2>1. CASE UNCHANGED <<vars, settingsVars>>
    BY <2>1
  <2>2. CASE SettingsStep /\ UNCHANGED vars
    BY <2>2
  <2>3. CASE ProfileRequest
    BY <2>3 DEF ProfileRequest, Next
  <2>4. ASSUME NEW fails \in Failing, NEW ok \in BOOLEAN, Start(fails) /\ Restart(ok)
        PROVE  Next
    BY <2>4 DEF Next
  <2> QED
    BY <2>1, <2>2, <2>3, <2>4 DEF SettingsNext
<1> QED
  BY <1>1, <1>2, PTL DEF SettingsSpec, Spec

(* The numbers a cycle under way works with are those of the configured weights. *)
Faithful(c) ==
  /\ step[c] \in {"idle", "weigh", "install", "keep"}
  /\ step[c] = "weigh" => base[c] = configured
  /\ step[c] \in {"install", "keep"} => result[c] = {configured}

(* What the handler of a POST has done at each of its steps, with no cycle beside *)
(* its assignments. *)
Whole ==
  /\ handler # "engine" => engine = {configured}
  /\ handler \notin {"engine", "last"} => last \in {Nothing, {configured}}
  /\ handler \in {"engine", "last"} => \A c \in Cycles : step[c] = "idle"
  /\ \A c \in Cycles : Faithful(c)
  /\ handler \notin {"engine", "last", "setting"} => weightsRow = configured
  /\ handler = "idle" => stateRow \in {Nothing, {configured}}

SettingsTypeOK ==
  /\ handler \in {"idle", "engine", "last", "setting", "state"}
  /\ step \in [Cycles -> {"idle", "weigh", "install", "keep"}]
  /\ base \in [Cycles -> Nat] /\ result \in [Cycles -> SUBSET Nat]
  /\ configured \in Nat /\ weightsRow \in Nat /\ posted \in Nat
  /\ engine \in SUBSET Nat /\ last \in SUBSET Nat /\ stateRow \in SUBSET Nat

SettingsInv ==
  /\ SettingsTypeOK
  /\ "weights" \notin torn => Whole
  /\ "limits" \notin torn => limitsRow = limits

LEMMA SettingsInitInv == SettingsInit => SettingsInv
  BY DEF SettingsInit, SettingsInv, SettingsTypeOK, Whole, Faithful, Runtimes, Nothing

LEMMA SettingsStepInv ==
  SettingsInv /\ [SettingsNext]_<<vars, settingsVars>> => SettingsInv'
<1> SUFFICES ASSUME SettingsInv, [SettingsNext]_<<vars, settingsVars>>  PROVE SettingsInv'
  OBVIOUS
<1> USE DEF SettingsInv, SettingsTypeOK
<1>1. ASSUME NEW c \in Cycles, ReadBase(c)  PROVE SettingsInv'
  BY <1>1 DEF ReadBase, Meet, At, weightVars, rowVars, Whole, Faithful
<1>2. ASSUME NEW c \in Cycles, Calculate(c)  PROVE SettingsInv'
  <2>1. Calculated(c, TRUE) \in SUBSET Nat /\ Calculated(c, FALSE) \in SUBSET Nat
    BY DEF Calculated, Nothing
  <2>2. PICK retained \in BOOLEAN : result' = [result EXCEPT ![c] = Calculated(c, retained)]
    BY <1>2 DEF Calculate
  <2>3. Calculated(c, retained) \in SUBSET Nat
    BY <2>1
  <2>4. SettingsTypeOK'
    BY <1>2, <2>2, <2>3 DEF Calculate, At, rowVars
  <2>5. ASSUME "weights" \notin torn  PROVE Calculated(c, retained) = {configured}
    BY <1>2, <2>5 DEF Calculate, At, Calculated, Whole, Faithful, Nothing
  <2> QED
    BY <1>2, <2>2, <2>4, <2>5 DEF Calculate, At, rowVars, Whole, Faithful
<1>3. ASSUME NEW c \in Cycles, Reuse(c)  PROVE SettingsInv'
  BY <1>3 DEF Reuse, Meet, At, weightVars, rowVars, Whole, Faithful
<1>4. ASSUME NEW c \in Cycles, Install(c)  PROVE SettingsInv'
  BY <1>4 DEF Install, At, rowVars, Whole, Faithful
<1>5. ASSUME NEW c \in Cycles, Keep(c)  PROVE SettingsInv'
  <2>1. result[c] \in SUBSET Nat
    OBVIOUS
  <2>2. SettingsTypeOK'
    BY <1>5, <2>1 DEF Keep, At, weightVars, Runtimes, Nothing
  <2>3. stateRow' \in {stateRow, result[c]}
    BY <1>5 DEF Keep
  <2>4. ASSUME "weights" \notin torn'  PROVE Whole'
    BY <1>5, <2>3, <2>4 DEF Keep, At, weightVars, Whole, Faithful, Nothing
  <2> QED
    BY <1>5, <2>2, <2>4 DEF Keep
<1>6. CASE PostWeights
  <2>1. posted + 1 \in Nat
    OBVIOUS
  <2>2. SettingsTypeOK'
    BY <1>6, <2>1 DEF PostWeights, rowVars, cycleVars, Nothing
  <2>3. ASSUME "weights" \notin torn'  PROVE Whole'
    <3>1. \A c \in Cycles : step[c] = "idle"
      BY <1>6, <2>3 DEF PostWeights, Tear, UnderWay
    <3> QED
      BY <1>6, <3>1 DEF PostWeights, rowVars, cycleVars, Whole, Faithful
  <2>4. "limits" \notin torn' => limitsRow' = limits'
    BY <1>6 DEF PostWeights, Tear, rowVars
  <2> QED
    BY <2>2, <2>3, <2>4
<1>7. CASE ReplaceEngine \/ ForgetLast \/ SaveWeights \/ SaveState
  BY <1>7 DEF ReplaceEngine, ForgetLast, rowVars, Nothing, SaveWeights, SaveState, weightVars, cycleVars, Whole, Faithful
<1>8. CASE SavingFails
  BY <1>8 DEF SavingFails, Tear, weightVars, rowVars, cycleVars, Whole
<1>9. CASE UpdateProfile
  BY <1>9 DEF UpdateProfile, Request, weightVars, cycleVars, Whole, Faithful
<1>10. ASSUME NEW given \in SUBSET Limits, NEW ok \in BOOLEAN, PostLimits(given, ok)  PROVE SettingsInv'
  BY <1>10 DEF PostLimits, OverDefaults, Request, Tear, Lapse, weightVars, cycleVars, Whole, Faithful
<1>11. CASE ProfileRequest
  BY <1>11 DEF ProfileRequest, Request, weightVars, rowVars, cycleVars, Whole, Faithful
<1>12. ASSUME NEW fails \in Failing, Start(fails)  PROVE SettingsInv'
  <2>1. /\ handler' = "idle" /\ step' = [c \in Cycles |-> "idle"]
        /\ base' = [c \in Cycles |-> Runtimes] /\ result' = [c \in Cycles |-> Nothing]
        /\ posted' = posted
    BY <1>12 DEF Start
  <2>2. ASSUME "weights" \notin torn'  PROVE Whole'
    <3>1. "weights" \notin torn /\ handler = "idle"
      BY <1>12, <2>2 DEF Start
    <3>2. weightsRow = configured /\ stateRow \in {Nothing, {configured}}
      BY <3>1 DEF Whole
    <3>3. Built(fails) = {configured} /\ Posted(fails) = {configured}
          /\ BuiltLast(fails) \in {Nothing, {configured}}
      BY <3>2 DEF Built, Posted, BuiltLast
    <3>4. /\ configured' = configured /\ weightsRow' = configured
          /\ engine' = {configured} /\ last' \in {Nothing, {configured}}
          /\ stateRow' \in {Nothing, {configured}}
      BY <1>12, <3>2, <3>3 DEF Start, Load, Found
    <3> QED
      BY <2>1, <3>4 DEF Whole, Faithful
  <2>3. "limits" \notin torn' => limitsRow' = limits'
    BY <1>12 DEF Start, Load
  <2>4. Built(fails) \in SUBSET Nat /\ Posted(fails) \in SUBSET Nat /\ BuiltLast(fails) \in SUBSET Nat
    BY DEF Built, Posted, BuiltLast, Nothing
  <2>5. /\ configured' \in Nat /\ weightsRow' \in Nat
        /\ engine' \in SUBSET Nat /\ last' \in SUBSET Nat /\ stateRow' \in SUBSET Nat
    BY <1>12, <2>4 DEF Start, Load
  <2> QED
    BY <2>1, <2>2, <2>3, <2>5 DEF Runtimes, Nothing
<1>13. CASE UNCHANGED <<vars, settingsVars>>
  BY <1>13 DEF settingsVars, weightVars, rowVars, cycleVars, Whole, Faithful
<1> QED
  BY <1>1, <1>2, <1>3, <1>4, <1>5, <1>6, <1>7, <1>8, <1>9, <1>10, <1>11, <1>12, <1>13
  DEF SettingsNext, SettingsStep, CycleStep

LEMMA SettingsInvariance == SettingsSpec => []SettingsInv
  BY SettingsInitInv, SettingsStepInv, PTL DEF SettingsSpec

(* Nothing is left of earlier weights once new ones are configured, unless a     *)
(* cycle was under way or the POST was cut short; restarts and failing queries   *)
(* at a start bring none back.                                                   *)
THEOREM WeightsStayConfigured == SettingsSpec => []WeightsAreConfigured
<1>1. SettingsInv => WeightsAreConfigured
  BY DEF SettingsInv, Whole, WeightsAreConfigured
<1> QED
  BY <1>1, SettingsInvariance, PTL

(* The weights and limits in force are those the next start finds in the tables. *)
THEOREM SettingsAreSaved == SettingsSpec => []SettingsSurvive
<1>1. SettingsInv => SettingsSurvive
  BY DEF SettingsInv, Whole, SettingsSurvive
<1> QED
  BY <1>1, SettingsInvariance, PTL

=============================================================================
