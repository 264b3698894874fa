-------------------------- MODULE SignalCyclesProofs --------------------------
(***************************************************************************)
(* What cycles beside each other leave right, for any sets of processes    *)
(* and any bounds: the lock follows the request that works, what is kept   *)
(* under an id describes the row of that id, a request leaves one row, and *)
(* a cycle nobody worked beside is answered for with its own.              *)
(***************************************************************************)
EXTENDS SignalCycles, FiniteSetTheorems, SequenceTheorems, TLAPS

Points == ThreadPoints \cup {"idle", "wait", "return", "publish", "note", "done"}

TypeOK ==
  /\ pc \in [Actors -> Points]
  /\ rec \in [Cycles -> Nat]
  /\ picked \in Nat /\ listed \in Nat /\ lastId \in Nat
  /\ lock \in Requests \cup {None} /\ abandoned \in SUBSET Requests
  /\ rows \in Seq(Cycles)
  /\ snapshots \in [AllIds -> Cycles \cup {None}]
  /\ plans \in [AllIds -> Cycles \cup {None}]
  /\ \A p \in Readers : pc[p] \in {"idle", "note", "done"}
  /\ \A p \in Validations \cup Jobs : pc[p] \notin {"wait", "return", "publish", "note"}
  /\ \A p \in Requests : pc[p] # "note"

\* A thread its task has left behind works, or has ended.
LockInv ==
  /\ LockIsHeldWhileWorking
  /\ \A p \in abandoned : pc[p] \in ThreadPoints \cup {"done"}

\* What is kept under an id is of a cycle whose row has that id.
OfItsRow(kept, id) ==
  kept[id] \notin fellBack \cup {None} => id \in Ids /\ rows[id] = kept[id]

SnapshotInv ==
  /\ \A p \in Cycles \ fellBack : pc[p] = "snapshot" => rec[p] \in Ids /\ rows[rec[p]] = p
  /\ \A id \in AllIds : OfItsRow(snapshots, id) /\ OfItsRow(plans, id)

\* Before its INSERT a cycle has no row, whichever attempt it is at.
Before == {"idle", "wait", "fetch", "weigh", "vote", "keep", "insert"}

RowInv ==
  /\ \A p \in Cycles : pc[p] \in Before => \A i \in Ids : rows[i] # p
  /\ \A p \in Cycles \ repeated : \A i, j \in Ids : rows[i] = p /\ rows[j] = p => i = j

\* What a cycle finds in the variables the processes share is its own.
After == {"snapshot", "risk", "validate", "return", "publish"}

Own(p) ==
  /\ pc[p] = "vote" => weights = p
  /\ pc[p] \in After => lastId = rec[p] /\ rec[p] # 0

AloneInv ==
  /\ \A p, q \in Actors : p # q /\ Busy(p) /\ Busy(q) => p \in shared
  /\ \A p \in Cycles \ (shared \cup fellBack) : Own(p)
  /\ AloneIsAttributed

IInv == TypeOK /\ LockInv /\ SnapshotInv /\ RowInv /\ AloneInv

-------------------------------------------------------------------------------
(* Every step preserves the parts of the invariant                          *)

(* The types, and where each kind of process can be.                        *)
LEMMA TypeStep ==
  ASSUME TypeOK, [Next]_vars
  PROVE  TypeOK'
<1> USE ActorAssumption DEF Cycles, Actors, Goto, callVars, loopVars, tableVars, ghostVars,
       boundVars
<1>1. ASSUME NEW p \in Cycles, Fetch(p)  PROVE TypeOK'
  BY <1>1 DEF Fetch, TypeOK, Points, ThreadPoints
<1>2. ASSUME NEW p \in Cycles, Weigh(p)  PROVE TypeOK'
  BY <1>2 DEF Weigh, TypeOK, Points, ThreadPoints
<1>3. ASSUME NEW p \in Cycles, Vote(p)  PROVE TypeOK'
  BY <1>3 DEF Vote, Takes, TypeOK, Points, ThreadPoints
<1>4. ASSUME NEW p \in Cycles, Keep(p)  PROVE TypeOK'
  BY <1>4 DEF Keep, KeepInMemory, TypeOK, Points, ThreadPoints
<1>5. ASSUME NEW p \in Cycles, Insert(p)  PROVE TypeOK'
  BY <1>5 DEF Insert, InsertRow, TypeOK, Points, ThreadPoints
<1>6. ASSUME NEW p \in Cycles, InsertAgain(p)  PROVE TypeOK'
  BY <1>6 DEF InsertAgain, InsertRow, Fault, TypeOK, Points, ThreadPoints
<1>7. ASSUME NEW p \in Cycles, InsertFails(p)  PROVE TypeOK'
  BY <1>7 DEF InsertFails, Fault, TypeOK, Points, ThreadPoints
<1>8. ASSUME NEW p \in Cycles, Snapshot(p)  PROVE TypeOK'
  <2>1. PICK x \in {"risk", "validate"} : pc' = [pc EXCEPT ![p] = x]
    BY <1>8 DEF Snapshot, Goto
  <2>2. snapshots' \in [AllIds -> Cycles \cup {None}]
    BY <1>8 DEF Snapshot, SaveSnapshot, SnapshotFor, TypeOK
  <2>3. plans' \in [AllIds -> Cycles \cup {None}]
    BY <1>8 DEF Snapshot, TypeOK
  <2> QED
    BY <1>8, <2>1, <2>2, <2>3 DEF Snapshot, TypeOK, Points, ThreadPoints
<1>9. ASSUME NEW p \in Cycles, CheckRisk(p)  PROVE TypeOK'
  BY <1>9 DEF CheckRisk, LatestId, Takes, TypeOK, Points, ThreadPoints
<1>10. ASSUME NEW p \in Cycles, Validate(p)  PROVE TypeOK'
  BY <1>10 DEF Validate, Leave, TypeOK, Points, ThreadPoints
<1>11. ASSUME NEW p \in Cycles, Fails(p)  PROVE TypeOK'
  <2>1. PICK x \in {"wait", "done"} : pc' = [pc EXCEPT ![p] = x] /\ (x = "wait" => p \in Requests)
    BY <1>11 DEF Fails, Goto
  <2>2. lock' \in Requests \cup {None}
    BY <1>11 DEF Fails, Released, TypeOK
  <2> QED
    BY <1>11, <2>1, <2>2 DEF Fails, TypeOK, Points, ThreadPoints
<1>12. ASSUME NEW p \in Requests, Acquire(p)  PROVE TypeOK'
  BY <1>12 DEF Acquire, Room, TypeOK, Points, ThreadPoints
<1>13. ASSUME NEW p \in Requests, Return(p)  PROVE TypeOK'
  BY <1>13 DEF Return, Takes, Released, TypeOK, Points, ThreadPoints
<1>14. ASSUME NEW p \in Requests, Execute(p)  PROVE TypeOK'
  BY <1>14 DEF Execute, Takes, TypeOK, Points, ThreadPoints
<1>15. ASSUME NEW p \in Validations, BeginValidation(p)  PROVE TypeOK'
  BY <1>15 DEF BeginValidation, Room, TypeOK, Points, ThreadPoints
<1>16. ASSUME NEW p \in Jobs, BeginReplay(p)  PROVE TypeOK'
  BY <1>16 DEF BeginReplay, Room, TypeOK, Points, ThreadPoints
<1>17. ASSUME NEW p \in Readers, Read(p)  PROVE TypeOK'
  BY <1>17 DEF Read, Ids, TypeOK, Points, ThreadPoints
<1>18. ASSUME NEW p \in Readers, Note(p)  PROVE TypeOK'
  BY <1>18 DEF Note, TypeOK, Points, ThreadPoints
<1>19. ASSUME NEW p \in Background, Cancel(p)  PROVE TypeOK'
  BY <1>19 DEF Cancel, Released, TypeOK, Points, ThreadPoints
<1>20. CASE Crash
  BY <1>20 DEF Crash, TypeOK, Points, ThreadPoints
<1>21. CASE UNCHANGED vars
  BY <1>21 DEF vars, TypeOK, Points, ThreadPoints
<1> QED
  BY <1>1, <1>2, <1>3, <1>4, <1>5, <1>6, <1>7, <1>8, <1>9, <1>10, <1>11, <1>12, <1>13, <1>14,
     <1>15, <1>16, <1>17, <1>18, <1>19, <1>20, <1>21 DEF Next, Step, CycleStep

(* Whoever takes the lock works, and whoever leaves its work gives it up.   *)
LEMMA LockStep ==
  ASSUME TypeOK, LockInv, [Next]_vars
  PROVE  LockInv'
<1>0. /\ pc \in [Actors -> Points] /\ abandoned \in SUBSET Requests /\ lock \in Requests \cup {None}
      /\ Requests \subseteq Cycles /\ Cycles \subseteq Actors /\ Readers \subseteq Actors
      /\ Background \subseteq Requests /\ Requests \cap (Validations \cup Jobs \cup Readers) = {}
      /\ None \notin Requests
  BY ActorAssumption DEF TypeOK, Cycles, Actors
<1> USE <1>0 DEF Goto, callVars, loopVars, tableVars, ghostVars, boundVars
<1>1. ASSUME NEW p \in Cycles, Fetch(p)  PROVE LockInv'
  BY <1>1 DEF Fetch, LockInv, LockIsHeldWhileWorking, ThreadPoints
<1>2. ASSUME NEW p \in Cycles, Weigh(p)  PROVE LockInv'
  BY <1>2 DEF Weigh, LockInv, LockIsHeldWhileWorking, ThreadPoints
<1>3. ASSUME NEW p \in Cycles, Vote(p)  PROVE LockInv'
  BY <1>3 DEF Vote, Takes, LockInv, LockIsHeldWhileWorking, ThreadPoints
<1>4. ASSUME NEW p \in Cycles, Keep(p)  PROVE LockInv'
  BY <1>4 DEF Keep, KeepInMemory, LockInv, LockIsHeldWhileWorking, ThreadPoints
<1>5. ASSUME NEW p \in Cycles, Insert(p)  PROVE LockInv'
  BY <1>5 DEF Insert, InsertRow, LockInv, LockIsHeldWhileWorking, ThreadPoints
<1>6. ASSUME NEW p \in Cycles, InsertAgain(p)  PROVE LockInv'
  BY <1>6 DEF InsertAgain, InsertRow, Fault, LockInv, LockIsHeldWhileWorking, ThreadPoints
<1>7. ASSUME NEW p \in Cycles, InsertFails(p)  PROVE LockInv'
  BY <1>7 DEF InsertFails, Fault, LockInv, LockIsHeldWhileWorking, ThreadPoints
<1>8. ASSUME NEW p \in Cycles, Snapshot(p)  PROVE LockInv'
  BY <1>8 DEF Snapshot, SaveSnapshot, SnapshotFor, Fault, LockInv, LockIsHeldWhileWorking,
     ThreadPoints
<1>9. ASSUME NEW p \in Cycles, CheckRisk(p)  PROVE LockInv'
  BY <1>9 DEF CheckRisk, LatestId, Takes, LockInv, LockIsHeldWhileWorking, ThreadPoints
<1>10. ASSUME NEW p \in Cycles, Validate(p)  PROVE LockInv'
  BY <1>10 DEF Validate, Leave, LockInv, LockIsHeldWhileWorking, ThreadPoints
<1>11. ASSUME NEW p \in Cycles, Fails(p)  PROVE LockInv'
  BY <1>11 DEF Fails, Released, Fault, Transient, Raising, LockInv, LockIsHeldWhileWorking,
     ThreadPoints
<1>12. ASSUME NEW p \in Requests, Acquire(p)  PROVE LockInv'
  BY <1>12 DEF Acquire, Room, LockInv, LockIsHeldWhileWorking, ThreadPoints
<1>13. ASSUME NEW p \in Requests, Return(p)  PROVE LockInv'
  BY <1>13 DEF Return, Takes, Released, LockInv, LockIsHeldWhileWorking, ThreadPoints
<1>14. ASSUME NEW p \in Requests, Execute(p)  PROVE LockInv'
  BY <1>14 DEF Execute, Takes, LockInv, LockIsHeldWhileWorking, ThreadPoints
<1>15. ASSUME NEW p \in Validations, BeginValidation(p)  PROVE LockInv'
  BY <1>15 DEF BeginValidation, Room, LockInv, LockIsHeldWhileWorking, ThreadPoints
<1>16. ASSUME NEW p \in Jobs, BeginReplay(p)  PROVE LockInv'
  BY <1>16 DEF BeginReplay, Room, LockInv, LockIsHeldWhileWorking, ThreadPoints
<1>17. ASSUME NEW p \in Readers, Read(p)  PROVE LockInv'
  BY <1>17 DEF Read, Room, LockInv, LockIsHeldWhileWorking, ThreadPoints
<1>18. ASSUME NEW p \in Readers, Note(p)  PROVE LockInv'
  BY <1>18 DEF Note, LockInv, LockIsHeldWhileWorking, ThreadPoints
<1>19. ASSUME NEW p \in Background, Cancel(p)  PROVE LockInv'
  BY <1>19 DEF Cancel, Released, LockInv, LockIsHeldWhileWorking, ThreadPoints
<1>20. CASE Crash
  BY <1>20 DEF Crash, LockInv, LockIsHeldWhileWorking, ThreadPoints
<1>21. CASE UNCHANGED vars
  BY <1>21 DEF vars, LockInv, LockIsHeldWhileWorking, ThreadPoints
<1> QED
  BY <1>1, <1>2, <1>3, <1>4, <1>5, <1>6, <1>7, <1>8, <1>9, <1>10, <1>11, <1>12, <1>13, <1>14,
     <1>15, <1>16, <1>17, <1>18, <1>19, <1>20, <1>21 DEF Next, Step, CycleStep

(* An id, once a cycle has it, is that of its row; rows are never changed.  *)
LEMMA SnapshotStep ==
  ASSUME TypeOK, SnapshotInv, [Next]_vars
  PROVE  SnapshotInv'
<1>0. /\ pc \in [Actors -> Points] /\ rec \in [Cycles -> Nat] /\ rows \in Seq(Cycles)
      /\ snapshots \in [AllIds -> Cycles \cup {None}] /\ plans \in [AllIds -> Cycles \cup {None}]
      /\ Cycles \subseteq Actors
      /\ Requests \subseteq Cycles /\ Validations \subseteq Cycles /\ Jobs \subseteq Cycles
      /\ Background \subseteq Cycles /\ Readers \subseteq Actors /\ None \notin Cycles
  BY ActorAssumption DEF TypeOK, Cycles, Actors
<1> USE <1>0 DEF Goto, callVars, loopVars, tableVars, ghostVars, boundVars
<1>1. ASSUME NEW p \in Cycles, Fetch(p)  PROVE SnapshotInv'
  BY <1>1 DEF Fetch, SnapshotInv, OfItsRow, Ids
<1>2. ASSUME NEW p \in Cycles, Weigh(p)  PROVE SnapshotInv'
  BY <1>2 DEF Weigh, SnapshotInv, OfItsRow, Ids
<1>3. ASSUME NEW p \in Cycles, Vote(p)  PROVE SnapshotInv'
  BY <1>3 DEF Vote, Takes, SnapshotInv, OfItsRow, Ids
<1>4. ASSUME NEW p \in Cycles, Keep(p)  PROVE SnapshotInv'
  BY <1>4 DEF Keep, KeepInMemory, SnapshotInv, OfItsRow, Ids
<1>5. ASSUME NEW p \in Cycles, Insert(p)  PROVE SnapshotInv'
  BY <1>5 DEF Insert, InsertRow, SnapshotInv, OfItsRow, Ids
<1>6. ASSUME NEW p \in Cycles, InsertAgain(p)  PROVE SnapshotInv'
  BY <1>6 DEF InsertAgain, InsertRow, Fault, SnapshotInv, OfItsRow, Ids
<1>7. ASSUME NEW p \in Cycles, InsertFails(p)  PROVE SnapshotInv'
  BY <1>7 DEF InsertFails, Fault, SnapshotInv, OfItsRow, Ids
<1>8. ASSUME NEW p \in Cycles, Snapshot(p)  PROVE SnapshotInv'
  BY <1>8 DEF Snapshot, SaveSnapshot, SnapshotFor, Fault, SnapshotInv, OfItsRow, Ids
<1>9. ASSUME NEW p \in Cycles, CheckRisk(p)  PROVE SnapshotInv'
  BY <1>9 DEF CheckRisk, LatestId, Takes, SnapshotInv, OfItsRow, Ids
<1>10. ASSUME NEW p \in Cycles, Validate(p)  PROVE SnapshotInv'
  BY <1>10 DEF Validate, Leave, SnapshotInv, OfItsRow, Ids
<1>11. ASSUME NEW p \in Cycles, Fails(p)  PROVE SnapshotInv'
  BY <1>11 DEF Fails, Released, Fault, Transient, Raising, SnapshotInv, OfItsRow, Ids
<1>12. ASSUME NEW p \in Requests, Acquire(p)  PROVE SnapshotInv'
  BY <1>12 DEF Acquire, Room, SnapshotInv, OfItsRow, Ids
<1>13. ASSUME NEW p \in Requests, Return(p)  PROVE SnapshotInv'
  BY <1>13 DEF Return, Takes, Released, SnapshotInv, OfItsRow, Ids
<1>14. ASSUME NEW p \in Requests, Execute(p)  PROVE SnapshotInv'
  BY <1>14 DEF Execute, Takes, SnapshotInv, OfItsRow, Ids
<1>15. ASSUME NEW p \in Validations, BeginValidation(p)  PROVE SnapshotInv'
  BY <1>15 DEF BeginValidation, Room, SnapshotInv, OfItsRow, Ids
<1>16. ASSUME NEW p \in Jobs, BeginReplay(p)  PROVE SnapshotInv'
  BY <1>16 DEF BeginReplay, Room, SnapshotInv, OfItsRow, Ids
<1>17. ASSUME NEW p \in Readers, Read(p)  PROVE SnapshotInv'
  BY <1>17 DEF Read, Room, SnapshotInv, OfItsRow, Ids
<1>18. ASSUME NEW p \in Readers, Note(p)  PROVE SnapshotInv'
  BY <1>18 DEF Note, SnapshotInv, OfItsRow, Ids
<1>19. ASSUME NEW p \in Background, Cancel(p)  PROVE SnapshotInv'
  BY <1>19 DEF Cancel, Released, SnapshotInv, OfItsRow, Ids
<1>20. CASE Crash
  BY <1>20 DEF Crash, SnapshotInv, OfItsRow, Ids
<1>21. CASE UNCHANGED vars
  BY <1>21 DEF vars, SnapshotInv, OfItsRow, Ids
<1> QED
  BY <1>1, <1>2, <1>3, <1>4, <1>5, <1>6, <1>7, <1>8, <1>9, <1>10, <1>11, <1>12, <1>13, <1>14,
     <1>15, <1>16, <1>17, <1>18, <1>19, <1>20, <1>21 DEF Next, Step, CycleStep

(* Only an INSERT makes a row, and no attempt begins after one.             *)
LEMMA RowStep ==
  ASSUME TypeOK, RowInv, [Next]_vars
  PROVE  RowInv'
<1>0. /\ pc \in [Actors -> Points] /\ rows \in Seq(Cycles)
      /\ Cycles \subseteq Actors
      /\ Requests \subseteq Cycles /\ Validations \subseteq Cycles /\ Jobs \subseteq Cycles
      /\ Background \subseteq Cycles /\ Readers \subseteq Actors
  BY ActorAssumption DEF TypeOK, Cycles, Actors
<1> USE <1>0 DEF Goto, callVars, loopVars, tableVars, ghostVars, boundVars
<1>1. ASSUME NEW p \in Cycles, Fetch(p)  PROVE RowInv'
  BY <1>1 DEF Fetch, RowInv, Before, Ids
<1>2. ASSUME NEW p \in Cycles, Weigh(p)  PROVE RowInv'
  BY <1>2 DEF Weigh, RowInv, Before, Ids
<1>3. ASSUME NEW p \in Cycles, Vote(p)  PROVE RowInv'
  BY <1>3 DEF Vote, Takes, RowInv, Before, Ids
<1>4. ASSUME NEW p \in Cycles, Keep(p)  PROVE RowInv'
  BY <1>4 DEF Keep, KeepInMemory, RowInv, Before, Ids
<1>5. ASSUME NEW p \in Cycles, Insert(p)  PROVE RowInv'
  BY <1>5 DEF Insert, InsertRow, RowInv, Before, Ids
<1>6. ASSUME NEW p \in Cycles, InsertAgain(p)  PROVE RowInv'
  <2>1. /\ Len(rows') = Len(rows) + 2
        /\ \A i \in 1..Len(rows) : rows'[i] = rows[i]
        /\ rows'[Len(rows) + 1] = p /\ rows'[Len(rows) + 2] = p
    BY <1>6 DEF InsertAgain, InsertRow
  <2>2. \A i \in 1..Len(rows') : rows'[i] = p \/ (i \in 1..Len(rows) /\ rows'[i] = rows[i])
    BY <2>1
  <2>3. repeated' = repeated \cup {p} /\ pc' = [pc EXCEPT ![p] = "snapshot"]
    BY <1>6 DEF InsertAgain, Goto
  <2> QED
    BY <2>2, <2>3 DEF RowInv, Before, Ids
<1>7. ASSUME NEW p \in Cycles, InsertFails(p)  PROVE RowInv'
  BY <1>7 DEF InsertFails, Fault, RowInv, Before, Ids
<1>8. ASSUME NEW p \in Cycles, Snapshot(p)  PROVE RowInv'
  BY <1>8 DEF Snapshot, SaveSnapshot, SnapshotFor, Fault, RowInv, Before, Ids
<1>9. ASSUME NEW p \in Cycles, CheckRisk(p)  PROVE RowInv'
  BY <1>9 DEF CheckRisk, LatestId, Takes, RowInv, Before, Ids
<1>10. ASSUME NEW p \in Cycles, Validate(p)  PROVE RowInv'
  BY <1>10 DEF Validate, Leave, RowInv, Before, Ids
<1>11. ASSUME NEW p \in Cycles, Fails(p)  PROVE RowInv'
  BY <1>11 DEF Fails, Released, Fault, Transient, Raising, RowInv, Before, Ids
<1>12. ASSUME NEW p \in Requests, Acquire(p)  PROVE RowInv'
  BY <1>12 DEF Acquire, Room, RowInv, Before, Ids
<1>13. ASSUME NEW p \in Requests, Return(p)  PROVE RowInv'
  BY <1>13 DEF Return, Takes, Released, RowInv, Before, Ids
<1>14. ASSUME NEW p \in Requests, Execute(p)  PROVE RowInv'
  BY <1>14 DEF Execute, Takes, RowInv, Before, Ids
<1>15. ASSUME NEW p \in Validations, BeginValidation(p)  PROVE RowInv'
  BY <1>15 DEF BeginValidation, Room, RowInv, Before, Ids
<1>16. ASSUME NEW p \in Jobs, BeginReplay(p)  PROVE RowInv'
  BY <1>16 DEF BeginReplay, Room, RowInv, Before, Ids
<1>17. ASSUME NEW p \in Readers, Read(p)  PROVE RowInv'
  BY <1>17 DEF Read, Room, RowInv, Before, Ids
<1>18. ASSUME NEW p \in Readers, Note(p)  PROVE RowInv'
  BY <1>18 DEF Note, RowInv, Before, Ids
<1>19. ASSUME NEW p \in Background, Cancel(p)  PROVE RowInv'
  BY <1>19 DEF Cancel, Released, RowInv, Before, Ids
<1>20. CASE Crash
  BY <1>20 DEF Crash, RowInv, Before, Ids
<1>21. CASE UNCHANGED vars
  BY <1>21 DEF vars, RowInv, Before, Ids
<1> QED
  BY <1>1, <1>2, <1>3, <1>4, <1>5, <1>6, <1>7, <1>8, <1>9, <1>10, <1>11, <1>12, <1>13, <1>14,
     <1>15, <1>16, <1>17, <1>18, <1>19, <1>20, <1>21 DEF Next, Step, CycleStep

\* No step but an INSERT that fails excuses a cycle that was alone until then.
OwnIsKept ==
  /\ fellBack \subseteq fellBack'
  /\ astray' \subseteq shared \cup fellBack'
  /\ \A c \in Cycles \ (shared \cup fellBack') : Own(c)'

(* One action after the other: whoever writes weights or the latest id is busy, so*)
(* a cycle that is alone has written them itself.                           *)
LEMMA OwnStep ==
  ASSUME TypeOK, AloneInv, Step
  PROVE  OwnIsKept
<1>0. /\ pc \in [Actors -> Points] /\ rec \in [Cycles -> Nat] /\ rows \in Seq(Cycles)
      /\ listed \in Nat /\ lastId \in Nat
      /\ Cycles \subseteq Actors
      /\ Requests \subseteq Cycles /\ Validations \subseteq Cycles /\ Jobs \subseteq Cycles
      /\ Background \subseteq Cycles /\ Readers \subseteq Actors /\ Readers \cap Cycles = {}
  BY ActorAssumption DEF TypeOK, Cycles, Actors
<1>a. /\ \A p, q \in Actors : p # q /\ Busy(p) /\ Busy(q) => p \in shared
      /\ \A c \in Cycles \ (shared \cup fellBack) : Own(c)
      /\ astray \subseteq shared \cup fellBack
  BY DEF AloneInv, AloneIsAttributed
<1> USE <1>0, <1>a DEF OwnIsKept, Own, After, Busy, ThreadPoints, Goto,
             callVars, loopVars, tableVars, ghostVars, boundVars
<1>1. ASSUME NEW p \in Cycles, Fetch(p)  PROVE OwnIsKept
  BY <1>1 DEF Fetch
<1>2. ASSUME NEW p \in Cycles, Weigh(p)  PROVE OwnIsKept
  BY <1>2 DEF Weigh
<1>3. ASSUME NEW p \in Cycles, Vote(p)  PROVE OwnIsKept
  BY <1>3 DEF Vote, Takes
<1>4. ASSUME NEW p \in Cycles, Keep(p)  PROVE OwnIsKept
  BY <1>4 DEF Keep, KeepInMemory
<1>5. ASSUME NEW p \in Cycles, Insert(p)  PROVE OwnIsKept
  BY <1>5 DEF Insert, InsertRow
<1>6. ASSUME NEW p \in Cycles, InsertAgain(p)  PROVE OwnIsKept
  BY <1>6 DEF InsertAgain, InsertRow, Fault
<1>7. ASSUME NEW p \in Cycles, InsertFails(p)  PROVE OwnIsKept
  BY <1>7 DEF InsertFails, Fault
<1>8. ASSUME NEW p \in Cycles, Snapshot(p)  PROVE OwnIsKept
  BY <1>8 DEF Snapshot, SaveSnapshot, SnapshotFor, Fault
<1>9. ASSUME NEW p \in Cycles, CheckRisk(p)  PROVE OwnIsKept
  BY <1>9 DEF CheckRisk, LatestId, Takes
<1>10. ASSUME NEW p \in Cycles, Validate(p)  PROVE OwnIsKept
  BY <1>10 DEF Validate, Leave
<1>11. ASSUME NEW p \in Cycles, Fails(p)  PROVE OwnIsKept
  BY <1>11 DEF Fails, Released, Fault, Transient, Raising
<1>12. ASSUME NEW p \in Requests, Acquire(p)  PROVE OwnIsKept
  BY <1>12 DEF Acquire, Room
<1>13. ASSUME NEW p \in Requests, Return(p)  PROVE OwnIsKept
  BY <1>13 DEF Return, Takes, Released
<1>14. ASSUME NEW p \in Requests, Execute(p)  PROVE OwnIsKept
  BY <1>14 DEF Execute, Takes
<1>15. ASSUME NEW p \in Validations, BeginValidation(p)  PROVE OwnIsKept
  BY <1>15 DEF BeginValidation, Room
<1>16. ASSUME NEW p \in Jobs, BeginReplay(p)  PROVE OwnIsKept
  BY <1>16 DEF BeginReplay, Room
<1>17. ASSUME NEW p \in Readers, Read(p)  PROVE OwnIsKept
  BY <1>17 DEF Read, Room
<1>18. ASSUME NEW p \in Readers, Note(p)  PROVE OwnIsKept
  BY <1>18 DEF Note
<1>19. ASSUME NEW p \in Background, Cancel(p)  PROVE OwnIsKept
  BY <1>19 DEF Cancel, Released
<1>20. CASE Crash
  BY <1>20 DEF Crash
<1> QED
  BY <1>1, <1>2, <1>3, <1>4, <1>5, <1>6, <1>7, <1>8, <1>9, <1>10, <1>11, <1>12, <1>13, <1>14,
     <1>15, <1>16, <1>17, <1>18, <1>19, <1>20 DEF Step, CycleStep

(* Who works beside another is noted in the step that makes it so.          *)
LEMMA AloneStep ==
  ASSUME TypeOK, AloneInv, [Next]_vars
  PROVE  AloneInv'
<1>1. CASE UNCHANGED vars
  BY <1>1 DEF vars, AloneInv, Own, Busy, AloneIsAttributed,
     callVars, loopVars, tableVars, ghostVars, boundVars
<1>2. CASE Step /\ Noted
  <2>1. OwnIsKept
    BY <1>2, OwnStep
  <2>2. shared \subseteq shared'
    BY <1>2 DEF Noted
  <2>3. ASSUME NEW p \in Actors, NEW q \in Actors, p # q, Busy(p)', Busy(q)'
        PROVE  p \in shared'
    <3>1. p \in Overlap' /\ q \in Overlap'
      BY <2>3 DEF Overlap, Actors, Cycles
    <3> QED
      BY <1>2, <2>3, <3>1 DEF Noted
  <2> QED
    BY <2>1, <2>2, <2>3 DEF OwnIsKept, AloneInv, AloneIsAttributed
<1> QED
  BY <1>1, <1>2 DEF Next

-------------------------------------------------------------------------------

LEMMA InitInv == Init => IInv
<1> SUFFICES ASSUME Init  PROVE IInv
  OBVIOUS
<1> USE DEF Init
<1>1. TypeOK
  BY ActorAssumption DEF TypeOK, Points, Actors, Cycles
<1>2. LockInv /\ SnapshotInv
  BY ActorAssumption DEF LockInv, LockIsHeldWhileWorking, SnapshotInv, OfItsRow, ThreadPoints,
     Cycles, Actors
<1>3. RowInv /\ AloneInv
  BY DEF RowInv, Ids, AloneInv, Own, After, Busy, ThreadPoints, AloneIsAttributed,
     Cycles, Actors
<1> QED
  BY <1>1, <1>2, <1>3 DEF IInv

LEMMA Invariance == Spec => []IInv
<1>1. IInv /\ [Next]_vars => IInv'
  BY TypeStep, LockStep, SnapshotStep, RowStep, AloneStep DEF IInv
<1> QED
  BY <1>1, InitInv, PTL DEF Spec

-------------------------------------------------------------------------------

(* The types of the variables, and which points a kind of process can be at.     *)
THEOREM TypeCorrect == Spec => []TypeOK
<1>1. IInv => TypeOK
  BY DEF IInv
<1> QED
  BY <1>1, Invariance, PTL

(* cycle_execution_lock is held exactly while a request that was not cancelled   *)
(* works: whatever makes it leave gives the lock up, and nobody else takes it.   *)
THEOREM LockFollowsWork == Spec => []LockIsHeldWhileWorking
<1>1. IInv => LockIsHeldWhileWorking
  BY DEF IInv, LockInv
<1> QED
  BY <1>1, Invariance, PTL

(* What is kept under an id describes the recommendation of that id, however     *)
(* many cycles and readers there are, unless its cycle's INSERT has failed.      *)
THEOREM SnapshotsFit == Spec => []SnapshotIsOfItsRow
<1>1. IInv => SnapshotIsOfItsRow
  BY DEF IInv, SnapshotInv, OfItsRow, SnapshotIsOfItsRow
<1> QED
  BY <1>1, Invariance, PTL

(* All attempts of a request leave one row, unless its INSERT was repeated.      *)
THEOREM OneRowPerRequest == Spec => []OneRecommendationPerRequest
<1>1. IInv => OneRecommendationPerRequest
  <2> SUFFICES ASSUME RowInv, NEW p \in Cycles \ repeated
               PROVE  Cardinality({id \in Ids : rows[id] = p}) <= 1
    BY DEF IInv, OneRecommendationPerRequest
  <2>1. CASE {id \in Ids : rows[id] = p} = {}
    BY <2>1, FS_EmptySet
  <2>2. CASE \E id \in Ids : rows[id] = p
    <3>1. PICK id \in Ids : rows[id] = p
      BY <2>2
    <3>2. {i \in Ids : rows[i] = p} = {id}
      BY <3>1 DEF RowInv
    <3> QED
      BY <3>2, FS_Singleton
  <2> QED
    BY <2>1, <2>2
<1> QED
  BY <1>1, Invariance, PTL

(* A cycle that works alone and whose row was written votes with its weights and *)
(* is checked, published and executed under its id.                              *)
THEOREM AloneIsSafe == Spec => []AloneIsAttributed
<1>1. IInv => AloneIsAttributed
  BY DEF IInv, AloneInv
<1> QED
  BY <1>1, Invariance, PTL

===============================================================================
