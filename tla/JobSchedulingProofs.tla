------------------------- MODULE JobSchedulingProofs -------------------------
(***************************************************************************)
(* Proofs about JobScheduling, for every number of pods, jobs, connections *)
(* and retries.                                                            *)
(***************************************************************************)
EXTENDS JobScheduling, TLAPS

(* An attempt that is to come has been counted, and a request that is      *)
(* being served has a connection.                                          *)
Counted ==
  /\ \A p \in Pods, j \in Jobs : timer[p][j] \notin {"none", "ended"} => left[p][j] > 0
  /\ \A p \in Pods : request[p] # NoJob => free[p] < PoolSize

(* A request is for a job of its own that was never stored.                *)
RequestsAreNew ==
  \A p \in Pods : request[p] # NoJob =>
    /\ request[p] \notin rows /\ taken[request[p]] = 0
    /\ \A q \in Pods : request[q] = request[p] => q = p

(* A stored row was not taken before, and who deletes it has locked it.    *)
RowsAreDeletedUnderLock ==
  /\ \A j \in rows : taken[j] = 0
  /\ \A j \in Jobs : lock[j] # NoPod => j \in rows
  /\ \A p \in Pods, j \in Jobs : timer[p][j] = "deleting" => lock[j] = p

(* No timer goes off early; a stored job without a timer waits for a pod   *)
(* that has yet to load the stored jobs.                                   *)
TimersAhead ==
  /\ \A p \in Pods, j \in ahead : timer[p][j] \in {"none", "set"}
  /\ \A j \in rows \intersect ahead :
       \/ \E p \in Pods : timer[p][j] = "set"
       \/ \E p \in Pods : ~loaded[p]

TypeInv == TypeOK /\ Counted

TakenUnderLock == RequestsAreNew /\ RowsAreDeletedUnderLock /\ JobTakenOnce

----------------------------------------------------------------------------
(* The attempt that ends is followed by one that was counted, or is the    *)
(* last; the other timers stay.                                            *)
LEMMA EndedAttempt ==
  ASSUME TypeInv, NEW p \in Pods, NEW j \in Jobs, NEW pair,
         timer[p][j] \in {"waiting", "reserved", "deleting"}, EndAttempt(p, j, pair)
  PROVE  /\ timer' \in [Pods -> [Jobs -> TimerStates]]
         /\ left' \in [Pods -> [Jobs -> 0..LoadedAttempts]]
         /\ \A q \in Pods, k \in Jobs : timer'[q][k] \notin {"none", "ended"} => left'[q][k] > 0
         /\ timer'[p][j] \in {"waiting", "ended"}
         /\ \A q \in Pods, k \in Jobs : q # p \/ k # j => timer'[q][k] = timer[q][k]
<1>1. left[p][j] \in 1..LoadedAttempts
  <2>1. left[p][j] > 0
    BY DEF TypeInv, Counted
  <2>2. left[p][j] \in 0..LoadedAttempts
    BY DEF TypeInv, TypeOK
  <2>. QED BY <2>1, <2>2
<1>2. LoadedAttempts \in Nat
  BY JobSchedulingAssumption DEF LoadedAttempts
<1>3. /\ left' \in [Pods -> [Jobs -> 0..LoadedAttempts]]
      /\ left'[p][j] = left[p][j] - 1
      /\ \A q \in Pods, k \in Jobs : q # p \/ k # j => left'[q][k] = left[q][k]
  <2>1. left[p][j] - 1 \in 0..LoadedAttempts
    BY <1>1, <1>2
  <2>2. left' = [left EXCEPT ![p][j] = left[p][j] - 1] /\ left \in [Pods -> [Jobs -> 0..LoadedAttempts]]
    BY DEF EndAttempt, TypeInv, TypeOK
  <2>. QED BY <2>1, <2>2
<1>4. timer'[p][j] = IF left[p][j] > 1 THEN "waiting" ELSE "ended"
  BY DEF EndAttempt, Truthy, TypeInv, TypeOK
<1>5. /\ timer' \in [Pods -> [Jobs -> TimerStates]]
      /\ \A q \in Pods, k \in Jobs : q # p \/ k # j => timer'[q][k] = timer[q][k]
  BY DEF EndAttempt, TypeInv, TypeOK, TimerStates
<1>6. ASSUME NEW q \in Pods, NEW k \in Jobs, timer'[q][k] \notin {"none", "ended"}
      PROVE  left'[q][k] > 0
  <2>1. CASE q = p /\ k = j
    BY <2>1, <1>1, <1>3, <1>4, <1>6
  <2>2. CASE q # p \/ k # j
    BY <2>2, <1>3, <1>5, <1>6 DEF TypeInv, Counted
  <2>. QED BY <2>1, <2>2
<1>. QED BY <1>3, <1>4, <1>5, <1>6

(* A timer that is started waits for the date of its job, unless the date  *)
(* has passed; the other timers stay.                                      *)
LEMMA StartedTimers ==
  ASSUME TypeInv, NEW p \in Pods, NEW jobs \in SUBSET Jobs,
         NEW attempts \in {Retries + 1, LoadedAttempts}, StartTimers(p, jobs, attempts)
  PROVE  /\ timer' \in [Pods -> [Jobs -> TimerStates]]
         /\ left' \in [Pods -> [Jobs -> 0..LoadedAttempts]]
         /\ \A q \in Pods, k \in Jobs : timer'[q][k] \notin {"none", "ended"} => left'[q][k] > 0
         /\ \A k \in jobs : timer'[p][k] = IF k \in ahead THEN "set" ELSE "ended"
         /\ \A q \in Pods, k \in Jobs : q # p \/ k \notin jobs => timer'[q][k] = timer[q][k]
<1>1. attempts \in 1..LoadedAttempts
  BY JobSchedulingAssumption DEF LoadedAttempts
<1>2. LoadedAttempts \in Nat
  BY JobSchedulingAssumption DEF LoadedAttempts
<1>3. /\ left' \in [Pods -> [Jobs -> 0..LoadedAttempts]]
      /\ \A k \in jobs : left'[p][k] = attempts
      /\ \A q \in Pods, k \in Jobs : q # p \/ k \notin jobs => left'[q][k] = left[q][k]
  BY <1>1, <1>2 DEF StartTimers, TypeInv, TypeOK
<1>4. /\ timer' \in [Pods -> [Jobs -> TimerStates]]
      /\ \A k \in jobs : timer'[p][k] = IF k \in ahead THEN "set" ELSE "ended"
      /\ \A q \in Pods, k \in Jobs : q # p \/ k \notin jobs => timer'[q][k] = timer[q][k]
  BY DEF StartTimers, TypeInv, TypeOK, TimerStates
<1>. QED BY <1>1, <1>3, <1>4 DEF TypeInv, TypeOK, Counted

(* Every variable keeps its type: retries and connections are counted      *)
(* within their bounds.                                                    *)
LEMMA TypeInvariance == TypeInv /\ [Next]_vars => TypeInv'
<1>. SUFFICES ASSUME TypeInv, [Next]_vars PROVE TypeInv'
  OBVIOUS
<1>. USE JobSchedulingAssumption, NoPodIsNoName DEF dbVars, timerVars
<1>1. ASSUME NEW p \in Pods, NEW j \in Jobs, ReserveForRequest(p, j) PROVE TypeInv'
  BY <1>1 DEF ReserveForRequest, TypeInv, TypeOK, Counted, TimerStates
<1>2. ASSUME NEW p \in Pods, NEW j \in Jobs, ReserveConnection(p, j) PROVE TypeInv'
  BY <1>2 DEF ReserveConnection, TypeInv, TypeOK, Counted, TimerStates
<1>3. ASSUME NEW p \in Pods, NEW j \in Jobs, ReserveFails(p, j) PROVE TypeInv'
  <2>1. /\ timer' \in [Pods -> [Jobs -> TimerStates]]
        /\ left' \in [Pods -> [Jobs -> 0..LoadedAttempts]]
        /\ \A q \in Pods, k \in Jobs : timer'[q][k] \notin {"none", "ended"} => left'[q][k] > 0
    BY <1>3, EndedAttempt DEF ReserveFails
  <2>. QED BY <1>3, <2>1 DEF ReserveFails, TypeInv, TypeOK, Counted
<1>4. ASSUME NEW p \in Pods, NEW j \in Jobs, DeleteRow(p, j) PROVE TypeInv'
  BY <1>4 DEF DeleteRow, TypeInv, TypeOK, Counted, TimerStates
<1>5. ASSUME NEW p \in Pods, NEW j \in Jobs, DeleteRowFails(p, j) PROVE TypeInv'
  <2>1. /\ timer' \in [Pods -> [Jobs -> TimerStates]]
        /\ left' \in [Pods -> [Jobs -> 0..LoadedAttempts]]
        /\ \A q \in Pods, k \in Jobs : timer'[q][k] \notin {"none", "ended"} => left'[q][k] > 0
    BY <1>5, EndedAttempt DEF DeleteRowFails
  <2>. QED BY <1>5, <2>1 DEF DeleteRowFails, Finally, TypeInv, TypeOK, Counted
<1>6. ASSUME NEW p \in Pods, NEW j \in Jobs, CommitAttempt(p, j) PROVE TypeInv'
  <2>1. /\ timer' \in [Pods -> [Jobs -> TimerStates]]
        /\ left' \in [Pods -> [Jobs -> 0..LoadedAttempts]]
        /\ \A q \in Pods, k \in Jobs : timer'[q][k] \notin {"none", "ended"} => left'[q][k] > 0
    <3>1. timer[p][j] = "deleting" /\ EndAttempt(p, j, "result")
      BY <1>6 DEF CommitAttempt
    <3>. QED BY <3>1, EndedAttempt
  <2>2. executed' = executed
    BY <1>6 DEF CommitAttempt, Truthy
  <2>. QED BY <1>6, <2>1, <2>2 DEF CommitAttempt, Finally, TypeInv, TypeOK, Counted
<1>7. ASSUME NEW p \in Pods, NEW j \in Jobs, CommitFails(p, j) PROVE TypeInv'
  <2>1. /\ timer' \in [Pods -> [Jobs -> TimerStates]]
        /\ left' \in [Pods -> [Jobs -> 0..LoadedAttempts]]
        /\ \A q \in Pods, k \in Jobs : timer'[q][k] \notin {"none", "ended"} => left'[q][k] > 0
    BY <1>7, EndedAttempt DEF CommitFails
  <2>. QED BY <1>7, <2>1 DEF CommitFails, Finally, TypeInv, TypeOK, Counted
<1>8. ASSUME NEW p \in Pods, StoreJob(p) PROVE TypeInv'
  <2>1. /\ timer' \in [Pods -> [Jobs -> TimerStates]]
        /\ left' \in [Pods -> [Jobs -> 0..LoadedAttempts]]
        /\ \A q \in Pods, k \in Jobs : timer'[q][k] \notin {"none", "ended"} => left'[q][k] > 0
    <3>1. {request[p]} \in SUBSET Jobs /\ StartTimers(p, {request[p]}, Retries + 1)
      BY <1>8 DEF StoreJob, TypeInv, TypeOK
    <3>. QED BY <3>1, StartedTimers
  <2>2. request[p] \in Jobs /\ free[p] + 1 \in 0..PoolSize
    BY <1>8 DEF StoreJob, TypeInv, TypeOK, Counted
  <2>. QED BY <1>8, <2>1, <2>2 DEF StoreJob, TypeInv, TypeOK, Counted
<1>9. ASSUME NEW p \in Pods, StoreJobFails(p) PROVE TypeInv'
  BY <1>9 DEF StoreJobFails, TypeInv, TypeOK, Counted, TimerStates
<1>10. ASSUME NEW p \in Pods, LoadJobs(p) PROVE TypeInv'
  <2>1. /\ timer' \in [Pods -> [Jobs -> TimerStates]]
        /\ left' \in [Pods -> [Jobs -> 0..LoadedAttempts]]
        /\ \A q \in Pods, k \in Jobs : timer'[q][k] \notin {"none", "ended"} => left'[q][k] > 0
    <3>1. rows \in SUBSET Jobs /\ StartTimers(p, rows, LoadedAttempts)
      BY <1>10 DEF LoadJobs, TypeInv, TypeOK
    <3>. QED BY <3>1, StartedTimers
  <2>. QED BY <1>10, <2>1 DEF LoadJobs, TypeInv, TypeOK, Counted
<1>11. ASSUME NEW p \in Pods, LoadJobsFails(p) PROVE TypeInv'
  BY <1>11 DEF LoadJobsFails, TypeInv, TypeOK, Counted, TimerStates
<1>12. ASSUME NEW p \in Pods, StartupCheck(p) PROVE TypeInv'
  <2>1. /\ timer' \in [Pods -> [Jobs -> TimerStates]]
        /\ left' \in [Pods -> [Jobs -> 0..LoadedAttempts]]
        /\ \A q \in Pods, k \in Jobs : timer'[q][k] \notin {"none", "ended"} => left'[q][k] > 0
    <3>1. {j \in rows : timer[p][j] = "none"} \in SUBSET Jobs /\ StartTimers(p, {j \in rows : timer[p][j] = "none"}, LoadedAttempts)
      BY <1>12 DEF StartupCheck, TypeInv, TypeOK
    <3>. QED BY <3>1, StartedTimers
  <2>. QED BY <1>12, <2>1 DEF StartupCheck, TypeInv, TypeOK, Counted
<1>13. ASSUME NEW p \in Pods, Crash(p) PROVE TypeInv'
  <2>1. /\ timer' \in [Pods -> [Jobs -> TimerStates]]
        /\ left' \in [Pods -> [Jobs -> 0..LoadedAttempts]]
        /\ \A q \in Pods, k \in Jobs : timer'[q][k] \notin {"none", "ended"} => left'[q][k] > 0
    BY <1>13 DEF Crash, TypeInv, TypeOK, Counted, TimerStates, LoadedAttempts
  <2>2. lock' \in [Jobs -> Pods \union {NoPod}]
    BY <1>13 DEF Crash, TypeInv, TypeOK
  <2>. QED BY <1>13, <2>1, <2>2 DEF Crash, TypeInv, TypeOK, Counted
<1>14. ASSUME NEW p \in Pods, Restart(p) PROVE TypeInv'
  BY <1>14 DEF Restart, TypeInv, TypeOK, Counted, TimerStates
<1>15. ASSUME NEW j \in Jobs, DateComes(j) PROVE TypeInv'
  <2>1. /\ timer' \in [Pods -> [Jobs -> TimerStates]]
        /\ \A q \in Pods, k \in Jobs :
             timer'[q][k] = IF k = j /\ timer[q][k] = "set" THEN "waiting" ELSE timer[q][k]
    BY <1>15 DEF DateComes, TypeInv, TypeOK, TimerStates
  <2>. QED BY <1>15, <2>1 DEF DateComes, TypeInv, TypeOK, Counted
<1>16. CASE UNCHANGED vars
  BY <1>16 DEF vars, TypeInv, TypeOK, Counted
<1>. QED BY <1>1, <1>2, <1>3, <1>4, <1>5, <1>6, <1>7, <1>8, <1>9, <1>10, <1>11, <1>12, <1>13, <1>14, <1>15, <1>16 DEF Next, Attempt, Start

(* The initial values have their types.                                    *)
LEMMA InitialTypes == Init => TypeInv
BY JobSchedulingAssumption DEF Init, TypeInv, TypeOK, Counted, TimerStates, LoadedAttempts

(* The values of the variables stay within their bounds, the attempts left *)
(* to a timer and the free connections of a pod included (TypeOK).         *)
THEOREM TypeCorrect == Spec => []TypeOK
<1>1. TypeInv => TypeOK
  BY DEF TypeInv
<1>. QED BY <1>1, InitialTypes, TypeInvariance, PTL DEF Spec

----------------------------------------------------------------------------
(* Requests store new jobs only, and rows go under their lock only.        *)
LEMMA TakenInvariance == TypeInv /\ TakenUnderLock /\ [Next]_vars => TakenUnderLock'
<1>. SUFFICES ASSUME TypeInv, TakenUnderLock, [Next]_vars PROVE TakenUnderLock'
  OBVIOUS
<1>. USE NoPodIsNoName DEF TakenUnderLock, dbVars, timerVars
<1>1. ASSUME NEW p \in Pods, NEW j \in Jobs, ReserveForRequest(p, j) PROVE TakenUnderLock'
  BY <1>1 DEF ReserveForRequest, TypeInv, TypeOK, RequestsAreNew, RowsAreDeletedUnderLock, JobTakenOnce
<1>2. ASSUME NEW p \in Pods, NEW j \in Jobs, ReserveConnection(p, j) PROVE TakenUnderLock'
  BY <1>2 DEF ReserveConnection, TypeInv, TypeOK, RequestsAreNew, RowsAreDeletedUnderLock, JobTakenOnce
<1>3. ASSUME NEW p \in Pods, NEW j \in Jobs, ReserveFails(p, j) PROVE TakenUnderLock'
  <2>1. /\ timer'[p][j] \in {"waiting", "ended"}
        /\ \A q \in Pods, k \in Jobs : q # p \/ k # j => timer'[q][k] = timer[q][k]
    BY <1>3, EndedAttempt DEF ReserveFails
  <2>. QED BY <1>3, <2>1 DEF ReserveFails, TypeInv, TypeOK, RequestsAreNew, RowsAreDeletedUnderLock, JobTakenOnce
<1>4. ASSUME NEW p \in Pods, NEW j \in Jobs, DeleteRow(p, j) PROVE TakenUnderLock'
  BY <1>4 DEF DeleteRow, TypeInv, TypeOK, RequestsAreNew, RowsAreDeletedUnderLock, JobTakenOnce
<1>5. ASSUME NEW p \in Pods, NEW j \in Jobs, DeleteRowFails(p, j) PROVE TakenUnderLock'
  <2>1. /\ timer'[p][j] \in {"waiting", "ended"}
        /\ \A q \in Pods, k \in Jobs : q # p \/ k # j => timer'[q][k] = timer[q][k]
    BY <1>5, EndedAttempt DEF DeleteRowFails
  <2>. QED BY <1>5, <2>1 DEF DeleteRowFails, TypeInv, TypeOK, RequestsAreNew, RowsAreDeletedUnderLock, JobTakenOnce
<1>6. ASSUME NEW p \in Pods, NEW j \in Jobs, CommitAttempt(p, j) PROVE TakenUnderLock'
  <2>1. /\ timer'[p][j] \in {"waiting", "ended"}
        /\ \A q \in Pods, k \in Jobs : q # p \/ k # j => timer'[q][k] = timer[q][k]
    BY <1>6, EndedAttempt DEF CommitAttempt
  <2>. QED BY <1>6, <2>1 DEF CommitAttempt, TypeInv, TypeOK, RequestsAreNew, RowsAreDeletedUnderLock, JobTakenOnce
<1>7. ASSUME NEW p \in Pods, NEW j \in Jobs, CommitFails(p, j) PROVE TakenUnderLock'
  <2>1. /\ timer'[p][j] \in {"waiting", "ended"}
        /\ \A q \in Pods, k \in Jobs : q # p \/ k # j => timer'[q][k] = timer[q][k]
    BY <1>7, EndedAttempt DEF CommitFails
  <2>. QED BY <1>7, <2>1 DEF CommitFails, TypeInv, TypeOK, RequestsAreNew, RowsAreDeletedUnderLock, JobTakenOnce
<1>8. ASSUME NEW p \in Pods, StoreJob(p) PROVE TakenUnderLock'
  <2>1. /\ \A k \in {request[p]} : timer'[p][k] = IF k \in ahead THEN "set" ELSE "ended"
        /\ \A q \in Pods, k \in Jobs : q # p \/ k \notin {request[p]} => timer'[q][k] = timer[q][k]
    <3>1. {request[p]} \in SUBSET Jobs /\ StartTimers(p, {request[p]}, Retries + 1)
      BY <1>8 DEF StoreJob, TypeInv, TypeOK
    <3>. QED BY <3>1, StartedTimers
  <2>. QED BY <1>8, <2>1 DEF StoreJob, TypeInv, TypeOK, RequestsAreNew, RowsAreDeletedUnderLock, JobTakenOnce
<1>9. ASSUME NEW p \in Pods, StoreJobFails(p) PROVE TakenUnderLock'
  BY <1>9 DEF StoreJobFails, TypeInv, TypeOK, RequestsAreNew, RowsAreDeletedUnderLock, JobTakenOnce
<1>10. ASSUME NEW p \in Pods, LoadJobs(p) PROVE TakenUnderLock'
  <2>1. /\ \A k \in rows : timer'[p][k] = IF k \in ahead THEN "set" ELSE "ended"
        /\ \A q \in Pods, k \in Jobs : q # p \/ k \notin rows => timer'[q][k] = timer[q][k]
    <3>1. rows \in SUBSET Jobs /\ StartTimers(p, rows, LoadedAttempts)
      BY <1>10 DEF LoadJobs, TypeInv, TypeOK
    <3>. QED BY <3>1, StartedTimers
  <2>2. \A q \in Pods, k \in Jobs : timer'[q][k] = "deleting" => timer[q][k] = "deleting"
    BY <2>1
  <2>. QED BY <1>10, <2>2 DEF LoadJobs, RequestsAreNew, RowsAreDeletedUnderLock, JobTakenOnce
<1>11. ASSUME NEW p \in Pods, LoadJobsFails(p) PROVE TakenUnderLock'
  BY <1>11 DEF LoadJobsFails, TypeInv, TypeOK, RequestsAreNew, RowsAreDeletedUnderLock, JobTakenOnce
<1>12. ASSUME NEW p \in Pods, StartupCheck(p) PROVE TakenUnderLock'
  <2>1. /\ \A k \in {j \in rows : timer[p][j] = "none"} : timer'[p][k] = IF k \in ahead THEN "set" ELSE "ended"
        /\ \A q \in Pods, k \in Jobs : q # p \/ k \notin {j \in rows : timer[p][j] = "none"} => timer'[q][k] = timer[q][k]
    <3>1. {j \in rows : timer[p][j] = "none"} \in SUBSET Jobs /\ StartTimers(p, {j \in rows : timer[p][j] = "none"}, LoadedAttempts)
      BY <1>12 DEF StartupCheck, TypeInv, TypeOK
    <3>. QED BY <3>1, StartedTimers
  <2>2. \A q \in Pods, k \in Jobs : timer'[q][k] = "deleting" => timer[q][k] = "deleting"
    BY <2>1
  <2>. QED BY <1>12, <2>2 DEF StartupCheck, RequestsAreNew, RowsAreDeletedUnderLock, JobTakenOnce
<1>13. ASSUME NEW p \in Pods, Crash(p) PROVE TakenUnderLock'
  <2>1. \A k \in Jobs : lock'[k] = IF lock[k] = p THEN NoPod ELSE lock[k]
    BY <1>13 DEF Crash, TypeInv, TypeOK
  <2>2. \A q \in Pods, k \in Jobs : timer'[q][k] = "deleting" => q # p /\ timer[q][k] = "deleting"
    BY <1>13 DEF Crash, TypeInv, TypeOK
  <2>3. \A q \in Pods : request'[q] # NoJob => request'[q] = request[q]
    BY <1>13 DEF Crash, TypeInv, TypeOK
  <2>. QED BY <1>13, <2>1, <2>2, <2>3 DEF Crash, RequestsAreNew, RowsAreDeletedUnderLock, JobTakenOnce
<1>14. ASSUME NEW p \in Pods, Restart(p) PROVE TakenUnderLock'
  BY <1>14 DEF Restart, TypeInv, TypeOK, RequestsAreNew, RowsAreDeletedUnderLock, JobTakenOnce
<1>15. ASSUME NEW j \in Jobs, DateComes(j) PROVE TakenUnderLock'
  <2>1. \A q \in Pods, k \in Jobs :
          timer'[q][k] = IF k = j /\ timer[q][k] = "set" THEN "waiting" ELSE timer[q][k]
    BY <1>15 DEF DateComes, TypeInv, TypeOK
  <2>. QED BY <1>15, <2>1 DEF DateComes, TypeInv, TypeOK, RequestsAreNew, RowsAreDeletedUnderLock, JobTakenOnce
<1>16. CASE UNCHANGED vars
  BY <1>16 DEF vars, TypeInv, TypeOK, RequestsAreNew, RowsAreDeletedUnderLock, JobTakenOnce
<1>. QED BY <1>1, <1>2, <1>3, <1>4, <1>5, <1>6, <1>7, <1>8, <1>9, <1>10, <1>11, <1>12, <1>13, <1>14, <1>15, <1>16 DEF Next, Attempt, Start

(* The row of a job is deleted by one attempt of one pod, however many     *)
(* pods have started a timer for the job and retry (JobTakenOnce).         *)
THEOREM JobTakenOnceHolds == Spec => []JobTakenOnce
<1>1. Init => TypeInv /\ TakenUnderLock
  BY InitialTypes DEF Init, TakenUnderLock, RequestsAreNew, RowsAreDeletedUnderLock, JobTakenOnce
<1>2. TakenUnderLock => JobTakenOnce
  BY DEF TakenUnderLock
<1>. QED BY <1>1, <1>2, TypeInvariance, TakenInvariance, PTL DEF Spec

----------------------------------------------------------------------------
(* A step that stores no job and leaves the timers of the jobs ahead alone *)
(* keeps them, unless it makes a pod believe that it has loaded its jobs.  *)
LEMMA TimersStayAhead ==
  ASSUME TypeInv, TimersAhead, rows' \subseteq rows, ahead' \subseteq ahead,
         \A q \in Pods, k \in ahead' : timer'[q][k] = timer[q][k],
         \A q \in Pods : loaded'[q] => loaded[q]
  PROVE  TimersAhead'
<1>1. \A q \in Pods, k \in ahead' : timer'[q][k] \in {"none", "set"}
  BY DEF TimersAhead
<1>2. ASSUME NEW k \in rows' \intersect ahead'
      PROVE  \/ \E q \in Pods : timer'[q][k] = "set"
             \/ \E q \in Pods : ~loaded'[q]
  BY DEF TimersAhead
<1>. QED BY <1>1, <1>2 DEF TimersAhead

(* A pod that knows its stored jobs starts a timer for each.               *)
LEMMA TimersInvariance == TypeInv /\ TimersAhead /\ [Next]_vars => TimersAhead'
<1>. SUFFICES ASSUME TypeInv, TimersAhead, [Next]_vars PROVE TimersAhead'
  OBVIOUS
<1>. USE DEF dbVars, timerVars
<1>1. ASSUME NEW p \in Pods, NEW j \in Jobs, ReserveForRequest(p, j) PROVE TimersAhead'
  BY <1>1 DEF ReserveForRequest, TypeInv, TypeOK, TimersAhead
<1>2. ASSUME NEW p \in Pods, NEW j \in Jobs, ReserveConnection(p, j) PROVE TimersAhead'
  BY <1>2 DEF ReserveConnection, TypeInv, TypeOK, TimersAhead
<1>3. ASSUME NEW p \in Pods, NEW j \in Jobs, ReserveFails(p, j) PROVE TimersAhead'
  <2>1. /\ timer'[p][j] \in {"waiting", "ended"}
        /\ \A q \in Pods, k \in Jobs : q # p \/ k # j => timer'[q][k] = timer[q][k]
    BY <1>3, EndedAttempt DEF ReserveFails
  <2>2. j \notin ahead
    BY <1>3 DEF ReserveFails, TimersAhead
  <2>. QED BY <1>3, <2>1, <2>2, TimersStayAhead DEF ReserveFails, TypeInv, TypeOK
<1>4. ASSUME NEW p \in Pods, NEW j \in Jobs, DeleteRow(p, j) PROVE TimersAhead'
  BY <1>4 DEF DeleteRow, TypeInv, TypeOK, TimersAhead
<1>5. ASSUME NEW p \in Pods, NEW j \in Jobs, DeleteRowFails(p, j) PROVE TimersAhead'
  <2>1. /\ timer'[p][j] \in {"waiting", "ended"}
        /\ \A q \in Pods, k \in Jobs : q # p \/ k # j => timer'[q][k] = timer[q][k]
    BY <1>5, EndedAttempt DEF DeleteRowFails
  <2>2. j \notin ahead
    BY <1>5 DEF DeleteRowFails, TimersAhead
  <2>. QED BY <1>5, <2>1, <2>2, TimersStayAhead DEF DeleteRowFails, TypeInv, TypeOK
<1>6. ASSUME NEW p \in Pods, NEW j \in Jobs, CommitAttempt(p, j) PROVE TimersAhead'
  <2>1. /\ timer'[p][j] \in {"waiting", "ended"}
        /\ \A q \in Pods, k \in Jobs : q # p \/ k # j => timer'[q][k] = timer[q][k]
    BY <1>6, EndedAttempt DEF CommitAttempt
  <2>2. j \notin ahead
    BY <1>6 DEF CommitAttempt, TimersAhead
  <2>. QED BY <1>6, <2>1, <2>2, TimersStayAhead DEF CommitAttempt, TypeInv, TypeOK
<1>7. ASSUME NEW p \in Pods, NEW j \in Jobs, CommitFails(p, j) PROVE TimersAhead'
  <2>1. /\ timer'[p][j] \in {"waiting", "ended"}
        /\ \A q \in Pods, k \in Jobs : q # p \/ k # j => timer'[q][k] = timer[q][k]
    BY <1>7, EndedAttempt DEF CommitFails
  <2>2. j \notin ahead
    BY <1>7 DEF CommitFails, TimersAhead
  <2>. QED BY <1>7, <2>1, <2>2, TimersStayAhead DEF CommitFails, TypeInv, TypeOK
<1>8. ASSUME NEW p \in Pods, StoreJob(p) PROVE TimersAhead'
  <2>1. /\ \A k \in {request[p]} : timer'[p][k] = IF k \in ahead THEN "set" ELSE "ended"
        /\ \A q \in Pods, k \in Jobs : q # p \/ k \notin {request[p]} => timer'[q][k] = timer[q][k]
    <3>1. {request[p]} \in SUBSET Jobs /\ StartTimers(p, {request[p]}, Retries + 1)
      BY <1>8 DEF StoreJob, TypeInv, TypeOK
    <3>. QED BY <3>1, StartedTimers
  <2>2. request[p] \in ahead => timer'[p][request[p]] = "set"
    BY <2>1
  <2>3. ASSUME NEW q \in Pods, NEW k \in ahead
        PROVE  timer'[q][k] \in {"none", "set"} /\ (timer[q][k] = "set" => timer'[q][k] = "set")
    BY <1>8, <2>1, <2>3 DEF StoreJob, TypeInv, TypeOK, TimersAhead
  <2>. QED BY <1>8, <2>2, <2>3 DEF StoreJob, TimersAhead
<1>9. ASSUME NEW p \in Pods, StoreJobFails(p) PROVE TimersAhead'
  BY <1>9 DEF StoreJobFails, TypeInv, TypeOK, TimersAhead
<1>10. ASSUME NEW p \in Pods, LoadJobs(p) PROVE TimersAhead'
  <2>1. /\ \A k \in rows : timer'[p][k] = IF k \in ahead THEN "set" ELSE "ended"
        /\ \A q \in Pods, k \in Jobs : q # p \/ k \notin rows => timer'[q][k] = timer[q][k]
    <3>1. rows \in SUBSET Jobs /\ StartTimers(p, rows, LoadedAttempts)
      BY <1>10 DEF LoadJobs, TypeInv, TypeOK
    <3>. QED BY <3>1, StartedTimers
  <2>2. ASSUME NEW k \in ahead, k \in rows PROVE timer'[p][k] = "set"
    BY <1>10, <2>1, <2>2 DEF LoadJobs, TypeInv, TypeOK, TimersAhead
  <2>3. ASSUME NEW q \in Pods, NEW k \in ahead PROVE timer'[q][k] \in {"none", "set"}
    <3>1. k \in Jobs /\ timer[q][k] \in {"none", "set"}
      BY DEF TypeInv, TypeOK, TimersAhead
    <3>. QED BY <2>1, <3>1
  <2>. QED BY <1>10, <2>2, <2>3 DEF LoadJobs, TimersAhead
<1>11. ASSUME NEW p \in Pods, LoadJobsFails(p) PROVE TimersAhead'
  BY <1>11 DEF LoadJobsFails, TypeInv, TypeOK, TimersAhead
<1>12. ASSUME NEW p \in Pods, StartupCheck(p) PROVE TimersAhead'
  <2>1. /\ \A k \in {j \in rows : timer[p][j] = "none"} : timer'[p][k] = IF k \in ahead THEN "set" ELSE "ended"
        /\ \A q \in Pods, k \in Jobs : q # p \/ k \notin {j \in rows : timer[p][j] = "none"} => timer'[q][k] = timer[q][k]
    <3>1. {j \in rows : timer[p][j] = "none"} \in SUBSET Jobs /\ StartTimers(p, {j \in rows : timer[p][j] = "none"}, LoadedAttempts)
      BY <1>12 DEF StartupCheck, TypeInv, TypeOK
    <3>. QED BY <3>1, StartedTimers
  <2>2. ASSUME NEW k \in ahead, k \in rows PROVE timer'[p][k] = "set"
    BY <1>12, <2>1, <2>2 DEF StartupCheck, TypeInv, TypeOK, TimersAhead
  <2>3. ASSUME NEW q \in Pods, NEW k \in ahead PROVE timer'[q][k] \in {"none", "set"}
    <3>1. k \in Jobs /\ timer[q][k] \in {"none", "set"}
      BY DEF TypeInv, TypeOK, TimersAhead
    <3>. QED BY <2>1, <3>1
  <2>. QED BY <1>12, <2>2, <2>3 DEF StartupCheck, TimersAhead
<1>13. ASSUME NEW p \in Pods, Crash(p) PROVE TimersAhead'
  <2>1. \A q \in Pods, k \in Jobs : timer'[q][k] \in {"none", timer[q][k]}
    BY <1>13 DEF Crash, TypeInv, TypeOK
  <2>2. ~loaded'[p]
    BY <1>13 DEF Crash, TypeInv, TypeOK
  <2>. QED BY <1>13, <2>1, <2>2 DEF Crash, TypeInv, TypeOK, TimersAhead
<1>14. ASSUME NEW p \in Pods, Restart(p) PROVE TimersAhead'
  BY <1>14 DEF Restart, TypeInv, TypeOK, TimersAhead
<1>15. ASSUME NEW j \in Jobs, DateComes(j) PROVE TimersAhead'
  <2>1. \A q \in Pods, k \in Jobs :
          timer'[q][k] = IF k = j /\ timer[q][k] = "set" THEN "waiting" ELSE timer[q][k]
    BY <1>15 DEF DateComes, TypeInv, TypeOK
  <2>. QED BY <1>15, <2>1, TimersStayAhead DEF DateComes, TypeInv, TypeOK
<1>16. CASE UNCHANGED vars
  BY <1>16 DEF vars, TypeInv, TypeOK, TimersAhead
<1>. QED BY <1>1, <1>2, <1>3, <1>4, <1>5, <1>6, <1>7, <1>8, <1>9, <1>10, <1>11, <1>12, <1>13, <1>14, <1>15, <1>16 DEF Next, Attempt, Start

(* No job is forgotten while its date lies ahead: when all pods serve and  *)
(* have loaded the stored jobs, each has a timer (StoredJobsHaveTimers).   *)
THEOREM StoredJobsHaveTimersHolds == Spec => []StoredJobsHaveTimers
<1>1. Init => TypeInv /\ TimersAhead
  BY InitialTypes DEF Init, TimersAhead
<1>2. TimersAhead => StoredJobsHaveTimers
  BY DEF TimersAhead, StoredJobsHaveTimers
<1>. QED BY <1>1, <1>2, TypeInvariance, TimersInvariance, PTL DEF Spec
=============================================================================
