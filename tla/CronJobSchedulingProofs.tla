----------------------- MODULE CronJobSchedulingProofs -----------------------
(***************************************************************************)
(* Proofs about CronJobScheduling, for every number of pods, connections   *)
(* and schedule times, every period and every list of retry intervals.     *)
(***************************************************************************)
EXTENDS CronJobScheduling, TLAPS, FiniteSetTheorems

(* The firings of p that hold a connection.                                *)
Holding(p) == {f \in Firings : f[1] = p /\ pc[f] \in {"reserved", "begun", "running"}}

TypeInv == TypeOK /\ ConnectionsAccounted

----------------------------------------------------------------------------
(* What the theorems about schedule times rest on: what is due is done     *)
(* before time goes on; and a retry does not start together with a later   *)
(* firing, unless there have been as many attempts as periods until then.  *)
(* delay[k] is the time from the firing to its attempt k.  The default     *)
(* retry intervals, 1, 2, 5, 10, 30, 60, 120 and 500 s, lead to attempts   *)
(* 0, 1, 3, 8, 18, 48, 108, 228 and 728 s after the firing: never a whole  *)
(* number of minutes.                                                      *)
OnTime(delay) ==
  /\ Punctual
  /\ delay \in [1..(Len(RetryIntervals) + 1) -> Nat]
  /\ delay[1] = 0
  /\ \A k \in 1..Len(RetryIntervals) :
       /\ delay[k + 1] = delay[k] + RetryIntervals[k]
       /\ \/ \A m \in Nat : delay[k + 1] # m * Period
          \/ delay[k + 1] < (k + 1) * Period

UnderWay == {"waiting", "reserved", "begun", "running"}

(* A firing comes at its schedule time and each attempt starts when it is  *)
(* due; the one that runs has locked a row that is due.                    *)
AttemptsOnTime(delay) ==
  \A f \in Firings :
    /\ pc[f] = "idle" => attempt[f] = 1 /\ steps[f] = 0 /\ (up[f[1]] => now <= f[2] * Period)
    /\ pc[f] \in UnderWay =>
         now <= due[f] /\ base[f] = f[2] /\ due[f] = f[2] * Period + delay[attempt[f]]
    /\ pc[f] \in {"reserved", "begun", "running"} => now = due[f]
    /\ pc[f] = "running" => holder = f /\ next = now

(* interval.next() was called in the attempt that is in its executable.    *)
StepsTaken == \A f \in Firings : pc[f] \in {"begun", "running"} => steps[f] >= 1

(* The row holds a schedule time.                                          *)
RowOnSchedule == \E n \in Nat : next = n * Period

ScheduleInv(delay) == AttemptsOnTime(delay) /\ StepsTaken /\ RowOnSchedule

(* The row does not hold a schedule time that was served, unless it was    *)
(* written late.                                                           *)
ServedOnce ==
  \A k \in Schedules :
    k \in unmoved \/ (runs[k] <= 1 /\ (runs[k] > 0 => k * Period <= now /\ k * Period # next))

(* No pod has crashed and no firing is at its second attempt.              *)
Undisturbed == crashes = 0 /\ \A f \in Firings : attempt[f] = 1

(* Firings fire at their schedule time and have served it, or found it     *)
(* served, before the time goes on.                                        *)
FiringsOnTime ==
  /\ \A p \in Pods : up[p]
  /\ \A f \in Firings :
       /\ pc[f] # "lost"
       /\ pc[f] = "idle" => now <= f[2] * Period
       /\ pc[f] \in UnderWay => base[f] = f[2] /\ due[f] = f[2] * Period
       /\ pc[f] \in {"idle", "waiting", "reserved"} => steps[f] = 0
       /\ pc[f] \in {"begun", "running"} => steps[f] = 1
       /\ pc[f] = "finished" => f[2] * Period < next

(* The row stands at the first schedule time that was not served.          *)
RowFollows ==
  \E n \in Nat \ {0} :
    /\ next = n * Period
    /\ now <= next \/ n > MaxFirings
    /\ \A k \in Schedules : k < n => runs[k] > 0

UndisturbedInv == Undisturbed => FiringsOnTime /\ RowFollows

----------------------------------------------------------------------------
(* Times that are multiples of the period                                  *)

(* The multiples of the period grow with their factor.                     *)
LEMMA PeriodTimes ==
  /\ \A a \in Nat : a * Period \in Nat /\ (a + 1) * Period = a * Period + Period
  /\ \A a, b \in Nat : a < b => a * Period + Period <= b * Period
  /\ \A a, b \in Nat : a * Period < b * Period => a < b
  /\ \A a, b \in Nat : a * Period = b * Period => a = b
  /\ \A a \in Nat : (a * Period) \div Period = a
BY CronAssumption

(* Sums of multiples of the period are multiples of the period.            *)
LEMMA PeriodSum == \A a, b \in Nat : (a + b) * Period = a * Period + b * Period /\ a + b \in Nat
BY CronAssumption

(* The schedule times that have passed are counted by the quotient.        *)
LEMMA PeriodDiv ==
  \A t \in Nat :
    /\ t \div Period \in Nat
    /\ (t \div Period) * Period <= t /\ t < (t \div Period) * Period + Period
BY CronAssumption

----------------------------------------------------------------------------
(* Connections                                                             *)

(* A pod holds finitely many connections.                                  *)
LEMMA HoldingFinite ==
  ASSUME NEW p \in Pods
  PROVE  IsFiniteSet(Holding(p)) /\ IsFiniteSet(Holding(p)') /\ Cardinality(Holding(p)) \in Nat
<1>1. IsFiniteSet({p} \X Schedules)
  <2>1. IsFiniteSet({p})
    BY FS_Singleton
  <2>2. IsFiniteSet(Schedules)
    BY CronAssumption, FS_Interval DEF Schedules
  <2>. QED BY <2>1, <2>2, FS_Product
<1>2. Holding(p) \subseteq {p} \X Schedules /\ Holding(p)' \subseteq {p} \X Schedules
  BY DEF Holding, Firings
<1>3. IsFiniteSet(Holding(p)) /\ IsFiniteSet(Holding(p)')
  BY <1>1, <1>2, FS_Subset
<1>. QED BY <1>3, FS_CardinalityType

(* The connections in use are those that are held.                         *)
LEMMA AccountedByHolding ==
  /\ ConnectionsAccounted <=> \A p \in Pods : free[p] + Cardinality(Holding(p)) = PoolSize
  /\ ConnectionsAccounted' <=> \A p \in Pods : free'[p] + Cardinality(Holding(p)') = PoolSize
BY DEF ConnectionsAccounted, Holding

(* An attempt that reserves a connection takes it from its pod's pool.     *)
LEMMA ConnectionTaken ==
  ASSUME TypeInv, NEW f \in Firings, pc[f] = "waiting", pc' = [pc EXCEPT ![f] = "reserved"],
         free[f[1]] > 0, free' = [free EXCEPT ![f[1]] = @ - 1]
  PROVE  free' \in [Pods -> 0..PoolSize] /\ ConnectionsAccounted'
<1>1. f[1] \in Pods /\ f \notin Holding(f[1])
  BY DEF Firings, Holding
<1>2. free' \in [Pods -> 0..PoolSize]
  <2>1. free \in [Pods -> 0..PoolSize] /\ free[f[1]] \in 0..PoolSize /\ PoolSize \in Nat
    BY <1>1, CronAssumption DEF TypeInv, TypeOK
  <2>2. free[f[1]] - 1 \in 0..PoolSize
    BY <2>1
  <2>. QED BY <2>1, <2>2
<1>3. \A p \in Pods : Holding(p)' = IF p = f[1] THEN Holding(p) \union {f} ELSE Holding(p)
  BY DEF TypeInv, TypeOK, Holding
<1>4. ASSUME NEW p \in Pods PROVE free'[p] + Cardinality(Holding(p)') = PoolSize
  <2>1. free[p] + Cardinality(Holding(p)) = PoolSize /\ free[p] \in Nat /\ Cardinality(Holding(p)) \in Nat
    BY HoldingFinite, AccountedByHolding, CronAssumption DEF TypeInv, TypeOK
  <2>2. CASE p = f[1]
    <3>1. Cardinality(Holding(p)') = Cardinality(Holding(p)) + 1
      BY <2>2, <1>1, <1>3, HoldingFinite, FS_AddElement
    <3>2. free'[p] = free[p] - 1
      BY <2>2 DEF TypeInv, TypeOK
    <3>. QED BY <2>1, <3>1, <3>2
  <2>3. CASE p # f[1]
    <3>1. free'[p] = free[p]
      BY <2>3 DEF TypeInv, TypeOK
    <3>. QED BY <2>1, <2>3, <1>3, <3>1
  <2>. QED BY <2>2, <2>3
<1>. QED BY <1>2, <1>4, AccountedByHolding

(* An attempt that ends returns its connection to its pod's pool.          *)
LEMMA ConnectionReturned ==
  ASSUME TypeInv, NEW f \in Firings, pc[f] \in {"reserved", "begun", "running"},
         NEW label \in {"waiting", "finished"}, pc' = [pc EXCEPT ![f] = label], Release(f)
  PROVE  free' \in [Pods -> 0..PoolSize] /\ ConnectionsAccounted'
<1>1. f[1] \in Pods /\ f \in Holding(f[1])
  BY DEF Firings, Holding
<1>2. \A p \in Pods : Holding(p)' = IF p = f[1] THEN Holding(p) \ {f} ELSE Holding(p)
  BY DEF TypeInv, TypeOK, Holding
<1>3. ASSUME NEW p \in Pods
      PROVE  free'[p] + Cardinality(Holding(p)') = PoolSize /\ free'[p] \in 0..PoolSize
  <2>1. /\ free[p] + Cardinality(Holding(p)) = PoolSize
        /\ free[p] \in Nat /\ Cardinality(Holding(p)) \in Nat /\ PoolSize \in Nat
    BY HoldingFinite, AccountedByHolding, CronAssumption DEF TypeInv, TypeOK
  <2>2. CASE p = f[1]
    <3>1. Cardinality(Holding(p)') = Cardinality(Holding(p)) - 1 /\ Cardinality(Holding(p)') \in Nat
      <4>1. Cardinality(Holding(p)') = Cardinality(Holding(p)) - 1
        BY <2>2, <1>1, <1>2, HoldingFinite, FS_RemoveElement
      <4>. QED BY <4>1, HoldingFinite, FS_CardinalityType
    <3>2. free'[p] = free[p] + 1
      BY <2>2 DEF Release, TypeInv, TypeOK
    <3>. QED BY <2>1, <3>1, <3>2
  <2>3. CASE p # f[1]
    <3>1. free'[p] = free[p]
      BY <2>3 DEF Release, TypeInv, TypeOK
    <3>. QED BY <2>1, <2>3, <1>2, <3>1
  <2>. QED BY <2>2, <2>3
<1>4. free' \in [Pods -> 0..PoolSize]
  BY <1>3 DEF Release, TypeInv, TypeOK
<1>. QED BY <1>3, <1>4, AccountedByHolding

(* Other steps leave the connections where they are.                       *)
LEMMA ConnectionsKept ==
  ASSUME TypeInv, UNCHANGED free,
         \A f \in Firings : pc'[f] \in {"reserved", "begun", "running"} <=> pc[f] \in {"reserved", "begun", "running"}
  PROVE  ConnectionsAccounted'
<1>1. \A p \in Pods : Holding(p)' = Holding(p)
  BY DEF Holding
<1>. QED BY <1>1, AccountedByHolding DEF TypeInv

----------------------------------------------------------------------------
(* After an attempt that ends, the firing waits for the next one, which an *)
(* error and a retry interval lead to, or is finished.                     *)
LEMMA EndedAttempt ==
  ASSUME TypeOK, NEW f \in Firings, NEW error \in BOOLEAN, EndAttempt(f, error)
  PROVE  /\ pc' \in [Firings -> {"idle", "waiting", "reserved", "begun", "running", "finished", "lost"}]
         /\ attempt' \in [Firings -> 1..(Len(RetryIntervals) + 1)]
         /\ due' \in [Firings -> Nat]
         /\ steps' \in [Firings -> Nat]
         /\ \E label \in {"waiting", "finished"} : pc' = [pc EXCEPT ![f] = label]
         /\ pc'[f] = "waiting" =>
              /\ error /\ attempt[f] \in 1..Len(RetryIntervals)
              /\ attempt' = [attempt EXCEPT ![f] = attempt[f] + 1]
              /\ due' = [due EXCEPT ![f] = now + RetryIntervals[attempt[f]]]
              /\ UNCHANGED steps
         /\ pc'[f] = "finished" => UNCHANGED <<attempt, due>>
         /\ \A g \in Firings \ {f} :
              /\ pc'[g] = pc[g] /\ attempt'[g] = attempt[g]
              /\ due'[g] = due[g] /\ steps'[g] = steps[g]
         /\ ~error => pc'[f] = "finished"
         /\ error /\ RetryIntervals # <<>> /\ attempt[f] = 1 => pc'[f] = "waiting"
<1>1. /\ Len(RetryIntervals) \in Nat
      /\ \A i \in 1..Len(RetryIntervals) : RetryIntervals[i] \in Nat \ {0}
      /\ RetryIntervals # <<>> => Len(RetryIntervals) > 0
  BY CronAssumption
<1>2. attempt[f] \in 1..(Len(RetryIntervals) + 1) /\ now \in Nat
  BY CronAssumption DEF TypeOK
<1>3. CASE error /\ attempt[f] <= Len(RetryIntervals)
  <2>1. attempt[f] \in 1..Len(RetryIntervals) /\ attempt[f] + 1 \in 1..(Len(RetryIntervals) + 1)
    BY <1>1, <1>2, <1>3
  <2>2. now + RetryIntervals[attempt[f]] \in Nat
    BY <1>1, <1>2, <2>1
  <2>3. /\ pc' = [pc EXCEPT ![f] = "waiting"]
        /\ attempt' = [attempt EXCEPT ![f] = attempt[f] + 1]
        /\ due' = [due EXCEPT ![f] = now + RetryIntervals[attempt[f]]]
        /\ UNCHANGED steps
    BY <1>3 DEF EndAttempt
  <2>. QED BY <1>3, <2>1, <2>2, <2>3 DEF TypeOK
<1>4. CASE ~(error /\ attempt[f] <= Len(RetryIntervals))
  <2>1. /\ pc' = [pc EXCEPT ![f] = "finished"] /\ UNCHANGED <<attempt, due>>
        /\ steps' = [steps EXCEPT ![f] = 0]
    BY <1>4 DEF EndAttempt
  <2>. QED BY <1>1, <1>4, <2>1 DEF TypeOK
<1>. QED BY <1>3, <1>4

(* The initial values have their types and all connections are free.       *)
LEMMA InitialTypes == Init => TypeInv
<1>. SUFFICES ASSUME Init PROVE TypeInv
  OBVIOUS
<1>1. TypeOK
  BY CronAssumption DEF Init, TypeOK
<1>2. ASSUME NEW p \in Pods PROVE free[p] + Cardinality(Holding(p)) = PoolSize
  <2>1. Holding(p) = {}
    BY DEF Init, Holding
  <2>. QED BY <2>1, FS_EmptySet, CronAssumption DEF Init
<1>. QED BY <1>1, <1>2, AccountedByHolding DEF TypeInv

(* No path of an attempt keeps a connection.                               *)
LEMMA TypeInvariance == TypeInv /\ [Next]_vars => TypeInv'
<1>. SUFFICES ASSUME TypeInv, [Next]_vars PROVE TypeInv'
  OBVIOUS
<1>. USE DEF rowVars
<1>1. ASSUME NEW f \in Firings, Fire(f) PROVE TypeInv'
  <2>1. now \in Nat /\ now \div Period \in Nat
    <3>1. now \in Nat
      BY CronAssumption DEF TypeInv, TypeOK
    <3>. QED BY <3>1, PeriodDiv
  <2>2. ConnectionsAccounted'
    BY <1>1, ConnectionsKept DEF Fire, TypeInv, TypeOK
  <2>. QED BY <1>1, <2>1, <2>2 DEF Fire, TypeInv, TypeOK
<1>2. ASSUME NEW f \in Firings, Reserve(f) PROVE TypeInv'
  BY <1>2, ConnectionTaken DEF Reserve, TypeInv, TypeOK
<1>3. ASSUME NEW f \in Firings, ReserveFails(f) PROVE TypeInv'
  <2>1. ConnectionsAccounted'
    BY <1>3, EndedAttempt, ConnectionsKept DEF ReserveFails, TypeInv, TypeOK
  <2>. QED BY <1>3, <2>1, EndedAttempt DEF ReserveFails, EndAttempt, TypeInv, TypeOK
<1>a. ASSUME NEW f \in Firings, Begin(f) PROVE TypeInv'
  <2>1. ConnectionsAccounted'
    BY <1>a, ConnectionsKept DEF Begin, TypeInv, TypeOK
  <2>. QED BY <1>a, <2>1 DEF Begin, TypeInv, TypeOK
<1>b. ASSUME NEW f \in Firings, BeginFails(f) PROVE TypeInv'
  <2>1. EndAttempt(f, TRUE) /\ Release(f) /\ pc[f] \in {"reserved", "begun", "running"}
    BY <1>b DEF BeginFails
  <2>2. free' \in [Pods -> 0..PoolSize] /\ ConnectionsAccounted'
    BY <2>1, EndedAttempt, ConnectionReturned DEF TypeInv
  <2>3. /\ pc' \in [Firings -> {"idle", "waiting", "reserved", "begun", "running", "finished", "lost"}]
        /\ attempt' \in [Firings -> 1..(Len(RetryIntervals) + 1)]
        /\ due' \in [Firings -> Nat] /\ steps' \in [Firings -> Nat]
    BY <2>1, EndedAttempt DEF TypeInv
  <2>4. UNCHANGED <<now, up, base, crashes>>
    BY <2>1 DEF EndAttempt
  <2>. QED BY <1>b, <2>2, <2>3, <2>4 DEF BeginFails, TypeInv, TypeOK
<1>4. ASSUME NEW f \in Firings, UpdateRow(f) PROVE TypeInv'
  <2>1. ConnectionsAccounted'
    BY <1>4, ConnectionsKept DEF UpdateRow, TypeInv, TypeOK
  <2>. QED BY <1>4, <2>1 DEF UpdateRow, TypeInv, TypeOK
<1>5. ASSUME NEW f \in Firings, Skip(f) PROVE TypeInv'
  <2>1. EndAttempt(f, FALSE) /\ Release(f) /\ pc[f] \in {"reserved", "begun", "running"}
    BY <1>5 DEF Skip
  <2>2. free' \in [Pods -> 0..PoolSize] /\ ConnectionsAccounted'
    BY <2>1, EndedAttempt, ConnectionReturned DEF TypeInv
  <2>3. /\ pc' \in [Firings -> {"idle", "waiting", "reserved", "begun", "running", "finished", "lost"}]
        /\ attempt' \in [Firings -> 1..(Len(RetryIntervals) + 1)]
        /\ due' \in [Firings -> Nat] /\ steps' \in [Firings -> Nat]
    BY <2>1, EndedAttempt DEF TypeInv
  <2>4. UNCHANGED <<now, up, base, crashes>>
    BY <2>1 DEF EndAttempt
  <2>. QED BY <1>5, <2>2, <2>3, <2>4 DEF Skip, TypeInv, TypeOK
<1>6. ASSUME NEW f \in Firings, UpdateRowFails(f) PROVE TypeInv'
  <2>1. EndAttempt(f, TRUE) /\ Release(f) /\ pc[f] \in {"reserved", "begun", "running"}
    BY <1>6 DEF UpdateRowFails
  <2>2. free' \in [Pods -> 0..PoolSize] /\ ConnectionsAccounted'
    BY <2>1, EndedAttempt, ConnectionReturned DEF TypeInv
  <2>3. /\ pc' \in [Firings -> {"idle", "waiting", "reserved", "begun", "running", "finished", "lost"}]
        /\ attempt' \in [Firings -> 1..(Len(RetryIntervals) + 1)]
        /\ due' \in [Firings -> Nat] /\ steps' \in [Firings -> Nat]
    BY <2>1, EndedAttempt DEF TypeInv
  <2>4. UNCHANGED <<now, up, base, crashes>>
    BY <2>1 DEF EndAttempt
  <2>. QED BY <1>6, <2>2, <2>3, <2>4 DEF UpdateRowFails, TypeInv, TypeOK
<1>7. ASSUME NEW f \in Firings, CommitRun(f) PROVE TypeInv'
  <2>1. EndAttempt(f, FALSE) /\ Release(f) /\ pc[f] \in {"reserved", "begun", "running"}
    BY <1>7 DEF CommitRun
  <2>2. free' \in [Pods -> 0..PoolSize] /\ ConnectionsAccounted'
    BY <2>1, EndedAttempt, ConnectionReturned DEF TypeInv
  <2>3. /\ pc' \in [Firings -> {"idle", "waiting", "reserved", "begun", "running", "finished", "lost"}]
        /\ attempt' \in [Firings -> 1..(Len(RetryIntervals) + 1)]
        /\ due' \in [Firings -> Nat] /\ steps' \in [Firings -> Nat]
    BY <2>1, EndedAttempt DEF TypeInv
  <2>4. UNCHANGED <<now, up, base, crashes>>
    BY <2>1 DEF EndAttempt
  <2>5. next' \in Nat /\ runs' \in [Schedules -> Nat]
    <3>1. NextSchedule(f) \in Nat
      BY CronAssumption, PeriodTimes DEF NextSchedule, TypeInv, TypeOK
    <3>. QED BY <1>7, <3>1 DEF CommitRun, TypeInv, TypeOK
  <2>. QED BY <1>7, <2>2, <2>3, <2>4, <2>5 DEF CommitRun, TypeInv, TypeOK
<1>8. ASSUME NEW f \in Firings, RollbackRun(f) PROVE TypeInv'
  <2>1. EndAttempt(f, TRUE) /\ Release(f) /\ pc[f] \in {"reserved", "begun", "running"}
    BY <1>8 DEF RollbackRun
  <2>2. free' \in [Pods -> 0..PoolSize] /\ ConnectionsAccounted'
    BY <2>1, EndedAttempt, ConnectionReturned DEF TypeInv
  <2>3. /\ pc' \in [Firings -> {"idle", "waiting", "reserved", "begun", "running", "finished", "lost"}]
        /\ attempt' \in [Firings -> 1..(Len(RetryIntervals) + 1)]
        /\ due' \in [Firings -> Nat] /\ steps' \in [Firings -> Nat]
    BY <2>1, EndedAttempt DEF TypeInv
  <2>4. UNCHANGED <<now, up, base, crashes>>
    BY <2>1 DEF EndAttempt
  <2>. QED BY <1>8, <2>2, <2>3, <2>4 DEF RollbackRun, TypeInv, TypeOK
<1>9. ASSUME NEW p \in Pods, Crash(p) PROVE TypeInv'
  <2>1. \A q \in Pods : Holding(q)' = IF q = p THEN {} ELSE Holding(q)
    BY <1>9 DEF Crash, TypeInv, TypeOK, Holding
  <2>2. \A q \in Pods : free'[q] = IF q = p THEN PoolSize ELSE free[q]
    BY <1>9 DEF Crash, TypeInv, TypeOK
  <2>3. ASSUME NEW q \in Pods PROVE free'[q] + Cardinality(Holding(q)') = PoolSize
    <3>1. CASE q = p
      <4>1. Cardinality(Holding(q)') = 0
        BY <2>1, <3>1, FS_EmptySet
      <4>. QED BY <2>2, <3>1, <4>1, CronAssumption
    <3>2. CASE q # p
      BY <2>1, <2>2, <3>2, AccountedByHolding DEF TypeInv
    <3>. QED BY <3>1, <3>2
  <2>4. ConnectionsAccounted'
    BY <2>3, AccountedByHolding
  <2>5. TypeOK'
    BY <1>9, CronAssumption DEF Crash, TypeInv, TypeOK
  <2>. QED BY <2>4, <2>5 DEF TypeInv
<1>10. ASSUME NEW p \in Pods, Start(p) PROVE TypeInv'
  <2>1. ConnectionsAccounted'
    BY <1>10, ConnectionsKept DEF Start, TypeInv, TypeOK
  <2>2. next' \in Nat
    <3>1. now \in Nat
      BY CronAssumption DEF TypeInv, TypeOK
    <3>2. now \div Period + 1 \in Nat
      BY <3>1, PeriodDiv
    <3>3. (now \div Period + 1) * Period \in Nat
      BY <3>2, PeriodTimes
    <3>. QED BY <1>10, <3>3 DEF Start
  <2>. QED BY <1>10, <2>1, <2>2 DEF Start, TypeInv, TypeOK
<1>11. CASE Tick
  <2>1. ConnectionsAccounted'
    BY <1>11, ConnectionsKept DEF Tick
  <2>. QED BY <1>11, <2>1, CronAssumption DEF Tick, TypeInv, TypeOK
<1>12. CASE UNCHANGED vars
  BY <1>12, ConnectionsKept DEF vars, TypeInv, TypeOK
<1>. QED BY <1>a, <1>b, <1>1, <1>2, <1>3, <1>4, <1>5, <1>6, <1>7, <1>8, <1>9, <1>10, <1>11, <1>12
         DEF Next, Attempt

(* Times, attempts and free connections stay within their bounds (TypeOK). *)
THEOREM TypeCorrect == Spec => []TypeOK
<1>1. TypeInv => TypeOK
  BY DEF TypeInv
<1>. QED BY <1>1, InitialTypes, TypeInvariance, PTL DEF Spec

(* What is not free is held by an attempt under way: no path of an attempt *)
(* keeps a connection (ConnectionsAccounted).                              *)
THEOREM ConnectionsAccountedHolds == Spec => []ConnectionsAccounted
<1>1. TypeInv => ConnectionsAccounted
  BY DEF TypeInv
<1>. QED BY <1>1, InitialTypes, TypeInvariance, PTL DEF Spec

----------------------------------------------------------------------------
(* Schedule times                                                          *)

(* In the attempt of a run that is not late, the schedule time that        *)
(* interval.next() has returned lies ahead.                                *)
LEMMA NextScheduleAhead ==
  ASSUME NEW delay, OnTime(delay), TypeOK, ScheduleInv(delay), NEW f \in Firings, pc[f] = "running", ~Late(f)
  PROVE  now < NextSchedule(f)
<1>1. /\ next = now /\ now = due[f] /\ base[f] = f[2] /\ due[f] = f[2] * Period + delay[attempt[f]]
      /\ steps[f] >= 1
  BY DEF ScheduleInv, AttemptsOnTime, StepsTaken, UnderWay
<1>2. /\ f[2] \in Nat /\ steps[f] \in Nat /\ Period \in Nat \ {0} /\ now \in Nat
      /\ Len(RetryIntervals) \in Nat /\ attempt[f] \in 1..(Len(RetryIntervals) + 1)
  BY CronAssumption DEF Firings, Schedules, TypeOK
<1>3. delay[attempt[f]] \in Nat
  BY <1>2 DEF OnTime
<1>4. PICK fired \in Nat, ahead \in Nat :
        /\ fired = f[2] * Period /\ ahead = steps[f] * Period
        /\ NextSchedule(f) = fired + ahead
  <2>1. (f[2] + steps[f]) * Period = f[2] * Period + steps[f] * Period
    BY <1>2, PeriodSum
  <2>2. f[2] * Period \in Nat /\ steps[f] * Period \in Nat
    BY <1>2, PeriodTimes
  <2>. QED BY <1>1, <2>1, <2>2 DEF NextSchedule
<1>5. PICK waited \in Nat : waited = delay[attempt[f]] /\ now = fired + waited
  BY <1>1, <1>3, <1>4
<1>6. waited < ahead
  <2>1. CASE attempt[f] = 1
    <3>1. waited = 0
      BY <1>5, <2>1 DEF OnTime
    <3>2. 0 \in Nat /\ 0 < steps[f] /\ 0 * Period = 0
      BY <1>1, <1>2
    <3>3. 0 * Period + Period <= ahead
      BY <1>2, <1>4, <3>2, PeriodTimes
    <3>4. Period <= ahead
      BY <1>2, <3>2, <3>3
    <3>. QED BY <1>2, <3>1, <3>4
  <2>2. CASE attempt[f] # 1
    <3>. DEFINE k == attempt[f] - 1
    <3>1. k \in 1..Len(RetryIntervals) /\ k + 1 = attempt[f]
      BY <1>2, <2>2
    <3>2. \/ \A m \in Nat : waited # m * Period
          \/ waited < attempt[f] * Period
      BY <1>5, <3>1 DEF OnTime
    <3>3. CASE \A m \in Nat : waited # m * Period
      <4>1. PICK n \in Nat : next = n * Period
        BY DEF ScheduleInv, RowOnSchedule
      <4>2. fired + waited = n * Period
        BY <1>1, <1>5, <4>1
      <4>3. f[2] <= n
        <5>1. CASE n < f[2]
          <6>1. n * Period + Period <= f[2] * Period
            BY <1>2, <4>1, <5>1, PeriodTimes
          <6>2. fired + waited + Period <= fired
            BY <1>4, <4>2, <6>1
          <6>. QED BY <1>2, <6>2
        <5>. QED BY <1>2, <5>1
      <4>4. n - f[2] \in Nat /\ f[2] + (n - f[2]) = n
        BY <1>2, <4>3
      <4>5. PICK m \in Nat : f[2] + m = n
        BY <4>4
      <4>6. n * Period = f[2] * Period + m * Period /\ m * Period \in Nat
        BY <1>2, <4>5, PeriodSum, PeriodTimes
      <4>7. fired + waited = fired + m * Period
        BY <1>4, <4>2, <4>6
      <4>8. PICK rest \in Nat : rest = m * Period
        BY <4>6
      <4>9. waited = rest
        BY <4>7, <4>8
      <4>. QED BY <3>3, <4>8, <4>9
    <3>4. CASE waited < attempt[f] * Period
      <4>1. attempt[f] \in Nat /\ attempt[f] * Period \in Nat /\ (attempt[f] < steps[f] \/ attempt[f] = steps[f])
        BY <1>2, PeriodTimes DEF Late
      <4>2. CASE attempt[f] = steps[f]
        BY <1>4, <3>4, <4>2
      <4>3. CASE attempt[f] < steps[f]
        <5>1. PICK time \in Nat : time = attempt[f] * Period
          BY <4>1
        <5>2. time + Period <= ahead
          BY <1>2, <1>4, <4>1, <4>3, <5>1, PeriodTimes
        <5>. QED BY <1>2, <3>4, <5>1, <5>2
      <4>. QED BY <4>1, <4>2, <4>3
    <3>. QED BY <3>2, <3>3, <3>4
  <2>. QED BY <2>1, <2>2
<1>. QED BY <1>4, <1>5, <1>6

(* What a step writes to the row lies ahead, unless it is written late.    *)
LEMMA WritesAhead ==
  ASSUME NEW delay, OnTime(delay)
  PROVE  TypeOK /\ ScheduleInv(delay) /\ [Next]_vars => (next' # next => next' > now \/ WrittenLate)
<1>. SUFFICES ASSUME TypeOK, ScheduleInv(delay), [Next]_vars, next' # next, ~WrittenLate PROVE next' > now
  OBVIOUS
<1>. USE DEF rowVars
<1>1. ASSUME NEW f \in Firings, Attempt(f) PROVE next' > now
  <2>1. CommitRun(f)
    BY <1>1 DEF Attempt, Fire, Reserve, ReserveFails, Begin, BeginFails, UpdateRow, Skip, UpdateRowFails,
                RollbackRun
  <2>2. pc[f] = "running" /\ next' = NextSchedule(f)
    BY <2>1 DEF CommitRun
  <2>3. NextSchedule(f) \in Nat /\ now \in Nat
    <3>1. base[f] \in Nat /\ steps[f] \in Nat /\ base[f] + steps[f] \in Nat /\ now \in Nat
      BY CronAssumption DEF TypeOK
    <3>. QED BY <3>1, PeriodTimes DEF NextSchedule
  <2>4. ~Late(f)
    <3>1. EndAttempt(f, FALSE)
      BY <2>1 DEF CommitRun
    <3>2. pc'[f] = "finished"
      BY <3>1, EndedAttempt
    <3>. QED BY <2>2, <3>2 DEF WrittenLate
  <2>. QED BY <2>2, <2>3, <2>4, NextScheduleAhead
<1>2. ASSUME NEW p \in Pods, Crash(p) \/ Start(p) PROVE next' > now
  <2>1. next' = (now \div Period + 1) * Period
    BY <1>2 DEF Crash, Start
  <2>2. now \in Nat
    BY CronAssumption DEF TypeOK
  <2>3. now \div Period \in Nat /\ now < (now \div Period) * Period + Period
    BY <2>2, PeriodDiv
  <2>4. (now \div Period + 1) * Period = (now \div Period) * Period + Period
    BY <2>3, PeriodTimes
  <2>. QED BY <2>1, <2>3, <2>4
<1>. QED BY <1>1, <1>2 DEF Next, Tick, vars

(* The row is only given schedule times.                                   *)
LEMMA RowInvariance == TypeOK /\ RowOnSchedule /\ [Next]_vars => RowOnSchedule'
<1>. SUFFICES ASSUME TypeOK, RowOnSchedule, [Next]_vars PROVE RowOnSchedule'
  OBVIOUS
<1>1. CASE next' = next
  BY <1>1 DEF RowOnSchedule
<1>2. ASSUME NEW f \in Firings, CommitRun(f) PROVE RowOnSchedule'
  <2>1. next' = (base[f] + steps[f]) * Period /\ base[f] + steps[f] \in Nat
    BY <1>2 DEF CommitRun, NextSchedule, TypeOK
  <2>. QED BY <2>1 DEF RowOnSchedule
<1>3. ASSUME NEW p \in Pods, Start(p) PROVE RowOnSchedule'
  <2>1. next' = (now \div Period + 1) * Period
    BY <1>3 DEF Start
  <2>2. now \div Period + 1 \in Nat
    <3>1. now \in Nat
      BY CronAssumption DEF TypeOK
    <3>. QED BY <3>1, PeriodDiv
  <2>. QED BY <2>1, <2>2 DEF RowOnSchedule
<1>4. next' = next \/ (\E f \in Firings : CommitRun(f)) \/ \E p \in Pods : Start(p)
  BY DEF Next, Attempt, Fire, Reserve, ReserveFails, Begin, BeginFails, UpdateRow, Skip, UpdateRowFails,
         RollbackRun, Crash, Tick, vars, rowVars
<1>. QED BY <1>1, <1>2, <1>3, <1>4

(* What a firing in a state of the attempt says about interval.next().     *)
LEMMA StepsInvariance ==
  ASSUME NEW delay PROVE TypeOK /\ AttemptsOnTime(delay) /\ StepsTaken /\ [Next]_vars => StepsTaken'
<1>. SUFFICES ASSUME TypeOK, AttemptsOnTime(delay), StepsTaken, [Next]_vars PROVE StepsTaken'
  OBVIOUS
<1>. USE DEF rowVars
<1>a. \A f \in Firings : steps[f] \in Nat
  BY DEF TypeOK
<1>b. ASSUME NEW f \in Firings, NEW error \in BOOLEAN, EndAttempt(f, error) PROVE StepsTaken'
  <2>1. \A g \in Firings \ {f} : pc'[g] = pc[g] /\ steps'[g] = steps[g]
    BY <1>b, EndedAttempt
  <2>2. pc'[f] \in {"waiting", "finished"}
    <3>1. \E label \in {"waiting", "finished"} : pc' = [pc EXCEPT ![f] = label]
      BY <1>b, EndedAttempt
    <3>. QED BY <3>1 DEF TypeOK
  <2>. QED BY <2>1, <2>2 DEF StepsTaken
<1>1. ASSUME NEW f \in Firings, Fire(f) PROVE StepsTaken'
  <2>1. UNCHANGED steps /\ \A g \in Firings : pc'[g] = IF g = f THEN "waiting" ELSE pc[g]
    BY <1>1 DEF Fire, TypeOK
  <2>. QED BY <2>1 DEF StepsTaken
<1>2. ASSUME NEW f \in Firings, Reserve(f) \/ UpdateRow(f) PROVE StepsTaken'
  BY <1>2 DEF Reserve, UpdateRow, StepsTaken, TypeOK
<1>3. ASSUME NEW f \in Firings, Begin(f) PROVE StepsTaken'
  <2>1. /\ \A g \in Firings : pc'[g] = IF g = f THEN "begun" ELSE pc[g]
        /\ \A g \in Firings : steps'[g] = IF g = f THEN steps[f] + 1 ELSE steps[g]
    BY <1>3 DEF Begin, TypeOK
  <2>2. steps[f] + 1 >= 1
    BY <1>a
  <2>. QED BY <2>1, <2>2 DEF StepsTaken
<1>4. ASSUME NEW f \in Firings, ReserveFails(f) \/ BeginFails(f) PROVE StepsTaken'
  BY <1>4, <1>b DEF ReserveFails, BeginFails
<1>5. ASSUME NEW f \in Firings, Skip(f) \/ UpdateRowFails(f) \/ CommitRun(f) \/ RollbackRun(f) PROVE StepsTaken'
  BY <1>5, <1>b DEF Skip, UpdateRowFails, CommitRun, RollbackRun
<1>6. ASSUME NEW p \in Pods, Crash(p) PROVE StepsTaken'
  <2>1. \A g \in Firings : pc'[g] \in UnderWay => pc'[g] = pc[g] /\ g[1] # p /\ steps'[g] = steps[g]
    BY <1>6, CronAssumption DEF Crash, TypeOK, UnderWay
  <2>. QED BY <2>1 DEF StepsTaken, UnderWay
<1>7. ASSUME NEW p \in Pods, Start(p) PROVE StepsTaken'
  <2>1. \A g \in Firings : pc'[g] \in UnderWay => pc'[g] = pc[g]
    BY <1>7 DEF Start, TypeOK, UnderWay
  <2>2. UNCHANGED steps
    BY <1>7 DEF Start
  <2>. QED BY <2>1, <2>2 DEF StepsTaken, UnderWay
<1>8. CASE Tick \/ UNCHANGED vars
  BY <1>8 DEF Tick, vars, StepsTaken
<1>. QED BY <1>1, <1>2, <1>3, <1>4, <1>5, <1>6, <1>7, <1>8 DEF Next, Attempt

(* Firings come at their schedule times and attempts start when they are   *)
(* due.                                                                    *)
LEMMA AttemptsInvariance ==
  ASSUME NEW delay, OnTime(delay)
  PROVE  TypeOK /\ AttemptsOnTime(delay) /\ [Next]_vars => AttemptsOnTime(delay)'
<1>. SUFFICES ASSUME TypeOK, AttemptsOnTime(delay), [Next]_vars PROVE AttemptsOnTime(delay)'
  OBVIOUS
<1>. USE DEF rowVars, UnderWay
<1>a. /\ now \in Nat /\ Len(RetryIntervals) \in Nat
      /\ \A f \in Firings : /\ attempt[f] \in 1..(Len(RetryIntervals) + 1) /\ due[f] \in Nat
                            /\ f[2] \in Nat /\ f[2] * Period \in Nat
      /\ \A k \in 1..(Len(RetryIntervals) + 1) : delay[k] \in Nat
  <2>1. \A f \in Firings : f[2] \in Nat /\ f[2] * Period \in Nat
    BY CronAssumption, PeriodTimes DEF Firings, Schedules
  <2>2. /\ now \in Nat /\ Len(RetryIntervals) \in Nat
        /\ \A f \in Firings : attempt[f] \in 1..(Len(RetryIntervals) + 1) /\ due[f] \in Nat
    BY CronAssumption DEF TypeOK
  <2>3. \A k \in 1..(Len(RetryIntervals) + 1) : delay[k] \in Nat
    BY DEF OnTime
  <2>. QED BY <2>1, <2>2, <2>3
<1>b. NoFiring \notin Firings
  BY CronAssumption DEF NoFiring, Firings, Schedules
<1>c. ASSUME NEW f \in Firings, NEW error \in BOOLEAN, EndAttempt(f, error), now = due[f], pc[f] \in UnderWay,
             \A g \in Firings \ {f} : pc[g] = "running" => holder' = g /\ next' = now
      PROVE  AttemptsOnTime(delay)'
  <2>1. \A g \in Firings \ {f} : /\ pc'[g] = pc[g] /\ attempt'[g] = attempt[g]
                                  /\ due'[g] = due[g] /\ steps'[g] = steps[g]
    BY <1>c, EndedAttempt
  <2>2. UNCHANGED <<now, up, base>>
    BY <1>c DEF EndAttempt
  <2>3. ASSUME NEW g \in Firings \ {f}
        PROVE  /\ pc'[g] = "idle" =>
                    attempt'[g] = 1 /\ steps'[g] = 0 /\ (up'[g[1]] => now' <= g[2] * Period)
               /\ pc'[g] \in UnderWay =>
                    now' <= due'[g] /\ base'[g] = g[2] /\ due'[g] = g[2] * Period + delay[attempt'[g]]
               /\ pc'[g] \in {"reserved", "begun", "running"} => now' = due'[g]
               /\ pc'[g] = "running" => holder' = g /\ next' = now'
    BY <1>c, <2>1, <2>2 DEF AttemptsOnTime
  <2>4. CASE pc'[f] = "finished"
    BY <2>3, <2>4 DEF AttemptsOnTime
  <2>5. CASE pc'[f] = "waiting"
    <3>1. /\ attempt[f] \in 1..Len(RetryIntervals)
          /\ attempt' = [attempt EXCEPT ![f] = attempt[f] + 1]
          /\ due' = [due EXCEPT ![f] = now + RetryIntervals[attempt[f]]]
      BY <1>c, <2>5, EndedAttempt
    <3>2. attempt'[f] = attempt[f] + 1 /\ due'[f] = now + RetryIntervals[attempt[f]]
      BY <3>1 DEF TypeOK
    <3>3. /\ delay[attempt[f] + 1] = delay[attempt[f]] + RetryIntervals[attempt[f]]
          /\ RetryIntervals[attempt[f]] \in Nat
      BY <3>1, CronAssumption DEF OnTime
    <3>4. base[f] = f[2] /\ due[f] = f[2] * Period + delay[attempt[f]]
      BY <1>c DEF AttemptsOnTime
    <3>5. due'[f] = f[2] * Period + delay[attempt'[f]] /\ now' <= due'[f]
      <4>1. PICK fired \in Nat : fired = f[2] * Period
        BY <1>a
      <4>2. PICK elapsed \in Nat : elapsed = delay[attempt[f]]
        BY <1>a
      <4>3. now = fired + elapsed /\ now' = now
        BY <1>c, <2>2, <3>4, <4>1, <4>2
      <4>4. PICK interval \in Nat : interval = RetryIntervals[attempt[f]]
        BY <3>3
      <4>5. due'[f] = (fired + elapsed) + interval
        BY <3>2, <4>3, <4>4
      <4>6. delay[attempt'[f]] = elapsed + interval
        BY <3>2, <3>3, <4>2, <4>4
      <4>7. due'[f] = fired + delay[attempt'[f]] /\ now' <= due'[f]
        BY <4>3, <4>5, <4>6
      <4>. QED BY <4>1, <4>7
    <3>. QED BY <2>2, <2>3, <2>5, <3>4, <3>5 DEF AttemptsOnTime
  <2>6. pc'[f] \in {"waiting", "finished"}
    <3>1. \E label \in {"waiting", "finished"} : pc' = [pc EXCEPT ![f] = label]
      BY <1>c, EndedAttempt
    <3>. QED BY <3>1 DEF TypeOK
  <2>. QED BY <2>4, <2>5, <2>6
<1>1. ASSUME NEW f \in Firings, Fire(f) PROVE AttemptsOnTime(delay)'
  <2>1. now = f[2] * Period /\ attempt[f] = 1
    <3>1. up[f[1]] /\ pc[f] = "idle" /\ now >= f[2] * Period
      BY <1>1 DEF Fire
    <3>. QED BY <1>a, <3>1 DEF AttemptsOnTime
  <2>2. now \div Period = f[2] /\ delay[1] = 0
    BY <1>a, <2>1, PeriodTimes DEF OnTime
  <2>3. \A g \in Firings :
          /\ pc'[g] = IF g = f THEN "waiting" ELSE pc[g]
          /\ due'[g] = IF g = f THEN now ELSE due[g]
          /\ base'[g] = IF g = f THEN now \div Period ELSE base[g]
    BY <1>1 DEF Fire, TypeOK
  <2>4. UNCHANGED <<now, up, next, holder, attempt, steps>>
    BY <1>1 DEF Fire
  <2>. QED BY <1>a, <2>1, <2>2, <2>3, <2>4 DEF AttemptsOnTime
<1>2. ASSUME NEW f \in Firings, Reserve(f) \/ Begin(f) PROVE AttemptsOnTime(delay)'
  <2>1. /\ pc[f] \in {"waiting", "reserved"} /\ now >= due[f]
        /\ \E label \in {"reserved", "begun"} : \A g \in Firings : pc'[g] = IF g = f THEN label ELSE pc[g]
        /\ \A g \in Firings : g # f => steps'[g] = steps[g]
    <3>1. pc[f] = "reserved" => now >= due[f]
      BY <1>a DEF AttemptsOnTime
    <3>. QED BY <1>2, <3>1 DEF Reserve, Begin, TypeOK
  <2>2. UNCHANGED <<now, up, holder, next, attempt, due, base>>
    BY <1>2 DEF Reserve, Begin
  <2>3. pc'[f] \in {"reserved", "begun"} /\ \A g \in Firings \ {f} : pc'[g] = pc[g]
    BY <2>1
  <2>4. now = due[f]
    BY <1>a, <2>1 DEF AttemptsOnTime
  <2>. QED BY <2>1, <2>2, <2>3, <2>4 DEF AttemptsOnTime
<1>3. ASSUME NEW f \in Firings, ReserveFails(f) PROVE AttemptsOnTime(delay)'
  <2>1. EndAttempt(f, TRUE) /\ pc[f] = "waiting" /\ now >= due[f] /\ UNCHANGED rowVars
    BY <1>3 DEF ReserveFails
  <2>2. now = due[f]
    BY <1>a, <2>1 DEF AttemptsOnTime
  <2>. QED BY <1>c, <2>1, <2>2 DEF AttemptsOnTime
<1>4. ASSUME NEW f \in Firings, UpdateRow(f) PROVE AttemptsOnTime(delay)'
  <2>1. \A g \in Firings : pc[g] # "running"
    BY <1>4, <1>b DEF UpdateRow, AttemptsOnTime
  <2>2. \A g \in Firings : pc'[g] = IF g = f THEN "running" ELSE pc[g]
    BY <1>4 DEF UpdateRow, TypeOK
  <2>. QED BY <1>4, <2>1, <2>2 DEF UpdateRow, IsDue, AttemptsOnTime
<1>5. ASSUME NEW f \in Firings, BeginFails(f) \/ Skip(f) \/ UpdateRowFails(f) PROVE AttemptsOnTime(delay)'
  <2>1. PICK error \in BOOLEAN : EndAttempt(f, error)
    BY <1>5 DEF BeginFails, Skip, UpdateRowFails
  <2>2. pc[f] \in {"reserved", "begun"} /\ UNCHANGED rowVars
    BY <1>5 DEF BeginFails, Skip, UpdateRowFails
  <2>. QED BY <1>c, <2>1, <2>2 DEF AttemptsOnTime
<1>6. ASSUME NEW f \in Firings, CommitRun(f) \/ RollbackRun(f) PROVE AttemptsOnTime(delay)'
  <2>1. PICK error \in BOOLEAN : EndAttempt(f, error)
    BY <1>6 DEF CommitRun, RollbackRun
  <2>2. pc[f] = "running"
    BY <1>6 DEF CommitRun, RollbackRun
  <2>3. \A g \in Firings \ {f} : pc[g] # "running"
    BY <2>2 DEF AttemptsOnTime
  <2>. QED BY <1>c, <2>1, <2>2, <2>3 DEF AttemptsOnTime
<1>9. ASSUME NEW p \in Pods, Crash(p) PROVE AttemptsOnTime(delay)'
  <2>1. \A g \in Firings : /\ pc'[g] \in UnderWay => pc'[g] = pc[g] /\ g[1] # p
                           /\ pc'[g] = "idle" => pc[g] = "idle"
                           /\ steps'[g] = steps[g] \/ steps'[g] = 0
                           /\ up'[g[1]] => up[g[1]]
    BY <1>9, CronAssumption DEF Crash, TypeOK, Firings
  <2>2. \A g \in Firings : pc'[g] = "running" => holder' = g
    BY <1>9, <2>1 DEF Crash, AttemptsOnTime
  <2>3. UNCHANGED <<now, next, attempt, due, base>>
    BY <1>9 DEF Crash
  <2>. QED BY <2>1, <2>2, <2>3 DEF AttemptsOnTime
<1>10. ASSUME NEW p \in Pods, Start(p) PROVE AttemptsOnTime(delay)'
  <2>1. \A g \in Firings : /\ pc'[g] \in UnderWay => pc'[g] = pc[g] /\ pc[g] # "running"
                           /\ pc'[g] = "idle" => pc[g] = "idle" /\ (g[1] = p => now < g[2] * Period)
    BY <1>10, <1>a, <1>b DEF Start, TypeOK, AttemptsOnTime
  <2>2. UNCHANGED <<now, attempt, steps, due, base>> /\ \A q \in Pods : q # p => up'[q] = up[q]
    BY <1>10 DEF Start, TypeOK
  <2>3. \A g \in Firings : g[1] \in Pods
    BY DEF Firings
  <2>. QED BY <1>a, <2>1, <2>2, <2>3 DEF AttemptsOnTime
<1>11. CASE Tick
  <2>1. ~Pending /\ now' = now + 1 /\ UNCHANGED <<up, pc, attempt, steps, due, base>>
    BY <1>11 DEF Tick, OnTime
  <2>2. \A g \in Firings : /\ pc[g] \in UnderWay => pc[g] = "waiting" /\ now < due[g]
                           /\ pc[g] = "idle" /\ up[g[1]] => now < g[2] * Period
    BY <1>a, <2>1 DEF Pending, AttemptsOnTime
  <2>. QED BY <1>a, <2>1, <2>2 DEF AttemptsOnTime
<1>12. CASE UNCHANGED vars
  BY <1>12 DEF vars, AttemptsOnTime
<1>. QED BY <1>1, <1>2, <1>3, <1>4, <1>5, <1>6, <1>9, <1>10, <1>11, <1>12 DEF Next, Attempt

(* The row stays ahead of the schedule times that were served.             *)
LEMMA ServedInvariance ==
  ASSUME NEW delay, OnTime(delay)
  PROVE  TypeInv /\ ScheduleInv(delay) /\ ServedOnce /\ [Next]_vars => ServedOnce'
<1>. SUFFICES ASSUME TypeInv, ScheduleInv(delay), ServedOnce, [Next]_vars PROVE ServedOnce'
  OBVIOUS
<1>1. /\ now \in Nat /\ next \in Nat /\ now' \in Nat /\ next' \in Nat
      /\ \A k \in Schedules : runs[k] \in Nat /\ k * Period \in Nat
  <2>1. TypeInv'
    BY TypeInvariance
  <2>2. now \in Nat /\ next \in Nat /\ now' \in Nat /\ next' \in Nat
    BY <2>1, CronAssumption DEF TypeInv, TypeOK
  <2>3. \A k \in Schedules : k \in Nat /\ runs[k] \in Nat
    BY CronAssumption DEF TypeInv, TypeOK, Schedules
  <2>. QED BY <2>2, <2>3, PeriodTimes
<1>2. now' >= now
  BY <1>1 DEF Next, Attempt, Fire, Reserve, ReserveFails, Begin, BeginFails, UpdateRow, Skip, UpdateRowFails, CommitRun,
            RollbackRun, EndAttempt, Crash, Start, Tick, vars
<1>3. ASSUME NEW f \in Firings, CommitRun(f) PROVE ServedOnce'
  <2>1. pc[f] = "running" /\ next' = NextSchedule(f) /\ next = now
    BY <1>3 DEF CommitRun, ScheduleInv, AttemptsOnTime
  <2>2. \A k \in Schedules : runs'[k] = IF k * Period = next THEN runs[k] + 1 ELSE runs[k]
    BY <1>3 DEF CommitRun
  <2>3. ASSUME NEW k \in Schedules, k \notin unmoved' PROVE k \notin unmoved /\ (k * Period <= now => k * Period # next')
    <3>1. k \notin unmoved /\ (Late(f) => k * Period # next')
      BY <1>3, <2>1, <2>3 DEF CommitRun
    <3>2. CASE ~Late(f)
      <4>1. now < next'
        BY <2>1, <3>2, NextScheduleAhead DEF TypeInv
      <4>. QED BY <1>1, <3>1, <4>1
    <3>. QED BY <3>1, <3>2
  <2>4. ASSUME NEW k \in Schedules, k \notin unmoved'
        PROVE  runs'[k] <= 1 /\ (runs'[k] > 0 => k * Period <= now' /\ k * Period # next')
    <3>1. CASE k * Period = next
      <4>1. runs[k] = 0
        BY <1>1, <2>3, <2>4, <3>1 DEF ServedOnce
      <4>. QED BY <1>1, <1>2, <2>1, <2>2, <2>3, <2>4, <3>1, <4>1
    <3>2. CASE k * Period # next
      BY <1>1, <1>2, <2>2, <2>3, <2>4, <3>2 DEF ServedOnce
    <3>. QED BY <3>1, <3>2
  <2>. QED BY <2>4 DEF ServedOnce
<1>4. ASSUME NEW p \in Pods, Start(p) PROVE ServedOnce'
  <2>1. next' > now
    <3>1. next' = (now \div Period + 1) * Period
      BY <1>4 DEF Start
    <3>2. now \div Period \in Nat /\ now < (now \div Period) * Period + Period
      BY <1>1, PeriodDiv
    <3>3. (now \div Period + 1) * Period = (now \div Period) * Period + Period
      BY <3>2, PeriodTimes
    <3>. QED BY <3>1, <3>2, <3>3
  <2>2. UNCHANGED <<runs, unmoved>>
    BY <1>4 DEF Start
  <2>. QED BY <1>1, <1>2, <2>1, <2>2 DEF ServedOnce
<1>5. CASE UNCHANGED <<next, runs, unmoved>>
  BY <1>1, <1>2, <1>5 DEF ServedOnce
<1>6. UNCHANGED <<next, runs, unmoved>> \/ (\E f \in Firings : CommitRun(f)) \/ \E p \in Pods : Start(p)
  BY DEF Next, Attempt, Fire, Reserve, ReserveFails, Begin, BeginFails, UpdateRow, Skip, UpdateRowFails, RollbackRun,
         Crash, Tick, vars, rowVars
<1>. QED BY <1>3, <1>4, <1>5, <1>6

(* What the schedule times rest on, from the start.                        *)
LEMMA OnTimeInvariant ==
  ASSUME NEW CONSTANT delay, OnTime(delay) PROVE Spec => [](TypeInv /\ ScheduleInv(delay) /\ ServedOnce)
<1>1. Init => ScheduleInv(delay) /\ ServedOnce
  <2>. SUFFICES ASSUME Init PROVE ScheduleInv(delay) /\ ServedOnce
    OBVIOUS
  <2>1. \A f \in Firings : f[2] * Period \in Nat
    BY CronAssumption, PeriodTimes DEF Firings, Schedules
  <2>2. AttemptsOnTime(delay) /\ StepsTaken /\ ServedOnce
    BY <2>1 DEF Init, AttemptsOnTime, StepsTaken, ServedOnce, UnderWay
  <2>3. RowOnSchedule
    <3>1. next = 1 * Period
      BY CronAssumption DEF Init
    <3>. QED BY <3>1 DEF RowOnSchedule
  <2>. QED BY <2>2, <2>3 DEF ScheduleInv
<1>2. TypeInv => TypeOK
  BY DEF TypeInv
<1>3. TypeOK /\ ScheduleInv(delay) /\ [Next]_vars => ScheduleInv(delay)'
  BY AttemptsInvariance, StepsInvariance, RowInvariance DEF ScheduleInv
<1>. QED BY <1>1, <1>2, <1>3, InitialTypes, TypeInvariance, ServedInvariance, PTL DEF Spec

(* nextScheduledTimestamp is only set to a time that lies ahead, by runs   *)
(* and by pods that start, unless a retry writes it late (NextLiesAhead).  *)
THEOREM NextLiesAheadHolds == ASSUME NEW CONSTANT delay, OnTime(delay) PROVE Spec => NextLiesAhead
<1>1. TypeInv => TypeOK
  BY DEF TypeInv
<1>2. TypeInv /\ ScheduleInv(delay) /\ [Next]_vars => [next' # next => next' > now \/ WrittenLate]_vars
  BY <1>1, WritesAhead
<1>. QED BY <1>2, OnTimeInvariant, PTL DEF Spec, NextLiesAhead

(* The pods run the job once per schedule time at most, whatever fails,    *)
(* crashes or starts again meanwhile, but for schedule times that a retry  *)
(* has written late (RunsOncePerSchedule).                                 *)
THEOREM RunsOncePerScheduleHolds ==
  ASSUME NEW CONSTANT delay, OnTime(delay) PROVE Spec => []RunsOncePerSchedule
<1>1. ServedOnce => RunsOncePerSchedule
  BY DEF ServedOnce, RunsOncePerSchedule
<1>. QED BY <1>1, OnTimeInvariant, PTL

----------------------------------------------------------------------------
(* Runs that nothing disturbs                                              *)

(* A step never makes a disturbed state undisturbed: the attempts of a     *)
(* firing are counted, and so are the crashes.                             *)
LEMMA DisturbedForEver == TypeInv /\ [Next]_vars /\ Undisturbed' => Undisturbed
<1>. SUFFICES ASSUME TypeInv, [Next]_vars, Undisturbed' PROVE Undisturbed
  OBVIOUS
<1>1. \A f \in Firings : attempt[f] \in Nat \ {0} /\ attempt'[f] = 1
  BY CronAssumption DEF TypeInv, TypeOK, Undisturbed
<1>2. crashes = 0
  <2>1. crashes \in Nat
    BY CronAssumption DEF TypeInv, TypeOK
  <2>2. crashes' = crashes \/ crashes' = crashes + 1
    BY DEF Next, Attempt, Fire, Reserve, ReserveFails, Begin, BeginFails, UpdateRow, Skip, UpdateRowFails, CommitRun,
           RollbackRun, EndAttempt, Crash, Start, Tick, vars
  <2>. QED BY <2>1, <2>2 DEF Undisturbed
<1>3. CASE UNCHANGED attempt
  BY <1>1, <1>2, <1>3 DEF Undisturbed
<1>4. ASSUME NEW f \in Firings, NEW error \in BOOLEAN, EndAttempt(f, error) PROVE Undisturbed
  <2>1. \A g \in Firings \ {f} : attempt[g] = 1
    BY <1>1, <1>4, EndedAttempt DEF TypeInv
  <2>2. attempt[f] = 1
    <3>1. attempt'[f] = attempt[f] \/ attempt'[f] = attempt[f] + 1
      BY <1>4 DEF EndAttempt, TypeInv, TypeOK
    <3>. QED BY <1>1, <3>1
  <2>. QED BY <1>2, <2>1, <2>2 DEF Undisturbed
<1>5. UNCHANGED attempt \/ \E f \in Firings, error \in BOOLEAN : EndAttempt(f, error)
  BY DEF Next, Attempt, Fire, Reserve, ReserveFails, Begin, BeginFails, UpdateRow, Skip, UpdateRowFails, CommitRun,
         RollbackRun, Crash, Start, Tick, vars
<1>. QED BY <1>3, <1>4, <1>5

(* While nothing disturbs them, the pods' firings serve each schedule time *)
(* when it comes and leave the row at the next one.                        *)
LEMMA UndisturbedInvariance ==
  ASSUME NEW CONSTANT delay, OnTime(delay), Pods # {}, RetryIntervals # <<>>
  PROVE  TypeInv /\ ScheduleInv(delay) /\ UndisturbedInv /\ [Next]_vars => UndisturbedInv'
<1>. SUFFICES ASSUME TypeInv, ScheduleInv(delay), FiringsOnTime, RowFollows, Undisturbed, Undisturbed', [Next]_vars
              PROVE  (FiringsOnTime /\ RowFollows)'
  BY DisturbedForEver DEF UndisturbedInv
<1>. USE DEF UnderWay, rowVars
<1>a. /\ now \in Nat /\ next \in Nat /\ Period \in Nat \ {0} /\ MaxFirings \in Nat
      /\ \A f \in Firings : f[1] \in Pods /\ f[2] \in Nat \ {0} /\ f[2] <= MaxFirings /\ f[2] * Period \in Nat
      /\ \A f \in Firings : attempt[f] = 1 /\ attempt'[f] = 1
      /\ \A f \in Firings : base[f] \in Nat /\ due[f] \in Nat
      /\ \A k \in Schedules : k \in Nat \ {0} /\ k * Period \in Nat
  <2>1. /\ now \in Nat /\ next \in Nat /\ Period \in Nat \ {0} /\ MaxFirings \in Nat
        /\ \A k \in Schedules : k \in Nat \ {0}
        /\ \A f \in Firings : base[f] \in Nat /\ due[f] \in Nat
    BY CronAssumption DEF TypeInv, TypeOK, Schedules
  <2>2. \A f \in Firings : f[1] \in Pods /\ f[2] \in Nat \ {0} /\ f[2] <= MaxFirings
    BY CronAssumption DEF Firings, Schedules
  <2>3. \A f \in Firings : attempt[f] = 1 /\ attempt'[f] = 1
    BY DEF Undisturbed
  <2>. QED BY <2>1, <2>2, <2>3, PeriodTimes
<1>b. ASSUME NEW f \in Firings, EndAttempt(f, TRUE) PROVE FALSE
  <2>1. pc'[f] = "waiting" /\ attempt[f] = 1
    BY <1>a, <1>b, EndedAttempt DEF TypeInv
  <2>2. attempt' = [attempt EXCEPT ![f] = attempt[f] + 1]
    BY <1>b, <2>1, EndedAttempt DEF TypeInv
  <2>3. attempt'[f] = 2
    BY <2>1, <2>2 DEF TypeInv, TypeOK
  <2>. QED BY <1>a, <2>3
<1>c. ASSUME NEW f \in Firings, EndAttempt(f, FALSE)
      PROVE  /\ \A g \in Firings : pc'[g] = IF g = f THEN "finished" ELSE pc[g]
             /\ \A g \in Firings : g # f => steps'[g] = steps[g]
             /\ UNCHANGED <<now, up, due, base>>
  BY <1>c, EndedAttempt DEF EndAttempt, TypeInv, TypeOK
<1>d. PICK n \in Nat \ {0} :
        /\ next = n * Period
        /\ now <= next \/ n > MaxFirings
        /\ \A k \in Schedules : k < n => runs[k] > 0
  BY DEF RowFollows
<1>1. ASSUME NEW f \in Firings, Fire(f) PROVE (FiringsOnTime /\ RowFollows)'
  <2>1. now = f[2] * Period /\ now \div Period = f[2]
    <3>1. now = f[2] * Period
      <4>1. pc[f] = "idle" /\ now >= f[2] * Period
        BY <1>1 DEF Fire
      <4>2. now <= f[2] * Period
        BY <4>1 DEF FiringsOnTime
      <4>. QED BY <1>a, <4>1, <4>2
    <3>. QED BY <1>a, <3>1, PeriodTimes
  <2>2. \A g \in Firings :
          /\ pc'[g] = IF g = f THEN "waiting" ELSE pc[g]
          /\ due'[g] = IF g = f THEN now ELSE due[g]
          /\ base'[g] = IF g = f THEN now \div Period ELSE base[g]
    BY <1>1 DEF Fire, TypeInv, TypeOK
  <2>3. UNCHANGED <<now, up, steps, next, runs>> /\ pc[f] = "idle"
    BY <1>1 DEF Fire
  <2>. QED BY <2>1, <2>2, <2>3 DEF FiringsOnTime, RowFollows
<1>2. ASSUME NEW f \in Firings, Reserve(f) \/ UpdateRow(f) PROVE (FiringsOnTime /\ RowFollows)'
  <2>1. \/ pc[f] = "waiting" /\ pc' = [pc EXCEPT ![f] = "reserved"]
        \/ pc[f] = "begun" /\ pc' = [pc EXCEPT ![f] = "running"]
    BY <1>2 DEF Reserve, UpdateRow
  <2>2. /\ \/ pc[f] = "waiting" /\ pc'[f] = "reserved"
           \/ pc[f] = "begun" /\ pc'[f] = "running"
        /\ \A g \in Firings : g # f => pc'[g] = pc[g]
    BY <2>1 DEF TypeInv, TypeOK
  <2>3. UNCHANGED <<now, up, due, base, steps, next, runs>>
    BY <1>2 DEF Reserve, UpdateRow
  <2>. QED BY <2>2, <2>3 DEF FiringsOnTime, RowFollows
<1>e. ASSUME NEW f \in Firings, Begin(f) PROVE (FiringsOnTime /\ RowFollows)'
  <2>1. /\ pc[f] = "reserved" /\ \A g \in Firings : pc'[g] = IF g = f THEN "begun" ELSE pc[g]
        /\ \A g \in Firings : steps'[g] = IF g = f THEN steps[f] + 1 ELSE steps[g]
    BY <1>e DEF Begin, TypeInv, TypeOK
  <2>2. UNCHANGED <<now, up, due, base, next, runs>>
    BY <1>e DEF Begin
  <2>. QED BY <2>1, <2>2 DEF FiringsOnTime, RowFollows
<1>3. ASSUME NEW f \in Firings, ReserveFails(f) \/ BeginFails(f) \/ UpdateRowFails(f) \/ RollbackRun(f)
      PROVE  FALSE
  BY <1>3, <1>b DEF ReserveFails, BeginFails, UpdateRowFails, RollbackRun
<1>4. ASSUME NEW f \in Firings, Skip(f) PROVE (FiringsOnTime /\ RowFollows)'
  <2>1. pc[f] = "begun" /\ now # next /\ EndAttempt(f, FALSE) /\ UNCHANGED <<next, runs>>
    BY <1>4 DEF Skip, IsDue
  <2>2. now = f[2] * Period
    BY <2>1 DEF ScheduleInv, AttemptsOnTime, FiringsOnTime
  <2>3. f[2] * Period < next
    <3>1. CASE n > MaxFirings
      <4>1. f[2] < n
        BY <1>a, <3>1
      <4>2. f[2] * Period + Period <= n * Period
        BY <1>a, <4>1, PeriodTimes
      <4>. QED BY <1>a, <1>d, <4>2
    <3>2. CASE now <= next
      BY <1>a, <2>1, <2>2, <3>2
    <3>. QED BY <1>d, <3>1, <3>2
  <2>4. FiringsOnTime'
    <3>1. /\ \A g \in Firings : pc'[g] = IF g = f THEN "finished" ELSE pc[g]
          /\ \A g \in Firings : g # f => steps'[g] = steps[g]
          /\ UNCHANGED <<now, up, due, base, next>>
      BY <1>c, <2>1
    <3>. QED BY <2>3, <3>1 DEF FiringsOnTime
  <2>5. RowFollows'
    BY <1>c, <2>1 DEF RowFollows
  <2>. QED BY <2>4, <2>5
<1>5. ASSUME NEW f \in Firings, CommitRun(f) PROVE (FiringsOnTime /\ RowFollows)'
  <2>1. pc[f] = "running" /\ EndAttempt(f, FALSE) /\ next' = NextSchedule(f)
    BY <1>5 DEF CommitRun
  <2>2. next = now /\ now = f[2] * Period /\ base[f] = f[2] /\ steps[f] = 1
    BY <2>1 DEF ScheduleInv, AttemptsOnTime, FiringsOnTime
  <2>3. n = f[2]
    BY <1>a, <1>d, <2>2, PeriodTimes
  <2>4. next' = (n + 1) * Period /\ next' = next + Period
    <3>1. next' = (n + 1) * Period
      BY <1>a, <2>1, <2>2, <2>3 DEF NextSchedule
    <3>. QED BY <1>d, <3>1, PeriodTimes
  <2>5. FiringsOnTime'
    <3>1. /\ \A g \in Firings : pc'[g] = IF g = f THEN "finished" ELSE pc[g]
          /\ \A g \in Firings : g # f => steps'[g] = steps[g]
          /\ UNCHANGED <<now, up, due, base>>
      BY <1>c, <2>1
    <3>2. ASSUME NEW g \in Firings, pc'[g] = "finished" PROVE g[2] * Period < next'
      <4>1. g[2] * Period <= next
        BY <1>a, <2>2, <3>1, <3>2 DEF FiringsOnTime
      <4>. QED BY <1>a, <2>4, <4>1
    <3>. QED BY <3>1, <3>2 DEF FiringsOnTime
  <2>6. ASSUME NEW k \in Schedules, k < n + 1 PROVE runs'[k] > 0
    <3>1. runs'[k] = IF k * Period = next THEN runs[k] + 1 ELSE runs[k]
      BY <1>5 DEF CommitRun
    <3>2. runs[k] \in Nat
      BY DEF TypeInv, TypeOK
    <3>3. CASE k < n
      BY <1>d, <3>1, <3>2, <3>3
    <3>4. CASE k = n
      BY <1>d, <3>1, <3>2, <3>4
    <3>. QED BY <1>a, <2>6, <3>3, <3>4
  <2>7. RowFollows'
    <3>1. n + 1 \in Nat \ {0} /\ now' <= next'
      <4>1. now' = now
        BY <1>c, <2>1
      <4>. QED BY <1>a, <2>2, <2>4, <4>1
    <3>. QED BY <2>4, <2>6, <3>1 DEF RowFollows
  <2>. QED BY <2>5, <2>7
<1>6. ASSUME NEW p \in Pods, Crash(p) \/ Start(p) PROVE FALSE
  <2>1. crashes = 0 /\ crashes' = 0 /\ up[p]
    BY DEF Undisturbed, FiringsOnTime
  <2>. QED BY <1>6, <2>1 DEF Crash, Start
<1>7. CASE Tick
  <2>1. ~Pending /\ now' = now + 1 /\ UNCHANGED <<up, next, runs, pc, due, base, steps>>
    BY <1>7 DEF Tick, OnTime
  <2>2. \A f \in Firings : pc[f] = "idle" => now + 1 <= f[2] * Period
    BY <1>a, <2>1 DEF Pending, FiringsOnTime
  <2>3. now + 1 <= next \/ n > MaxFirings
    <3>. SUFFICES ASSUME n <= MaxFirings, now = next PROVE FALSE
      BY <1>a, <1>d
    <3>1. PICK p \in Pods : TRUE
      OBVIOUS
    <3>2. n \in Schedules
      BY <1>a DEF Schedules
    <3>3. <<p, n>> \in Firings /\ <<p, n>>[1] = p /\ <<p, n>>[2] = n
      BY <3>2 DEF Firings
    <3>4. up[p] /\ now >= n * Period
      BY <1>a, <1>d DEF FiringsOnTime
    <3>5. pc[<<p, n>>] \notin {"idle", "lost"} \union UnderWay
      BY <1>a, <1>d, <2>1, <3>3, <3>4 DEF Pending, FiringsOnTime
    <3>6. pc[<<p, n>>] = "finished"
      BY <3>3, <3>5 DEF TypeInv, TypeOK
    <3>. QED BY <1>a, <1>d, <3>3, <3>6 DEF FiringsOnTime
  <2>4. FiringsOnTime'
    BY <2>1, <2>2 DEF FiringsOnTime
  <2>5. RowFollows'
    BY <1>d, <2>1, <2>3 DEF RowFollows
  <2>. QED BY <2>4, <2>5
<1>8. CASE UNCHANGED vars
  BY <1>8 DEF vars, FiringsOnTime, RowFollows
<1>. QED BY <1>e, <1>1, <1>2, <1>3, <1>4, <1>5, <1>6, <1>7, <1>8 DEF Next, Attempt

(* While no pod crashes and no attempt fails, the job runs at every        *)
(* schedule time (RunsWhenUndisturbed): provided that there is a pod and   *)
(* that an error is retried, for otherwise it leaves no second attempt.    *)
THEOREM RunsWhenUndisturbedHolds ==
  ASSUME NEW CONSTANT delay, OnTime(delay), Pods # {}, RetryIntervals # <<>>
  PROVE  Spec => []RunsWhenUndisturbed
<1>1. Init => UndisturbedInv
  <2>. SUFFICES ASSUME Init PROVE FiringsOnTime /\ RowFollows
    BY DEF UndisturbedInv
  <2>1. \A f \in Firings : f[2] * Period \in Nat
    BY CronAssumption, PeriodTimes DEF Firings, Schedules
  <2>2. FiringsOnTime
    BY <2>1 DEF Init, FiringsOnTime, UnderWay
  <2>3. RowFollows
    <3>1. next = 1 * Period /\ now <= next
      BY CronAssumption DEF Init
    <3>2. \A k \in Schedules : ~(k < 1)
      BY CronAssumption DEF Schedules
    <3>. QED BY <3>1, <3>2 DEF RowFollows
  <2>. QED BY <2>2, <2>3
<1>2. TypeInv /\ UndisturbedInv => RunsWhenUndisturbed
  <2>. SUFFICES ASSUME TypeInv, FiringsOnTime, RowFollows, NEW k \in Schedules, now > k * Period
                PROVE  runs[k] > 0
    BY DEF UndisturbedInv, Undisturbed, RunsWhenUndisturbed, RunsOnSchedule
  <2>1. PICK n \in Nat \ {0} :
          /\ next = n * Period
          /\ now <= next \/ n > MaxFirings
          /\ \A j \in Schedules : j < n => runs[j] > 0
    BY DEF RowFollows
  <2>2. k \in Nat /\ k <= MaxFirings /\ MaxFirings \in Nat /\ now \in Nat
    BY CronAssumption DEF Schedules, TypeInv, TypeOK
  <2>3. CASE now <= next
    <3>1. k * Period < n * Period
      <4>1. k * Period \in Nat /\ n * Period \in Nat
        BY <2>2, PeriodTimes
      <4>. QED BY <2>1, <2>2, <2>3, <4>1
    <3>2. k < n
      BY <2>2, <3>1, PeriodTimes
    <3>. QED BY <2>1, <3>2
  <2>4. CASE n > MaxFirings
    BY <2>1, <2>2, <2>4
  <2>. QED BY <2>1, <2>3, <2>4
<1>3. TypeInv /\ ScheduleInv(delay) /\ UndisturbedInv /\ [Next]_vars => UndisturbedInv'
  BY UndisturbedInvariance
<1>. QED BY <1>1, <1>2, <1>3, OnTimeInvariant, PTL DEF Spec
=============================================================================
