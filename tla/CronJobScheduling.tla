--------------------------- MODULE CronJobScheduling ---------------------------
(***************************************************************************)
(* A @CronJob service function on several pods of a microservice.  Every   *)
(* pod fires the job at every multiple of Period; the pods agree on who    *)
(* runs it through the row of __Backk__CronJobScheduling, whose            *)
(* nextScheduledTimestamp an attempt compares with the time and moves      *)
(* ahead in the transaction that the job's function runs in.               *)
(*                                                                         *)
(* One unit of time is longer than the 500 ms that the pre-hook tolerates  *)
(* and not longer than the shortest retry interval.  The clocks of the     *)
(* pods agree.                                                             *)
(***************************************************************************)
EXTENDS Integers, Sequences, FiniteSets

CONSTANTS Pods,
          Period,             \* time between two schedule times
          RetryIntervals,     \* retryIntervalsInSecs of the job
          PoolSize,           \* connections of each pod
          MaxFirings,         \* bound on the schedule times that are looked at
          MaxTime,            \* bound on the clock
          MaxCrashes,         \* bound on crashes of pods
          Punctual,           \* what is due is done before time goes on
          FunctionFails,      \* the job's function may return an error
          EarlyErrors,        \* reserving a connection or BEGIN may fail
          DbErrors,           \* the statements after BEGIN may fail, COMMIT included
          FieldNamedAsClass   \* the microservice's field has the name of the service class

ASSUME CronAssumption ==
  /\ Period \in Nat \ {0} /\ PoolSize \in Nat \ {0}
  /\ MaxFirings \in Nat /\ MaxTime \in Nat /\ MaxCrashes \in Nat
  /\ RetryIntervals \in Seq(Nat \ {0})
  /\ {Punctual, FunctionFails, EarlyErrors, DbErrors, FieldNamedAsClass} \subseteq BOOLEAN

VARIABLES
  now,
  up,       \* up[p]: pod p runs
  next,     \* nextScheduledTimestamp of the job's row
  holder,   \* the firing whose transaction has locked the row
  free,     \* free[p]: free connections of pod p
  pc,       \* pc[f]: the await firing f is at
  attempt,  \* attempt[f]: the attempt f is at, 1 is the first
  due,      \* due[f]: when that attempt starts
  base,     \* base[f]: schedule times that had passed when f parsed the schedule
  steps,    \* steps[f]: how often f has called interval.next()
  crashes,
  runs,     \* ghost: runs[k]: committed runs that had nextScheduledTimestamp = k * Period
  failures, \* ghost: the schedule times at which a run failed
  unmoved   \* ghost: the schedule times that late retries have written

rowVars == <<next, holder, runs, failures, unmoved>>
vars == <<now, up, next, holder, free, pc, attempt, due, base, steps, crashes, runs, failures, unmoved>>

Schedules == 1..MaxFirings
Firings == Pods \X Schedules
NoFiring == <<"none", 0>>

TypeOK ==
  /\ now \in 0..MaxTime
  /\ up \in [Pods -> BOOLEAN]
  /\ next \in Nat
  /\ holder \in Firings \union {NoFiring}
  /\ free \in [Pods -> 0..PoolSize]
  /\ pc \in [Firings -> {"idle", "waiting", "reserved", "begun", "running", "finished", "lost"}]
  /\ attempt \in [Firings -> 1..(Len(RetryIntervals) + 1)]
  /\ due \in [Firings -> Nat]
  /\ base \in [Firings -> Nat]
  /\ steps \in [Firings -> Nat]
  /\ crashes \in 0..MaxCrashes
  /\ runs \in [Schedules -> Nat]
  /\ failures \subseteq Schedules
  /\ unmoved \subseteq Schedules

(* Every pod has executed tryInitializeCronJobSchedulingTable at time 0.   *)
Init ==
  /\ now = 0
  /\ up = [p \in Pods |-> TRUE]
  /\ next = Period
  /\ holder = NoFiring
  /\ free = [p \in Pods |-> PoolSize]
  /\ pc = [f \in Firings |-> "idle"]
  /\ attempt = [f \in Firings |-> 1]
  /\ due = [f \in Firings |-> 0]
  /\ base = [f \in Firings |-> 0]
  /\ steps = [f \in Firings |-> 0]
  /\ crashes = 0
  /\ runs = [k \in Schedules |-> 0]
  /\ failures = {}
  /\ unmoved = {}

----------------------------------------------------------------------------
(* CronJob: the schedule time has come; the schedule is parsed once per    *)
(* firing, its first attempt waits 0 seconds.                              *)
Fire(f) ==
  /\ up[f[1]] /\ pc[f] = "idle" /\ now >= f[2] * Period
  /\ pc' = [pc EXCEPT ![f] = "waiting"]
  /\ due' = [due EXCEPT ![f] = now]
  /\ base' = [base EXCEPT ![f] = now \div Period]
  /\ UNCHANGED <<now, up, rowVars, free, attempt, steps, crashes>>

(* The attempt returned error ("return !error"): findAsyncSequential goes  *)
(* on with the next retry interval after one, and ends after success; the  *)
(* parsed schedule ends with it.                                           *)
EndAttempt(f, error) ==
  /\ IF error /\ attempt[f] <= Len(RetryIntervals)
       THEN /\ pc' = [pc EXCEPT ![f] = "waiting"]
            /\ attempt' = [attempt EXCEPT ![f] = @ + 1]
            /\ due' = [due EXCEPT ![f] = now + RetryIntervals[attempt[f]]]
            /\ UNCHANGED steps
       ELSE /\ pc' = [pc EXCEPT ![f] = "finished"]
            /\ steps' = [steps EXCEPT ![f] = 0]
            /\ UNCHANGED <<attempt, due>>
  /\ UNCHANGED <<now, up, base, crashes>>

Reserve(f) ==
  /\ pc[f] = "waiting" /\ now >= due[f] /\ free[f[1]] > 0
  /\ free' = [free EXCEPT ![f[1]] = @ - 1]
  /\ pc' = [pc EXCEPT ![f] = "reserved"]
  /\ UNCHANGED <<now, up, rowVars, attempt, due, base, steps, crashes>>

(* Mutant of ReserveFails: the finally block releases all the same.        *)
ReserveFailsReleasing(f) ==
  /\ EarlyErrors
  /\ pc[f] = "waiting" /\ now >= due[f]
  /\ free' = [free EXCEPT ![f[1]] = @ + 1]
  /\ EndAttempt(f, TRUE)
  /\ UNCHANGED rowVars

(* Nothing was reserved, so the finally block releases nothing.            *)
ReserveFails(f) ==
  /\ EarlyErrors
  /\ pc[f] = "waiting" /\ now >= due[f]
  /\ EndAttempt(f, TRUE)
  /\ UNCHANGED <<rowVars, free>>

(* Mutant of Release: the "multipleServiceFunctionExecutions" flag is      *)
(* still set, so tryReleaseDbConnectionBackToPool returns at once.         *)
ReleaseWithFlagSet(f) == free' = free

(* The finally block, also after an exception.                             *)
Release(f) == free' = [free EXCEPT ![f[1]] = @ + 1]

(* The pre-hook: nextScheduledTimestamp is now, within 500 ms.             *)
IsDue == now = next

(* BEGIN fails: the executable, which calls interval.next(), is not        *)
(* called.                                                                 *)
BeginFails(f) ==
  /\ EarlyErrors
  /\ pc[f] = "reserved"
  /\ Release(f)
  /\ EndAttempt(f, TRUE)
  /\ UNCHANGED rowVars

(* The executable calls interval.next() and asks for the row.              *)
Begin(f) ==
  /\ pc[f] = "reserved"
  /\ steps' = [steps EXCEPT ![f] = @ + 1]
  /\ pc' = [pc EXCEPT ![f] = "begun"]
  /\ UNCHANGED <<now, up, rowVars, free, attempt, due, base, crashes>>

(* Mutants of NextSchedule: interval.next() is called twice per executable, *)
(* or once for the firing.                                                 *)
NextScheduleTwice(f) == (base[f] + 2 * steps[f]) * Period
NextScheduleOfFiring(f) == (base[f] + 1) * Period

(* What interval.next() returned: the schedule times after the firing, one *)
(* per executable.                                                         *)
NextSchedule(f) == (base[f] + steps[f]) * Period

(* Mutant of UpdateRow: the row is read without FOR UPDATE.                *)
UpdateRowUnlocked(f) ==
  /\ pc[f] = "begun" /\ FieldNamedAsClass
  /\ IsDue
  /\ pc' = [pc EXCEPT ![f] = "running"]
  /\ UNCHANGED <<now, up, rowVars, free, attempt, due, base, steps, crashes>>

(* updateEntityByFilters found the row, locked it and its pre-hook holds;  *)
(* the function begins.                                                    *)
UpdateRow(f) ==
  /\ pc[f] = "begun" /\ FieldNamedAsClass
  /\ holder = NoFiring /\ IsDue
  /\ holder' = f
  /\ pc' = [pc EXCEPT ![f] = "running"]
  /\ UNCHANGED <<now, up, next, runs, failures, unmoved, free, attempt, due, base, steps, crashes>>

(* The pre-hook refused (BAD_REQUEST): another pod has run the job.        *)
Skip(f) ==
  /\ pc[f] = "begun" /\ FieldNamedAsClass
  /\ holder = NoFiring /\ ~IsDue
  /\ Release(f)
  /\ EndAttempt(f, FALSE)
  /\ UNCHANGED rowVars

(* The update fails; or the row is not found, because the table is keyed   *)
(* with the class name and the filter has the field's name.                *)
UpdateRowFails(f) ==
  /\ pc[f] = "begun"
  /\ DbErrors \/ ~FieldNamedAsClass
  /\ Release(f)
  /\ EndAttempt(f, TRUE)
  /\ UNCHANGED rowVars

(* An earlier attempt of the firing ended before interval.next(): what it  *)
(* returns now is a schedule time earlier than for the attempts so far.    *)
Late(f) == steps[f] < attempt[f]

(* The function succeeded and its transaction is committed with the row.   *)
CommitRun(f) ==
  /\ pc[f] = "running"
  /\ holder' = NoFiring
  /\ next' = NextSchedule(f)
  /\ runs' = [k \in Schedules |-> IF k * Period = next THEN runs[k] + 1 ELSE runs[k]]
  /\ unmoved' = unmoved \union {k \in Schedules : Late(f) /\ k * Period = NextSchedule(f)}
  /\ Release(f)
  /\ EndAttempt(f, FALSE)
  /\ UNCHANGED failures

(* The function answered with an error: everything is rolled back.         *)
RollbackRun(f) ==
  /\ FunctionFails \/ DbErrors
  /\ pc[f] = "running"
  /\ holder' = NoFiring
  /\ Release(f)
  /\ failures' = failures \union {k \in Schedules : k * Period = next}
  /\ EndAttempt(f, TRUE)
  /\ UNCHANGED <<next, runs, unmoved>>

----------------------------------------------------------------------------
(* The pod ends: its transaction is rolled back, its firings are lost.     *)
Crash(p) ==
  /\ crashes < MaxCrashes /\ up[p]
  /\ crashes' = crashes + 1
  /\ up' = [up EXCEPT ![p] = FALSE]
  /\ free' = [free EXCEPT ![p] = PoolSize]
  /\ pc' = [f \in Firings |->
              IF f[1] = p /\ (pc[f] # "idle" \/ now >= f[2] * Period) THEN "lost" ELSE pc[f]]
  /\ steps' = [f \in Firings |-> IF f[1] = p THEN 0 ELSE steps[f]]
  /\ holder' = IF holder[1] = p THEN NoFiring ELSE holder
  /\ UNCHANGED <<now, next, runs, failures, unmoved, attempt, due, base>>

(* Mutant of Start: the pod that starts takes the current time for the     *)
(* next schedule time.                                                     *)
StartAtOnce(p) ==
  /\ ~up[p] /\ holder = NoFiring
  /\ up' = [up EXCEPT ![p] = TRUE]
  /\ next' = (now \div Period) * Period
  /\ pc' = [f \in Firings |->
              IF f[1] = p /\ pc[f] = "idle" /\ now >= f[2] * Period THEN "lost" ELSE pc[f]]
  /\ UNCHANGED <<now, holder, runs, failures, unmoved, free, attempt, due, base, steps, crashes>>

(* tryInitializeCronJobSchedulingTable when a pod starts: the row is       *)
(* locked, then set to the schedule time that follows.  Schedule times     *)
(* while the pod was down do not fire on it.                               *)
Start(p) ==
  /\ ~up[p] /\ holder = NoFiring
  /\ up' = [up EXCEPT ![p] = TRUE]
  /\ next' = (now \div Period + 1) * Period
  /\ pc' = [f \in Firings |->
              IF f[1] = p /\ pc[f] = "idle" /\ now >= f[2] * Period THEN "lost" ELSE pc[f]]
  /\ UNCHANGED <<now, holder, runs, failures, unmoved, free, attempt, due, base, steps, crashes>>

(* Something that this instant's work consists of is not done yet.         *)
Pending ==
  \E f \in Firings :
    \/ up[f[1]] /\ pc[f] = "idle" /\ now >= f[2] * Period
    \/ pc[f] = "waiting" /\ now >= due[f]
    \/ pc[f] \in {"reserved", "begun", "running"}

Tick ==
  /\ now < MaxTime
  /\ Punctual => ~Pending
  /\ now' = now + 1
  /\ UNCHANGED <<up, rowVars, free, pc, attempt, due, base, steps, crashes>>

Attempt(f) ==
  \/ Fire(f) \/ Reserve(f) \/ ReserveFails(f)
  \/ Begin(f) \/ BeginFails(f)
  \/ UpdateRow(f) \/ Skip(f) \/ UpdateRowFails(f)
  \/ CommitRun(f) \/ RollbackRun(f)

Next ==
  \/ \E f \in Firings : Attempt(f)
  \/ \E p \in Pods : Crash(p) \/ Start(p)
  \/ Tick

Spec == Init /\ [][Next]_vars

(* Timers go off, awaits settle and a pod that crashed is started again; a *)
(* firing that waits for a connection must not count on the pool's failure. *)
FairSpec ==
  /\ Spec
  /\ WF_vars(Tick)
  /\ \A f \in Firings : WF_vars(Attempt(f) /\ ~ReserveFails(f))
  /\ \A p \in Pods : WF_vars(Start(p))

----------------------------------------------------------------------------
(* A run of a late retry ends.                                             *)
WrittenLate == \E f \in Firings : Late(f) /\ pc[f] = "running" /\ pc'[f] = "finished"

(* The pods run the job at most once per schedule time, whatever fails and *)
(* whichever pod starts again meanwhile; but for a schedule time that a    *)
(* retry has written late, after an attempt before it could not reserve a  *)
(* connection or begin a transaction (line 50 comes after lines 39, 43).   *)
RunsOncePerSchedule == \A k \in Schedules : runs[k] <= 1 \/ k \in unmoved

(* What is written to nextScheduledTimestamp lies ahead, unless a retry    *)
(* writes it late: the row never invites the firings of a schedule time    *)
(* that has been served.                                                   *)
NextLiesAhead == [][next' # next => next' > now \/ WrittenLate]_vars

(* The job runs at most once per schedule time, without exception ("Cron   *)
(* jobs are service functions that are executed on given schedule",        *)
(* docs/usage/SPECIAL_SERVICE_FUNCTION_TYPES.MD:16-17).                    *)
RunsOnceWithoutException == \A k \in Schedules : runs[k] <= 1

(* No path of an attempt keeps a connection: what is not free is held by   *)
(* an attempt that is under way.                                           *)
ConnectionsAccounted ==
  \A p \in Pods :
    free[p] + Cardinality({f \in Firings : f[1] = p /\ pc[f] \in {"reserved", "begun", "running"}}) = PoolSize

(* The function runs according to its schedule: at every schedule time     *)
(* that has passed, unless it was run then and failed.  ("Cron jobs are    *)
(* service functions that are executed on given schedule",                 *)
(* docs/usage/SPECIAL_SERVICE_FUNCTION_TYPES.MD:16-17.)                    *)
RunsOnSchedule == \A k \in Schedules : now > k * Period => runs[k] > 0 \/ k \in failures

(* The same as long as no pod has crashed and no attempt has failed, so    *)
(* that no firing is at its second attempt: every pod computes from its    *)
(* own firing the timestamp that the next firings of all pods expect.      *)
RunsWhenUndisturbed == crashes = 0 /\ (\A f \in Firings : attempt[f] = 1) => RunsOnSchedule

(* Liveness: a firing ends, with a run or without, even if all attempts    *)
(* fail, so that firings do not pile up on the pool.                       *)
EveryFiringEnds ==
  \A f \in Firings : pc[f] = "waiting" ~> pc[f] \in {"finished", "lost"}
=============================================================================
