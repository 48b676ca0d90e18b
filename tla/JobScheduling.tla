----------------------------- MODULE JobScheduling -----------------------------
(***************************************************************************)
(* Service function calls that clients schedule for later.  A pod stores   *)
(* a row of __Backk__JobScheduling and starts a timer; a pod that starts   *)
(* loads the stored rows and starts their timers.  When the timer goes     *)
(* off, an attempt deletes the row in a transaction; retries follow an     *)
(* attempt that does not answer "nothing to complain of".                  *)
(*                                                                         *)
(* The rows are the jobs: a job is the identity of its row.                *)
(***************************************************************************)
EXTENDS Integers, FiniteSets

CONSTANTS Pods, Jobs,
          Retries,     \* length of retryIntervalsInSecs
          PoolSize,    \* connections of each pod
          MaxCrashes,  \* bound on crashes of pods
          DbErrors     \* the database may refuse a statement

ASSUME JobSchedulingAssumption ==
  /\ Retries \in Nat /\ PoolSize \in Nat \ {0} /\ MaxCrashes \in Nat
  /\ DbErrors \in BOOLEAN

VARIABLES
  rows,     \* the jobs that are stored
  ahead,    \* the jobs whose scheduledExecutionTimestamp lies ahead
  lock,     \* lock[j]: the pod whose transaction has locked and deleted j's row
  state,    \* state[p]: "down", "loading" or "serving"
  loaded,   \* loaded[p]: the module variable scheduledJobs of p is set
  request,  \* request[p]: the job that p is storing for a client
  timer,    \* timer[p][j]: the await of p's cron job for j
  left,     \* left[p][j]: attempts that it has left
  free,     \* free[p]: free connections of p
  crashes,
  taken,    \* ghost: taken[j]: committed deletions of j's row
  executed  \* ghost: the jobs whose service function was called

dbVars == <<rows, lock, taken>>
timerVars == <<timer, left>>
vars == <<dbVars, timerVars, ahead, state, loaded, request, free, crashes, executed>>

(* scheduleJobsForExecution splits the stored list of retry intervals: an  *)
(* empty one becomes one interval, NaN.                                    *)
LoadedAttempts == IF Retries = 0 THEN 2 ELSE Retries + 1

NoJob == "no job"
NoPod == "no pod"

ASSUME NoPodIsNoName == NoPod \notin Pods /\ NoJob \notin Jobs

TimerStates == {"none", "set", "waiting", "reserved", "deleting", "ended"}

TypeOK ==
  /\ rows \subseteq Jobs /\ ahead \subseteq Jobs /\ executed \subseteq Jobs
  /\ lock \in [Jobs -> Pods \union {NoPod}]
  /\ state \in [Pods -> {"down", "loading", "serving"}]
  /\ loaded \in [Pods -> BOOLEAN]
  /\ request \in [Pods -> Jobs \union {NoJob}]
  /\ timer \in [Pods -> [Jobs -> TimerStates]]
  /\ left \in [Pods -> [Jobs -> 0..LoadedAttempts]]
  /\ free \in [Pods -> 0..PoolSize]
  /\ crashes \in 0..MaxCrashes
  /\ taken \in [Jobs -> Nat]

Init ==
  /\ rows = {} /\ ahead = Jobs /\ executed = {}
  /\ lock = [j \in Jobs |-> NoPod]
  /\ state = [p \in Pods |-> "loading"]
  /\ loaded = [p \in Pods |-> FALSE]
  /\ request = [p \in Pods |-> NoJob]
  /\ timer = [p \in Pods |-> [j \in Jobs |-> "none"]]
  /\ left = [p \in Pods |-> [j \in Jobs |-> 0]]
  /\ free = [p \in Pods |-> PoolSize]
  /\ crashes = 0
  /\ taken = [j \in Jobs |-> 0]

----------------------------------------------------------------------------
(* Mutant of StartTimers: a date that has passed is waited for.            *)
StartTimersUnseen(p, jobs, attempts) ==
  /\ timer' = [timer EXCEPT ![p] = [j \in Jobs |-> IF j \in jobs THEN "set" ELSE timer[p][j]]]
  /\ left' = [left EXCEPT ![p] = [j \in Jobs |-> IF j \in jobs THEN attempts ELSE left[p][j]]]

(* scheduleCronJob: the timer of a date that has passed never goes off.    *)
StartTimers(p, jobs, attempts) ==
  /\ timer' = [timer EXCEPT ![p] = [j \in Jobs |->
                 IF j \in jobs THEN (IF j \in ahead THEN "set" ELSE "ended") ELSE timer[p][j]]]
  /\ left' = [left EXCEPT ![p] = [j \in Jobs |-> IF j \in jobs THEN attempts ELSE left[p][j]]]

(* tryScheduleJobExecution: a connection is reserved for the INSERT.       *)
ReserveForRequest(p, j) ==
  /\ state[p] = "serving" /\ request[p] = NoJob /\ free[p] > 0
  /\ j \in ahead \ rows /\ taken[j] = 0
  /\ \A q \in Pods : request[q] # j
  /\ request' = [request EXCEPT ![p] = j]
  /\ free' = [free EXCEPT ![p] = @ - 1]
  /\ UNCHANGED <<dbVars, timerVars, ahead, state, loaded, crashes, executed>>

(* createEntity committed; the connection is released, the timer started   *)
(* and the jobId sent.                                                     *)
StoreJob(p) ==
  /\ request[p] # NoJob
  /\ rows' = rows \union {request[p]}
  /\ StartTimers(p, {request[p]}, Retries + 1)
  /\ request' = [request EXCEPT ![p] = NoJob]
  /\ free' = [free EXCEPT ![p] = @ + 1]
  /\ UNCHANGED <<lock, taken, ahead, state, loaded, crashes, executed>>

(* createEntity returned an error, which is thrown after the release.      *)
StoreJobFails(p) ==
  /\ DbErrors /\ request[p] # NoJob
  /\ request' = [request EXCEPT ![p] = NoJob]
  /\ free' = [free EXCEPT ![p] = @ + 1]
  /\ UNCHANGED <<dbVars, timerVars, ahead, state, loaded, crashes, executed>>

(* Mutant of LoadJobs: the rows are read but their timers are not started. *)
LoadJobsOnly(p) ==
  /\ state[p] = "loading"
  /\ state' = [state EXCEPT ![p] = "serving"]
  /\ loaded' = [loaded EXCEPT ![p] = TRUE]
  /\ UNCHANGED <<dbVars, timerVars, ahead, request, free, crashes, executed>>

(* scheduleJobsForExecution before the request processors start.           *)
LoadJobs(p) ==
  /\ state[p] = "loading"
  /\ StartTimers(p, rows, LoadedAttempts)
  /\ state' = [state EXCEPT ![p] = "serving"]
  /\ loaded' = [loaded EXCEPT ![p] = TRUE]
  /\ UNCHANGED <<dbVars, ahead, request, free, crashes, executed>>

(* All of its attempts failed; Microservice.start does not look at the     *)
(* result.                                                                 *)
LoadJobsFails(p) ==
  /\ DbErrors /\ state[p] = "loading"
  /\ state' = [state EXCEPT ![p] = "serving"]
  /\ UNCHANGED <<dbVars, timerVars, ahead, loaded, request, free, crashes, executed>>

(* The startup check loads the jobs that Microservice.start could not.     *)
StartupCheck(p) ==
  /\ state[p] = "serving" /\ ~loaded[p]
  /\ StartTimers(p, {j \in rows : timer[p][j] = "none"}, LoadedAttempts)
  /\ loaded' = [loaded EXCEPT ![p] = TRUE]
  /\ UNCHANGED <<dbVars, ahead, state, request, free, crashes, executed>>

(* The date comes: the timers of every pod that has one go off.            *)
DateComes(j) ==
  /\ j \in ahead
  /\ ahead' = ahead \ {j}
  /\ timer' = [p \in Pods |-> [timer[p] EXCEPT ![j] = IF @ = "set" THEN "waiting" ELSE @]]
  /\ UNCHANGED <<dbVars, left, state, loaded, request, free, crashes, executed>>

----------------------------------------------------------------------------
(* The attempts                                                            *)

(* What executeInsideTransaction answered is a [result, error] pair in any *)
(* case, and a pair is truthy: "if (possibleErrorResponse) return false".  *)
Truthy(pair) == TRUE

(* Mutant of EndAttempt: the list of retry intervals is not exhausted.     *)
EndAttemptForEver(p, j, pair) ==
  /\ timer' = [timer EXCEPT ![p][j] = IF Truthy(pair) THEN "waiting" ELSE "ended"]
  /\ left' = [left EXCEPT ![p][j] = @ - 1]

(* findAsyncSequential goes on until an attempt answers true.              *)
EndAttempt(p, j, pair) ==
  /\ timer' = [timer EXCEPT ![p][j] = IF Truthy(pair) /\ left[p][j] > 1 THEN "waiting" ELSE "ended"]
  /\ left' = [left EXCEPT ![p][j] = @ - 1]

(* The finally block releases before it resets the "connection" flag of    *)
(* multipleServiceFunctionExecutions, so nothing is released.              *)
Finally(p) == UNCHANGED free

ReserveConnection(p, j) ==
  /\ timer[p][j] = "waiting" /\ free[p] > 0
  /\ free' = [free EXCEPT ![p] = @ - 1]
  /\ timer' = [timer EXCEPT ![p][j] = "reserved"]
  /\ UNCHANGED <<dbVars, left, ahead, state, loaded, request, crashes, executed>>

(* It throws: the flag is not set yet, and there is nothing to release.    *)
ReserveFails(p, j) ==
  /\ DbErrors /\ timer[p][j] = "waiting"
  /\ EndAttempt(p, j, "error")
  /\ UNCHANGED <<dbVars, ahead, state, loaded, request, free, crashes, executed>>

(* Mutant of DeleteRow: DELETE without reading the row first, which        *)
(* succeeds when there is none.                                            *)
DeleteRowUnread(p, j) ==
  /\ timer[p][j] = "reserved" /\ lock[j] = NoPod
  /\ lock' = [lock EXCEPT ![j] = p]
  /\ timer' = [timer EXCEPT ![p][j] = "deleting"]
  /\ UNCHANGED <<rows, taken, left, ahead, state, loaded, request, free, crashes, executed>>

(* deleteEntityById reads the row FOR UPDATE, because of its pre-hook, and *)
(* deletes it.                                                             *)
DeleteRow(p, j) ==
  /\ timer[p][j] = "reserved" /\ lock[j] = NoPod /\ j \in rows
  /\ lock' = [lock EXCEPT ![j] = p]
  /\ timer' = [timer EXCEPT ![p][j] = "deleting"]
  /\ UNCHANGED <<rows, taken, left, ahead, state, loaded, request, free, crashes, executed>>

(* The row is not there, or BEGIN, SELECT or DELETE fails.                 *)
DeleteRowFails(p, j) ==
  /\ timer[p][j] = "reserved"
  /\ \/ DbErrors
     \/ j \notin rows /\ lock[j] = NoPod
  /\ EndAttempt(p, j, "error")
  /\ Finally(p)
  /\ UNCHANGED <<dbVars, ahead, state, loaded, request, crashes, executed>>

(* "possibleErrorResponse || tryExecuteServiceMethod(...)", then COMMIT.   *)
CommitAttempt(p, j) ==
  /\ timer[p][j] = "deleting"
  /\ executed' = IF Truthy("result") THEN executed ELSE executed \union {j}
  /\ rows' = rows \ {j}
  /\ taken' = [taken EXCEPT ![j] = @ + 1]
  /\ lock' = [lock EXCEPT ![j] = NoPod]
  /\ EndAttempt(p, j, "result")
  /\ Finally(p)
  /\ UNCHANGED <<ahead, state, loaded, request, crashes>>

(* COMMIT fails without having taken effect.                               *)
CommitFails(p, j) ==
  /\ DbErrors /\ timer[p][j] = "deleting"
  /\ lock' = [lock EXCEPT ![j] = NoPod]
  /\ EndAttempt(p, j, "error")
  /\ Finally(p)
  /\ UNCHANGED <<rows, taken, ahead, state, loaded, request, crashes, executed>>

----------------------------------------------------------------------------
Crash(p) ==
  /\ crashes < MaxCrashes /\ state[p] # "down"
  /\ crashes' = crashes + 1
  /\ state' = [state EXCEPT ![p] = "down"]
  /\ loaded' = [loaded EXCEPT ![p] = FALSE]
  /\ request' = [request EXCEPT ![p] = NoJob]
  /\ timer' = [timer EXCEPT ![p] = [j \in Jobs |-> "none"]]
  /\ left' = [left EXCEPT ![p] = [j \in Jobs |-> 0]]
  /\ free' = [free EXCEPT ![p] = PoolSize]
  /\ lock' = [j \in Jobs |-> IF lock[j] = p THEN NoPod ELSE lock[j]]
  /\ UNCHANGED <<rows, taken, ahead, executed>>

Restart(p) ==
  /\ state[p] = "down"
  /\ state' = [state EXCEPT ![p] = "loading"]
  /\ UNCHANGED <<dbVars, timerVars, ahead, loaded, request, free, crashes, executed>>

Attempt(p, j) ==
  \/ ReserveConnection(p, j) \/ ReserveFails(p, j)
  \/ DeleteRow(p, j) \/ DeleteRowFails(p, j)
  \/ CommitAttempt(p, j) \/ CommitFails(p, j)

Start(p) == Restart(p) \/ LoadJobs(p) \/ LoadJobsFails(p)

Next ==
  \/ \E p \in Pods, j \in Jobs : ReserveForRequest(p, j) \/ Attempt(p, j)
  \/ \E p \in Pods :
       StoreJob(p) \/ StoreJobFails(p) \/ Start(p) \/ StartupCheck(p) \/ Crash(p)
  \/ \E j \in Jobs : DateComes(j)

Spec == Init /\ [][Next]_vars

(* Awaits settle, dates come, pods that ended are started again; an        *)
(* attempt that waits for a connection must not count on a failure.        *)
FairSpec ==
  /\ Spec
  /\ \A p \in Pods : WF_vars(Start(p)) /\ WF_vars(StoreJob(p))
  /\ \A p \in Pods, j \in Jobs : WF_vars(Attempt(p, j) /\ ~ReserveFails(p, j))
  /\ \A j \in Jobs : WF_vars(DateComes(j))

----------------------------------------------------------------------------
(* The row of a job is deleted by one attempt on one pod, though several   *)
(* pods have a timer for it and each of them retries.                      *)
JobTakenOnce == \A j \in Jobs : taken[j] <= 1

(* A job is not forgotten while its date lies ahead: whichever pod crashed *)
(* and started since, a pod that has loaded its jobs has a timer for every *)
(* job that a client scheduled with it or with a pod that no longer knows. *)
StoredJobsHaveTimers ==
  \A j \in rows \intersect ahead :
    (\A p \in Pods : state[p] = "serving" /\ loaded[p]) => \E p \in Pods : timer[p][j] = "set"

(* A scheduled service function call is executed: the attempt that takes   *)
(* the row calls the function.                                             *)
TakenJobIsExecuted == \A j \in Jobs : taken[j] > 0 => j \in executed

(* Liveness: a timer that was set comes to an end, with the row taken or   *)
(* all attempts spent, unless attempts have kept all connections.          *)
TimersEnd ==
  \A p \in Pods, j \in Jobs :
    timer[p][j] = "set" ~> timer[p][j] \in {"ended", "none"} \/ free[p] = 0

(* Liveness: a service function call that is stored for later is taken     *)
(* later.  Its date may come while it is stored, before scheduleCronJob    *)
(* starts the timer: the row stays until a pod starts and beyond.          *)
StoredJobIsTaken == \A j \in Jobs : j \in rows ~> taken[j] > 0

(* Liveness: service function calls can be scheduled, which takes a        *)
(* connection of the pod.  The finally block of scheduleCronJob gives none *)
(* back, so that attempts use up the pool.                                 *)
ConnectionsComeBack == \A p \in Pods : free[p] = 0 ~> free[p] > 0
=============================================================================
