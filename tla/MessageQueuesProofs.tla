------------------------- MODULE MessageQueuesProofs -------------------------
(***************************************************************************)
(* Proofs about MessageQueues, for every number of messages and pods, and  *)
(* every number of failures and disturbances.                              *)
(***************************************************************************)
EXTENDS MessageQueues, TLAPS, FiniteSetTheorems

KafkaStates == {"connect", "idle", "executing", "waiting", "thrown"}
RedisStates == {"idle", "executing", "waiting"}

TypeInv ==
  /\ sent \in [Messages -> {Unsent, "sent", "error"}]
  /\ log \in Seq(Messages) /\ list \in Seq(Messages)
  /\ committed \in Nat \union {NoOffset} /\ skippedTo \in Nat
  /\ kafka \in [Pods -> [at : KafkaStates, offset : Nat]]
  /\ redis \in [Pods -> [at : RedisStates, message : Messages \union {NoMessage}]]
  /\ executed \in [Messages -> Nat]

(* Consumers do not get ahead of the partition.                            *)
WithinLog ==
  /\ committed <= Len(log) /\ skippedTo <= Len(log)
  /\ \A p \in Pods :
       /\ kafka[p].offset <= Len(log)
       /\ kafka[p].at \in {"executing", "waiting"} => kafka[p].offset < Len(log)
       /\ redis[p].at # "idle" <=> redis[p].message # NoMessage

Held(m) == \E p \in Pods : redis[p].message = m

(* A message is in one place at a time: not sent, in the partition, in the *)
(* list or with one pod that took it from the list.                        *)
OnePlace ==
  /\ \A m \in Messages :
       /\ sent[m] = Unsent => ~Contains(log, m) /\ ~Contains(list, m) /\ ~Held(m) /\ executed[m] = 0
       /\ Contains(list, m) \/ Held(m) => ~Contains(log, m) /\ executed[m] = 0
       /\ ~(Contains(list, m) /\ Held(m))
       /\ ~Contains(log, m) => executed[m] <= 1
  /\ \A i, j \in 1..Len(log) : log[i] = log[j] => i = j
  /\ \A i, j \in 1..Len(list) : list[i] = list[j] => i = j
  /\ \A p, q \in Pods : redis[p].message = redis[q].message /\ redis[p].message # NoMessage => p = q

(* What is before an offset, or before a message that was executed, was    *)
(* executed, where it was not skipped.                                     *)
ExecutedIn(s, skipped, count, n) == \A i \in 1..Len(s) : skipped < i /\ i <= n => count[s[i]] > 0

ExecutedUpTo(n) == ExecutedIn(log, skippedTo, executed, n)

InOrder ==
  /\ \A p \in Pods : ExecutedUpTo(kafka[p].offset)
  /\ ExecutedUpTo(committed)
  /\ \A j \in 1..Len(log) : skippedTo < j /\ executed[log[j]] > 0 => ExecutedUpTo(j)

----------------------------------------------------------------------------
(* Sequences of messages                                                   *)

Distinct(s) == \A i, j \in 1..Len(s) : s[i] = s[j] => i = j

(* A message that is sent comes last.                                      *)
LEMMA Appended ==
  ASSUME NEW s \in Seq(Messages), NEW m \in Messages
  PROVE  /\ Append(s, m) \in Seq(Messages) /\ Len(Append(s, m)) = Len(s) + 1 /\ Len(s) \in Nat
         /\ \A i \in 1..Len(s) : Append(s, m)[i] = s[i]
         /\ Append(s, m)[Len(s) + 1] = m
         /\ \A x : Contains(Append(s, m), x) <=> Contains(s, x) \/ x = m
         /\ Distinct(s) /\ ~Contains(s, m) => Distinct(Append(s, m))
<1>1. /\ Append(s, m) \in Seq(Messages) /\ Len(Append(s, m)) = Len(s) + 1 /\ Len(s) \in Nat
      /\ \A i \in 1..Len(s) : Append(s, m)[i] = s[i]
      /\ Append(s, m)[Len(s) + 1] = m
  OBVIOUS
<1>2. \A i \in 1..(Len(s) + 1) : i \in 1..Len(s) \/ i = Len(s) + 1
  BY <1>1
<1>3. \A x : Contains(Append(s, m), x) <=> Contains(s, x) \/ x = m
  BY <1>1, <1>2 DEF Contains
<1>4. Distinct(s) /\ ~Contains(s, m) => Distinct(Append(s, m))
  BY <1>1, <1>2 DEF Distinct, Contains
<1>. QED BY <1>1, <1>3, <1>4

(* A message that is taken from the list is not in it any more.            *)
LEMMA TakenFirst ==
  ASSUME NEW s \in Seq(Messages), s # <<>>, Distinct(s)
  PROVE  /\ Tail(s) \in Seq(Messages) /\ Head(s) \in Messages
         /\ \A x : Contains(s, x) <=> x = Head(s) \/ Contains(Tail(s), x)
         /\ ~Contains(Tail(s), Head(s))
         /\ Distinct(Tail(s))
<1>1. /\ Tail(s) \in Seq(Messages) /\ Head(s) \in Messages /\ Head(s) = s[1]
      /\ Len(s) \in Nat \ {0} /\ Len(Tail(s)) = Len(s) - 1
      /\ \A i \in 1..Len(Tail(s)) : Tail(s)[i] = s[i + 1]
  OBVIOUS
<1>2. \A i \in 1..Len(s) : i = 1 \/ (i - 1 \in 1..Len(Tail(s)) /\ s[i] = Tail(s)[i - 1])
  BY <1>1
<1>3. \A i \in 1..Len(Tail(s)) : i + 1 \in 1..Len(s) /\ i + 1 # 1
  BY <1>1
<1>4. \A x : Contains(s, x) <=> x = Head(s) \/ Contains(Tail(s), x)
  <2>1. ASSUME NEW x, Contains(s, x) PROVE x = Head(s) \/ Contains(Tail(s), x)
    BY <1>1, <1>2, <2>1 DEF Contains
  <2>2. ASSUME NEW x, Contains(Tail(s), x) PROVE Contains(s, x)
    BY <1>1, <1>3, <2>2 DEF Contains
  <2>3. Contains(s, Head(s))
    BY <1>1 DEF Contains
  <2>. QED BY <2>1, <2>2, <2>3
<1>5. ~Contains(Tail(s), Head(s))
  <2>. SUFFICES ASSUME NEW i \in 1..Len(Tail(s)), Tail(s)[i] = Head(s) PROVE FALSE
    BY DEF Contains
  <2>1. s[i + 1] = s[1] /\ i + 1 \in 1..Len(s) /\ 1 \in 1..Len(s) /\ i + 1 # 1
    BY <1>1, <1>3
  <2>. QED BY <2>1 DEF Distinct
<1>6. Distinct(Tail(s))
  <2>. SUFFICES ASSUME NEW i \in 1..Len(Tail(s)), NEW j \in 1..Len(Tail(s)), Tail(s)[i] = Tail(s)[j]
                PROVE  i = j
    BY DEF Distinct
  <2>1. s[i + 1] = s[j + 1] /\ i + 1 \in 1..Len(s) /\ j + 1 \in 1..Len(s)
    BY <1>1, <1>3
  <2>2. i + 1 = j + 1
    BY <2>1 DEF Distinct
  <2>. QED BY <2>2
<1>. QED BY <1>1, <1>4, <1>5, <1>6

----------------------------------------------------------------------------
(* Types                                                                   *)

(* The initial values have their types.                                    *)
LEMMA InitialTypes == Init => TypeInv /\ WithinLog
BY DEF Init, TypeInv, WithinLog, KafkaStates, RedisStates, NoOffset, Unsent

(* A step changes each variable within its type, and offsets within the    *)
(* partition.                                                              *)
LEMMA TypeInvariance == TypeInv /\ WithinLog /\ OnePlace /\ [Next]_vars => TypeInv' /\ WithinLog'
<1>. SUFFICES ASSUME TypeInv, WithinLog, OnePlace, [Next]_vars PROVE TypeInv' /\ WithinLog'
  OBVIOUS
<1>. USE NoMessageAssumption DEF TypeInv, WithinLog, KafkaStates, RedisStates, NoOffset, KafkaAt,
         OthersOfSend, OthersOfKafka, OthersOfRedis
<1>a. Len(log) \in Nat /\ \A i \in 1..Len(log) : log[i] \in Messages
  OBVIOUS
<1>1. ASSUME NEW m \in Messages, sendOneOrMoreToKafka(m) PROVE TypeInv' /\ WithinLog'
  <2>1. sent' \in [Messages -> {Unsent, "sent", "error"}]
    BY <1>1 DEF sendOneOrMoreToKafka, Told
  <2>2. log' \in Seq(Messages) /\ Len(log') >= Len(log) /\ Len(log') \in Nat
    <3>1. CASE log' = Append(log, m)
      <4>1. /\ Append(log, m) \in Seq(Messages) /\ Len(Append(log, m)) = Len(log) + 1
            /\ Len(log) \in Nat
        OBVIOUS
      <4>. QED BY ONLY <3>1, <4>1
    <3>2. CASE log' = log
      BY <1>a, <3>2
    <3>. QED BY <1>1, <3>1, <3>2 DEF sendOneOrMoreToKafka
  <2>3. UNCHANGED <<list, OthersOfSend>>
    BY <1>1 DEF sendOneOrMoreToKafka
  <2>. QED BY <1>a, <2>1, <2>2, <2>3
<1>2. ASSUME NEW m \in Messages, sendOneOrMoreToRedis(m) PROVE TypeInv' /\ WithinLog'
  <2>1. sent' \in [Messages -> {Unsent, "sent", "error"}]
    BY <1>2 DEF sendOneOrMoreToRedis, Told
  <2>2. list' \in Seq(Messages)
    <3>1. CASE list' = Append(list, m)
      <4>1. Append(list, m) \in Seq(Messages)
        OBVIOUS
      <4>. QED BY ONLY <3>1, <4>1
    <3>2. CASE list' = list
      BY <3>2
    <3>. QED BY <1>2, <3>1, <3>2 DEF sendOneOrMoreToRedis
  <2>3. UNCHANGED <<log, OthersOfSend>>
    BY <1>2 DEF sendOneOrMoreToRedis
  <2>. QED BY <2>1, <2>2, <2>3
<1>3. ASSUME NEW messages \in SUBSET Messages, sendToRemoteServiceInsideTransaction(messages)
      PROVE  TypeInv' /\ WithinLog'
  BY <1>3 DEF sendToRemoteServiceInsideTransaction
<1>4. ASSUME NEW p \in Pods, Connect(p) PROVE TypeInv' /\ WithinLog'
  BY <1>a, <1>4 DEF Connect, Delivered
<1>5. ASSUME NEW p \in Pods, DeliverMessage(p) PROVE TypeInv' /\ WithinLog'
  BY <1>a, <1>5 DEF DeliverMessage, Delivered
<1>6. ASSUME NEW p \in Pods, RefuseFromKafka(p) PROVE TypeInv' /\ WithinLog'
  BY <1>a, <1>6 DEF RefuseFromKafka, Delivered
<1>7. ASSUME NEW p \in Pods, FailFromKafka(p) PROVE TypeInv' /\ WithinLog'
  BY <1>a, <1>7 DEF FailFromKafka, Delivered
<1>8. ASSUME NEW p \in Pods, SendAgainToKafka(p) PROVE TypeInv' /\ WithinLog'
  BY <1>a, <1>8 DEF SendAgainToKafka, Delivered
<1>9. ASSUME NEW p \in Pods, ExecuteFromKafka(p) PROVE TypeInv' /\ WithinLog'
  <2>1. Delivered(p) \in Messages /\ kafka[p].offset + 1 <= Len(log) /\ kafka[p].offset + 1 \in Nat
    BY <1>a, <1>9 DEF ExecuteFromKafka, Delivered
  <2>. QED BY <1>a, <1>9, <2>1 DEF ExecuteFromKafka
<1>10. ASSUME NEW p \in Pods, DeliverAgain(p) PROVE TypeInv' /\ WithinLog'
  <2>1. committed' \in Nat \union {NoOffset} /\ committed' <= Len(log)
    BY <1>a, <1>10 DEF DeliverAgain, CommitHandled
  <2>. QED BY <1>a, <1>10, <2>1 DEF DeliverAgain
<1>11. ASSUME NEW p \in Pods, GiveUp(p) PROVE TypeInv' /\ WithinLog'
  <2>1. committed' \in Nat \union {NoOffset} /\ committed' <= Len(log)
    BY <1>a, <1>11 DEF GiveUp, CommitHandled
  <2>. QED BY <1>a, <1>11, <2>1 DEF GiveUp
<1>12. ASSUME NEW p \in Pods, Commit(p) PROVE TypeInv' /\ WithinLog'
  <2>1. committed' \in Nat \union {NoOffset} /\ committed' <= Len(log)
    BY <1>a, <1>12 DEF Commit, CommitHandled
  <2>. QED BY <1>a, <1>12, <2>1 DEF Commit
<1>13. ASSUME NEW p \in Pods, Assign(p) PROVE TypeInv' /\ WithinLog'
  <2>1. StartOffset \in Nat /\ StartOffset <= Len(log)
    BY <1>a DEF StartOffset
  <2>. QED BY <1>a, <1>13, <2>1 DEF Assign
<1>14. ASSUME NEW p \in Pods, Take(p) PROVE TypeInv' /\ WithinLog'
  <2>1. Tail(list) \in Seq(Messages) /\ Head(list) \in Messages
    BY <1>14 DEF Take
  <2>. QED BY <1>14, <2>1 DEF Take
<1>15. ASSUME NEW p \in Pods, ExecuteFromRedis(p) PROVE TypeInv' /\ WithinLog'
  BY <1>15 DEF ExecuteFromRedis, Done
<1>16. ASSUME NEW p \in Pods, RefuseFromRedis(p) PROVE TypeInv' /\ WithinLog'
  BY <1>16 DEF RefuseFromRedis, Done
<1>17. ASSUME NEW p \in Pods, FailFromRedis(p) PROVE TypeInv' /\ WithinLog'
  BY <1>17 DEF FailFromRedis, Done
<1>18. ASSUME NEW p \in Pods, SendAgainToRedis(p) PROVE TypeInv' /\ WithinLog'
  BY <1>18 DEF SendAgainToRedis, Done
<1>19. ASSUME NEW p \in Pods, Crash(p) PROVE TypeInv' /\ WithinLog'
  BY <1>a, <1>19 DEF Crash, Done
<1>20. CASE UNCHANGED vars
  BY <1>20 DEF vars
<1>. QED BY <1>1, <1>2, <1>3, <1>4, <1>5, <1>6, <1>7, <1>8, <1>9, <1>10, <1>11, <1>12, <1>13, <1>14, <1>15, <1>16, <1>17, <1>18, <1>19, <1>20 DEF Next, Send, KafkaStep, RedisStep

----------------------------------------------------------------------------
(* Places                                                                  *)

(* A message moves from one place to another.                              *)
LEMMA PlaceInvariance == TypeInv /\ WithinLog /\ OnePlace /\ [Next]_vars => OnePlace'
<1>. SUFFICES ASSUME TypeInv, WithinLog, OnePlace, [Next]_vars PROVE OnePlace'
  OBVIOUS
<1>. USE NoMessageAssumption DEF OthersOfSend, OthersOfKafka, OthersOfRedis
<1>a. Distinct(log) /\ Distinct(list)
  BY DEF OnePlace, Distinct
<1>1. ASSUME NEW m \in Messages, sendOneOrMoreToKafka(m) PROVE OnePlace'
  <2>1. /\ sent[m] = Unsent /\ sent'[m] # Unsent /\ \A x \in Messages : x # m => sent'[x] = sent[x]
        /\ UNCHANGED <<list, redis, executed>>
    BY <1>1 DEF sendOneOrMoreToKafka, Told, TypeInv, Unsent
  <2>2. log' = Append(log, m) \/ log' = log
    BY <1>1 DEF sendOneOrMoreToKafka
  <2>3. ~Contains(log, m) /\ ~Contains(list, m) /\ ~Held(m) /\ executed[m] = 0
    BY <2>1 DEF OnePlace
  <2>4. /\ \A x \in Messages : x # m => (Contains(log', x) <=> Contains(log, x))
        /\ Distinct(log')
    <3>1. log \in Seq(Messages)
      BY DEF TypeInv
    <3>2. CASE log' = Append(log, m)
      <4>1. /\ \A x : Contains(Append(log, m), x) <=> Contains(log, x) \/ x = m
            /\ Distinct(Append(log, m))
        BY <1>a, <2>3, <3>1, Appended
      <4>. QED BY ONLY <3>2, <4>1
    <3>3. CASE log' = log
      BY <1>a, <3>3
    <3>. QED BY <2>2, <3>2, <3>3
  <2>5. \A x \in Messages : Held(x)' <=> Held(x)
    BY <2>1 DEF Held
  <2>. QED BY <2>1, <2>3, <2>4, <2>5 DEF OnePlace, Distinct
<1>2. ASSUME NEW m \in Messages, sendOneOrMoreToRedis(m) PROVE OnePlace'
  <2>1. /\ sent[m] = Unsent /\ sent'[m] # Unsent /\ \A x \in Messages : x # m => sent'[x] = sent[x]
        /\ UNCHANGED <<log, redis, executed>>
    BY <1>2 DEF sendOneOrMoreToRedis, Told, TypeInv, Unsent
  <2>2. list' = Append(list, m) \/ list' = list
    BY <1>2 DEF sendOneOrMoreToRedis
  <2>3. ~Contains(log, m) /\ ~Contains(list, m) /\ ~Held(m) /\ executed[m] = 0
    BY <2>1 DEF OnePlace
  <2>4. /\ \A x \in Messages : x # m => (Contains(list', x) <=> Contains(list, x))
        /\ Distinct(list')
    <3>1. list \in Seq(Messages)
      BY DEF TypeInv
    <3>2. CASE list' = Append(list, m)
      <4>1. /\ \A x : Contains(Append(list, m), x) <=> Contains(list, x) \/ x = m
            /\ Distinct(Append(list, m))
        BY <1>a, <2>3, <3>1, Appended
      <4>. QED BY ONLY <3>2, <4>1
    <3>3. CASE list' = list
      BY <1>a, <3>3
    <3>. QED BY <2>2, <3>2, <3>3
  <2>5. \A x \in Messages : Held(x)' <=> Held(x)
    BY <2>1 DEF Held
  <2>. QED BY <2>1, <2>3, <2>4, <2>5 DEF OnePlace, Distinct
<1>3. ASSUME NEW messages \in SUBSET Messages, sendToRemoteServiceInsideTransaction(messages)
      PROVE  OnePlace'
  <2>1. /\ \A x \in Messages : sent'[x] = Unsent => sent[x] = Unsent
        /\ UNCHANGED <<log, list, redis, executed>>
    BY <1>3 DEF sendToRemoteServiceInsideTransaction, TypeInv, Unsent
  <2>. QED BY <2>1 DEF OnePlace, Held
<1>4. ASSUME NEW p \in Pods, ExecuteFromKafka(p) PROVE OnePlace'
  <2>1. Delivered(p) \in Messages /\ Contains(log, Delivered(p))
    BY <1>4 DEF ExecuteFromKafka, Delivered, TypeInv, WithinLog, Contains, KafkaStates
  <2>2. /\ \A x \in Messages : x # Delivered(p) => executed'[x] = executed[x]
        /\ UNCHANGED <<sent, log, list, redis>>
    BY <1>4 DEF ExecuteFromKafka, TypeInv
  <2>. QED BY <2>1, <2>2 DEF OnePlace, Held
<1>5. ASSUME NEW p \in Pods, Take(p) PROVE OnePlace'
  <2>1. /\ redis' = [redis EXCEPT ![p] = [at |-> "executing", message |-> Head(list)]]
        /\ redis[p].message = NoMessage /\ list # <<>> /\ list' = Tail(list)
        /\ UNCHANGED <<sent, log, executed>>
    BY <1>5 DEF Take, TypeInv, WithinLog
  <2>2. /\ Head(list) \in Messages
        /\ \A x : Contains(list, x) <=> x = Head(list) \/ Contains(list', x)
        /\ ~Contains(list', Head(list)) /\ Distinct(list')
    BY <1>a, <2>1, TakenFirst DEF TypeInv
  <2>3. \A q \in Pods : redis'[q].message = IF q = p THEN Head(list) ELSE redis[q].message
    BY <2>1 DEF TypeInv
  <2>4. \A x \in Messages : Held(x)' <=> Held(x) \/ x = Head(list)
    BY <2>1, <2>3 DEF Held
  <2>5. ~Held(Head(list)) /\ Contains(list, Head(list))
    BY <2>2 DEF OnePlace
  <2>6. /\ \A i, j \in 1..Len(list') : list'[i] = list'[j] => i = j
        /\ \A q, r \in Pods : redis'[q].message = redis'[r].message /\ redis'[q].message # NoMessage => q = r
    BY <2>2, <2>3, <2>5 DEF Distinct, OnePlace, Held
  <2>7. \A m \in Messages :
          /\ sent'[m] = Unsent => ~Contains(log', m) /\ ~Contains(list', m) /\ ~Held(m)' /\ executed'[m] = 0
          /\ Contains(list', m) \/ Held(m)' => ~Contains(log', m) /\ executed'[m] = 0
          /\ ~(Contains(list', m) /\ Held(m)')
          /\ ~Contains(log', m) => executed'[m] <= 1
    BY <2>1, <2>2, <2>4, <2>5 DEF OnePlace
  <2>. QED BY <2>1, <2>6, <2>7 DEF OnePlace
<1>b. ASSUME NEW p \in Pods, Done(p), UNCHANGED <<sent, log, list>>,
             \A m \in Messages : executed'[m] # executed[m] => redis[p].message = m /\ executed'[m] = executed[m] + 1
      PROVE  OnePlace'
  <2>1. \A q \in Pods : redis'[q].message = IF q = p THEN NoMessage ELSE redis[q].message
    BY <1>b DEF Done, TypeInv
  <2>2. \A m \in Messages : Held(m)' => Held(m) /\ redis[p].message # m
    BY <2>1 DEF Held, OnePlace
  <2>3. \A m \in Messages : executed'[m] # executed[m] => Held(m) /\ executed'[m] = 1
    BY <1>b DEF Held, OnePlace
  <2>4. \A m \in Messages :
          /\ sent'[m] = Unsent => ~Contains(log', m) /\ ~Contains(list', m) /\ ~Held(m)' /\ executed'[m] = 0
          /\ Contains(list', m) \/ Held(m)' => ~Contains(log', m) /\ executed'[m] = 0
          /\ ~(Contains(list', m) /\ Held(m)')
          /\ ~Contains(log', m) => executed'[m] <= 1
    <3>. SUFFICES ASSUME NEW m \in Messages
                  PROVE  /\ sent[m] = Unsent => ~Contains(log, m) /\ ~Contains(list, m) /\ ~Held(m)' /\ executed'[m] = 0
                         /\ Contains(list, m) \/ Held(m)' => ~Contains(log, m) /\ executed'[m] = 0
                         /\ ~(Contains(list, m) /\ Held(m)')
                         /\ ~Contains(log, m) => executed'[m] <= 1
      BY <1>b
    <3>1. CASE executed'[m] = executed[m]
      BY <2>2, <3>1 DEF OnePlace
    <3>2. CASE executed'[m] # executed[m]
      BY <1>b, <2>2, <2>3, <3>2 DEF OnePlace
    <3>. QED BY <3>1, <3>2
  <2>5. \A q, r \in Pods : redis'[q].message = redis'[r].message /\ redis'[q].message # NoMessage => q = r
    BY <2>1 DEF OnePlace
  <2>. QED BY <1>b, <2>4, <2>5 DEF OnePlace
<1>6. ASSUME NEW p \in Pods, ExecuteFromRedis(p) PROVE OnePlace'
  <2>1. \A m \in Messages : executed'[m] # executed[m] => redis[p].message = m /\ executed'[m] = executed[m] + 1
    BY <1>6 DEF ExecuteFromRedis, TypeInv
  <2>. QED BY <1>6, <1>b, <2>1 DEF ExecuteFromRedis
<1>7. ASSUME NEW p \in Pods, RefuseFromRedis(p) \/ SendAgainToRedis(p) \/ Crash(p) PROVE OnePlace'
  <2>1. Done(p) /\ UNCHANGED <<sent, log, list, executed>>
    BY <1>7 DEF RefuseFromRedis, SendAgainToRedis, Crash
  <2>. QED BY <1>b, <2>1
<1>8. ASSUME NEW p \in Pods, FailFromRedis(p) PROVE OnePlace'
  <2>1. \A q \in Pods : redis'[q].message = redis[q].message
    BY <1>8 DEF FailFromRedis, TypeInv
  <2>. QED BY <1>8, <2>1 DEF FailFromRedis, OnePlace, Held
<1>9. CASE UNCHANGED <<sent, log, list, redis, executed>>
  BY <1>9 DEF OnePlace, Held
<1>10. ASSUME NEW p \in Pods,
              \/ Connect(p) \/ DeliverMessage(p) \/ RefuseFromKafka(p) \/ FailFromKafka(p)
              \/ SendAgainToKafka(p) \/ DeliverAgain(p) \/ GiveUp(p) \/ Commit(p) \/ Assign(p)
       PROVE  UNCHANGED <<sent, log, list, redis, executed>>
  BY <1>10 DEF Connect, DeliverMessage, RefuseFromKafka, FailFromKafka, SendAgainToKafka,
               DeliverAgain, GiveUp, Commit, Assign
<1>. QED BY <1>1, <1>2, <1>3, <1>4, <1>5, <1>6, <1>7, <1>8, <1>9, <1>10
         DEF Next, Send, KafkaStep, RedisStep, vars

----------------------------------------------------------------------------
(* Order                                                                   *)

(* Consumers go on from executed messages to the next one.                 *)
LEMMA OrderInvariance == TypeInv /\ WithinLog /\ OnePlace /\ InOrder /\ [Next]_vars => InOrder'
<1>. SUFFICES ASSUME TypeInv, WithinLog, OnePlace, InOrder, [Next]_vars PROVE InOrder'
  OBVIOUS
<1>. USE DEF OthersOfSend, OthersOfKafka, OthersOfRedis, KafkaAt
<1>a. /\ Len(log) \in Nat /\ \A i \in 1..Len(log) : log[i] \in Messages /\ Contains(log, log[i])
      /\ skippedTo \in Nat /\ \A p \in Pods : kafka[p].offset \in Nat
      /\ committed \in Int
      /\ \A m \in Messages : executed[m] \in Nat
  BY DEF TypeInv, Contains, NoOffset
(* Steps that execute nothing of the partition, or one that was next.      *)
<1>b. ASSUME UNCHANGED <<log, executed, skippedTo>>, ExecutedUpTo(committed'),
             \A p \in Pods : ExecutedUpTo(kafka'[p].offset)
      PROVE  InOrder'
  BY <1>b DEF InOrder, ExecutedUpTo, ExecutedIn
<1>1. ASSUME NEW m \in Messages, sendOneOrMoreToKafka(m) PROVE InOrder'
  <2>1. sent[m] = Unsent /\ UNCHANGED <<committed, kafka, executed, skippedTo>>
    BY <1>1 DEF sendOneOrMoreToKafka, Told
  <2>2. executed[m] = 0
    BY <2>1 DEF OnePlace
  <2>3. CASE log' = log
    BY <2>1, <2>3 DEF InOrder, ExecutedUpTo, ExecutedIn
  <2>4. CASE log' = Append(log, m)
    <3>1. /\ Len(log') = Len(log) + 1 /\ log'[Len(log) + 1] = m
          /\ \A i \in 1..Len(log) : log'[i] = log[i]
      BY <2>4, Appended DEF TypeInv
    <3>2. ASSUME NEW n \in Int, n <= Len(log), ExecutedUpTo(n) PROVE ExecutedIn(log', skippedTo', executed', n)
      BY <1>a, <2>1, <3>1, <3>2 DEF ExecutedUpTo, ExecutedIn
    <3>3. ASSUME NEW j \in 1..Len(log'), skippedTo < j, executed[log'[j]] > 0
          PROVE  ExecutedIn(log', skippedTo', executed', j)
      <4>1. j \in 1..Len(log)
        BY <1>a, <2>2, <3>1, <3>3
      <4>2. ExecutedUpTo(j)
        BY <3>1, <3>3, <4>1 DEF InOrder
      <4>. QED BY <1>a, <3>2, <4>1, <4>2
    <3>4. /\ ExecutedIn(log', skippedTo', executed', committed)
          /\ \A p \in Pods : ExecutedIn(log', skippedTo', executed', kafka[p].offset)
      BY <1>a, <2>1, <3>2 DEF InOrder, WithinLog
    <3>. QED BY <2>1, <3>3, <3>4 DEF InOrder, ExecutedUpTo
  <2>. QED BY <1>1, <2>3, <2>4 DEF sendOneOrMoreToKafka
<1>2. ASSUME NEW p \in Pods, ExecuteFromKafka(p) PROVE InOrder'
  <2>1. PICK o \in Nat : o = kafka[p].offset
    BY <1>a
  <2>2. /\ o + 1 \in 1..Len(log) /\ Delivered(p) = log[o + 1] /\ Delivered(p) \in Messages
        /\ ExecutedUpTo(o)
    <3>1. kafka[p].at = "executing"
      BY <1>2 DEF ExecuteFromKafka
    <3>2. o < Len(log)
      BY <2>1, <3>1 DEF WithinLog
    <3>. QED BY <1>a, <2>1, <3>2 DEF Delivered, InOrder
  <2>3. UNCHANGED <<log, committed, skippedTo>>
    BY <1>2 DEF ExecuteFromKafka
  <2>4. \A i \in 1..Len(log) : executed'[log[i]] = IF i = o + 1 THEN executed[log[i]] + 1 ELSE executed[log[i]]
    <3>1. \A i \in 1..Len(log) : log[i] = Delivered(p) => i = o + 1
      BY <2>2 DEF OnePlace
    <3>. QED BY <1>2, <1>a, <2>2, <3>1 DEF ExecuteFromKafka, TypeInv
  <2>5. \A q \in Pods : kafka'[q].offset = IF q = p THEN o + 1 ELSE kafka[q].offset
    BY <1>2, <2>1 DEF ExecuteFromKafka, TypeInv
  <2>6. \A i \in 1..Len(log) : executed[log[i]] > 0 => executed'[log[i]] > 0
    BY <1>a, <2>4
  <2>. DEFINE NowUpTo(n) == ExecutedIn(log, skippedTo, executed', n)
  <2>7. \A n : ExecutedUpTo(n) => NowUpTo(n)
    BY <2>6 DEF ExecutedUpTo, ExecutedIn
  <2>8. NowUpTo(o + 1)
    BY <1>a, <2>2, <2>4, <2>6 DEF ExecutedUpTo, ExecutedIn
  <2>9. ASSUME NEW j \in 1..Len(log), skippedTo < j, executed'[log[j]] > 0 PROVE NowUpTo(j)
    <3>1. CASE j = o + 1
      BY <2>8, <3>1
    <3>2. CASE j # o + 1
      <4>1. ExecutedUpTo(j)
        BY <2>4, <2>9, <3>2 DEF InOrder
      <4>. QED BY <2>7, <4>1
    <3>. QED BY <3>1, <3>2
  <2>10. \A q \in Pods : NowUpTo(kafka'[q].offset)
    BY <2>5, <2>7, <2>8 DEF InOrder
  <2>11. NowUpTo(committed)
    BY <2>7 DEF InOrder
  <2>. HIDE DEF NowUpTo
  <2>12. \A n : NowUpTo(n) <=> ExecutedIn(log', skippedTo', executed', n)
    BY <2>3 DEF NowUpTo
  <2>. QED BY <2>3, <2>9, <2>10, <2>11, <2>12 DEF InOrder, ExecutedUpTo
<1>3. ASSUME NEW p \in Pods,
             Connect(p) \/ DeliverMessage(p) \/ RefuseFromKafka(p) \/ FailFromKafka(p) \/ SendAgainToKafka(p)
      PROVE  InOrder'
  <2>1. UNCHANGED <<log, executed, skippedTo, committed>>
    BY <1>3 DEF Connect, DeliverMessage, RefuseFromKafka, FailFromKafka, SendAgainToKafka
  <2>2. \E label \in KafkaStates : kafka' = [kafka EXCEPT ![p].at = label]
    BY <1>3 DEF Connect, DeliverMessage, RefuseFromKafka, FailFromKafka, SendAgainToKafka, KafkaStates
  <2>3. \A q \in Pods : kafka'[q].offset = kafka[q].offset
    BY <2>2 DEF TypeInv
  <2>. QED BY <1>b, <2>1, <2>3 DEF InOrder
<1>4. ASSUME NEW p \in Pods, DeliverAgain(p) \/ GiveUp(p) \/ Commit(p) PROVE InOrder'
  <2>1. UNCHANGED <<log, executed, skippedTo>> /\ committed' \in {committed, kafka[p].offset}
    BY <1>4 DEF DeliverAgain, GiveUp, Commit, CommitHandled
  <2>2. \A q \in Pods : kafka'[q].offset = kafka[q].offset
    <3>1. (\E label \in KafkaStates : kafka' = [kafka EXCEPT ![p].at = label]) \/ kafka' = kafka
      BY <1>4 DEF DeliverAgain, GiveUp, Commit, KafkaStates
    <3>2. ASSUME NEW label \in KafkaStates, kafka' = [kafka EXCEPT ![p].at = label]
          PROVE  \A q \in Pods : kafka'[q].offset = kafka[q].offset
      BY <3>2 DEF TypeInv
    <3>. QED BY <3>1, <3>2
  <2>. QED BY <1>b, <2>1, <2>2 DEF InOrder
<1>5. ASSUME NEW p \in Pods, Assign(p) PROVE InOrder'
  <2>1. UNCHANGED <<log, executed, committed>>
    BY <1>5 DEF Assign
  <2>2. \A q \in Pods : kafka'[q].offset = IF q = p THEN StartOffset ELSE kafka[q].offset
    BY <1>5 DEF Assign, TypeInv
  <2>3. CASE committed = NoOffset
    <3>1. skippedTo' = Len(log)
      BY <1>5, <2>3 DEF Assign
    <3>2. \A n : ExecutedIn(log', skippedTo', executed', n)
      BY <1>a, <2>1, <3>1 DEF ExecutedUpTo, ExecutedIn
    <3>. QED BY <3>2 DEF InOrder, ExecutedUpTo
  <2>4. CASE committed # NoOffset
    <3>1. skippedTo' = skippedTo /\ StartOffset = committed
      BY <1>5, <2>4 DEF Assign, StartOffset
    <3>. QED BY <1>b, <2>1, <2>2, <3>1 DEF InOrder
  <2>. QED BY <2>3, <2>4
<1>6. ASSUME NEW p \in Pods, Crash(p) PROVE InOrder'
  <2>1. UNCHANGED <<log, executed, skippedTo, committed>>
    BY <1>6 DEF Crash
  <2>2. \A q \in Pods : kafka'[q].offset = IF q = p THEN 0 ELSE kafka[q].offset
    BY <1>6 DEF Crash, TypeInv
  <2>3. ExecutedUpTo(0)
    BY <1>a DEF ExecutedUpTo, ExecutedIn
  <2>. QED BY <1>b, <2>1, <2>2, <2>3 DEF InOrder
<1>7. ASSUME NEW p \in Pods, ExecuteFromRedis(p) PROVE InOrder'
  <2>1. Held(redis[p].message) /\ redis[p].message \in Messages
    BY <1>7, NoMessageAssumption DEF ExecuteFromRedis, Held, TypeInv, WithinLog
  <2>2. ~Contains(log, redis[p].message)
    BY <2>1 DEF OnePlace
  <2>3. UNCHANGED <<log, committed, kafka, skippedTo>>
    BY <1>7 DEF ExecuteFromRedis
  <2>4. \A i \in 1..Len(log) : executed'[log[i]] = executed[log[i]]
    BY <1>7, <1>a, <2>2 DEF ExecuteFromRedis, TypeInv
  <2>. QED BY <2>3, <2>4 DEF InOrder, ExecutedUpTo, ExecutedIn
<1>8. CASE UNCHANGED <<log, committed, kafka, executed, skippedTo>>
  BY <1>8 DEF InOrder, ExecutedUpTo, ExecutedIn
<1>9. ASSUME \/ \E m \in Messages : sendOneOrMoreToRedis(m)
             \/ \E messages \in SUBSET Messages : sendToRemoteServiceInsideTransaction(messages)
             \/ \E p \in Pods : Take(p) \/ RefuseFromRedis(p) \/ FailFromRedis(p) \/ SendAgainToRedis(p)
      PROVE  UNCHANGED <<log, committed, kafka, executed, skippedTo>>
  BY <1>9 DEF sendOneOrMoreToRedis, sendToRemoteServiceInsideTransaction, Take, RefuseFromRedis,
              FailFromRedis, SendAgainToRedis
<1>. QED BY <1>1, <1>2, <1>3, <1>4, <1>5, <1>6, <1>7, <1>8, <1>9
         DEF Next, Send, KafkaStep, RedisStep, vars

----------------------------------------------------------------------------
(* What holds of every reachable state.                                    *)
LEMMA QueueInvariant == Spec => [](TypeInv /\ WithinLog /\ OnePlace /\ InOrder)
<1>1. Init => OnePlace /\ InOrder
  <2>. SUFFICES ASSUME Init PROVE OnePlace /\ InOrder
    OBVIOUS
  <2>1. Len(log) = 0 /\ Len(list) = 0 /\ 1..0 = {}
    BY DEF Init
  <2>2. \A m \in Messages : ~Contains(log, m) /\ ~Contains(list, m)
    BY <2>1 DEF Contains
  <2>3. \A p \in Pods : redis[p].message = NoMessage
    BY DEF Init
  <2>4. \A m \in Messages : ~Held(m) /\ executed[m] = 0
    BY <2>3, NoMessageAssumption DEF Held, Init
  <2>5. \A n : ExecutedUpTo(n)
    BY <2>1 DEF ExecutedUpTo, ExecutedIn
  <2>. QED BY <2>1, <2>2, <2>3, <2>4, <2>5 DEF OnePlace, InOrder
<1>. QED BY <1>1, InitialTypes, TypeInvariance, PlaceInvariance, OrderInvariance, PTL DEF Spec

(* Messages of the partition are executed one after the other and the      *)
(* group's offset stays behind them, whatever crashes, throws or is        *)
(* assigned anew (ConsumedInOrder).                                        *)
THEOREM ConsumedInOrderHolds == Spec => []ConsumedInOrder
<1>1. TypeInv /\ WithinLog /\ InOrder => ConsumedInOrder
  <2>. SUFFICES ASSUME TypeInv, WithinLog, InOrder, NEW i \in (skippedTo + 1)..Len(log),
                       i <= committed \/ \E j \in i..Len(log) : executed[log[j]] > 0
                PROVE  executed[log[i]] > 0
    BY DEF ConsumedInOrder
  <2>1. /\ i \in 1..Len(log) /\ skippedTo < i /\ skippedTo \in Nat /\ Len(log) \in Nat
        /\ committed \in Int
    BY DEF TypeInv, NoOffset
  <2>2. CASE i <= committed
    BY <2>1, <2>2 DEF InOrder, ExecutedUpTo, ExecutedIn
  <2>3. ASSUME NEW j \in i..Len(log), executed[log[j]] > 0 PROVE executed[log[i]] > 0
    <3>1. j \in 1..Len(log) /\ skippedTo < j /\ i <= j
      BY <2>1
    <3>. QED BY <2>1, <2>3, <3>1 DEF InOrder, ExecutedUpTo, ExecutedIn
  <2>. QED BY <2>2, <2>3
<1>. QED BY <1>1, QueueInvariant, PTL

(* The set of positions, or of pods, at which a message is.                *)
LEMMA AtMostOne ==
  ASSUME NEW S, \A x, y \in S : x = y
  PROVE  Cardinality(S) \in {0, 1} /\ (S = {} => Cardinality(S) = 0)
<1>1. CASE S = {}
  BY <1>1, FS_EmptySet
<1>2. ASSUME NEW x \in S PROVE Cardinality(S) \in {0, 1} /\ S # {}
  <2>1. S = {x}
    OBVIOUS
  <2>2. Cardinality({x}) = 1
    BY FS_Singleton
  <2>. QED BY <2>1, <2>2
<1>. QED BY <1>1, <1>2

(* No message of the Redis list is executed twice, and none that was or is *)
(* being executed comes again (RedisAtMostOnce).                           *)
THEOREM RedisAtMostOnceHolds == Spec => []RedisAtMostOnce
<1>1. TypeInv /\ OnePlace => RedisAtMostOnce
  <2>. SUFFICES ASSUME TypeInv, OnePlace, NEW m \in Messages, ~Contains(log, m)
                PROVE  executed[m] + Cardinality({i \in DOMAIN list : list[i] = m})
                         + Cardinality({p \in Pods : redis[p].message = m}) <= 1
    BY DEF RedisAtMostOnce, InPartition
  <2>. DEFINE Places == {i \in DOMAIN list : list[i] = m}
              Holders == {p \in Pods : redis[p].message = m}
  <2>1. executed[m] \in Nat /\ executed[m] <= 1 /\ m # NoMessage /\ DOMAIN list = 1..Len(list)
    BY NoMessageAssumption DEF TypeInv, OnePlace
  <2>2. (\A x, y \in Places : x = y) /\ (\A x, y \in Holders : x = y)
    BY <2>1 DEF OnePlace
  <2>3. Places # {} => Holders = {} /\ executed[m] = 0
    BY <2>1 DEF OnePlace, Contains, Held
  <2>4. Holders # {} => executed[m] = 0
    BY DEF OnePlace, Held
  <2>5. /\ Cardinality(Places) \in {0, 1} /\ (Places = {} => Cardinality(Places) = 0)
        /\ Cardinality(Holders) \in {0, 1} /\ (Holders = {} => Cardinality(Holders) = 0)
    BY <2>2, AtMostOne
  <2>6. executed[m] + Cardinality(Places) + Cardinality(Holders) <= 1
    BY <2>1, <2>3, <2>4, <2>5
  <2>. QED BY <2>6
<1>. QED BY <1>1, QueueInvariant, PTL
=============================================================================
