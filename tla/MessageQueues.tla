--------------------------- MODULE MessageQueues ---------------------------
(***************************************************************************)
(* Service function calls that travel as messages (src/remote/messagequeue)*)
(* to the pods of one microservice: through a Kafka topic, of which one    *)
(* partition is modelled (the messages of one service function), or        *)
(* through a Redis list.  A pod runs both consumers.                       *)
(*                                                                         *)
(* External: the brokers, the group coordinator that assigns the partition *)
(* to one pod, and the kafkajs consumer, which delivers the messages of    *)
(* the partition in order, commits the offset of handled ones at the end   *)
(* of a batch and before it delivers a message again that threw, and joins *)
(* the group again when it gave up.  Where the group never committed an    *)
(* offset it starts after the last message (subscribe has no               *)
(* fromBeginning).                                                         *)
(***************************************************************************)
EXTENDS Integers, Sequences, FiniteSets, SequencesExt

CONSTANTS Messages,     \* calls, each sent once
          Refused,      \* those that the service function answers with 4xx, or that cannot be parsed
          Pods,
          MaxFailures,  \* bound: executions that end with 5xx, and sends that report an error
          MaxDisturbances \* bound: crashes of pods, and partitions taken from a pod that runs

ASSUME RefusedAssumption == Refused \subseteq Messages

NoOffset == -1
NoPod == "no pod"
NoMessage == "no message"
Unsent == "unsent"

ASSUME NoMessageAssumption == NoMessage \notin Messages

VARIABLES sent,        \* per message: "unsent", or what its sender was told: "sent", "error"
          log,         \* Kafka: messages of the partition
          committed,   \* offset of the consumer group: handled messages, or NoOffset
          owner,       \* pod that the partition is assigned to
          kafka,       \* per pod: what its Kafka consumer does, and its offset
          list,        \* Redis: the list of messages
          redis,       \* per pod: what its Redis consumer does, and the message it has
          executed,    \* per message: successful executions
          skippedTo,   \* messages up to here were in the partition when a group without offset started
          failures, disturbances

vars == <<sent, log, committed, owner, kafka, list, redis, executed, skippedTo, failures, disturbances>>

Init ==
  /\ sent = [m \in Messages |-> Unsent]
  /\ log = <<>> /\ committed = NoOffset /\ owner = NoPod
  /\ kafka = [p \in Pods |-> [at |-> "connect", offset |-> 0]]
  /\ list = <<>>
  /\ redis = [p \in Pods |-> [at |-> "idle", message |-> NoMessage]]
  /\ executed = [m \in Messages |-> 0]
  /\ skippedTo = 0
  /\ failures = 0 /\ disturbances = 0

----------------------------------------------------------------------------
(* Senders.  An acknowledgement can be lost: then the sender is told of an *)
(* error although the message is there.                                    *)
Told(m, answer) ==
  /\ sent[m] = Unsent
  /\ sent' = [sent EXCEPT ![m] = answer]
  /\ answer = "error" => failures < MaxFailures
  /\ failures' = IF answer = "error" THEN failures + 1 ELSE failures

OthersOfSend == <<committed, owner, kafka, redis, executed, skippedTo, disturbances>>

sendOneOrMoreToKafka(m) ==
  \E answer \in {"sent", "error"} :
    /\ Told(m, answer)
    /\ log' = Append(log, m) \/ (answer = "error" /\ log' = log)
    /\ UNCHANGED <<list, OthersOfSend>>

sendOneOrMoreToRedis(m) ==
  \E answer \in {"sent", "error"} :
    /\ Told(m, answer)
    /\ list' = Append(list, m) \/ (answer = "error" /\ list' = list)
    /\ UNCHANGED <<log, OthersOfSend>>

(* A producer without a transactional id cannot begin a transaction: none  *)
(* of the messages is sent.                                                *)
sendToRemoteServiceInsideTransaction(messages) ==
  /\ failures < MaxFailures
  /\ \A m \in messages : sent[m] = Unsent
  /\ sent' = [m \in Messages |-> IF m \in messages THEN "error" ELSE sent[m]]
  /\ failures' = failures + 1
  /\ UNCHANGED <<log, list, OthersOfSend>>

Send ==
  \/ \E m \in Messages : sendOneOrMoreToKafka(m) \/ sendOneOrMoreToRedis(m)
  \/ \E messages \in SUBSET Messages : Cardinality(messages) = 2 /\ sendToRemoteServiceInsideTransaction(messages)

----------------------------------------------------------------------------
(* Kafka consumer.                                                         *)
OthersOfKafka == <<sent, list, redis>>

KafkaAt(p, from, to) == kafka[p].at = from /\ kafka' = [kafka EXCEPT ![p].at = to]

(* The topic is created unless it exists, and subscribed to; a failed      *)
(* attempt is repeated after 10 seconds (a stuttering step).               *)
Connect(p) ==
  /\ KafkaAt(p, "connect", "idle")
  /\ UNCHANGED <<log, committed, owner, executed, skippedTo, failures, disturbances, OthersOfKafka>>

(* The coordinator gives the partition to a pod; it can take it from       *)
(* another one: one that did not send a heartbeat in time, or because a    *)
(* pod has joined the group.                                               *)
LatestOffset == Len(log)

StartOffset == IF committed = NoOffset THEN Len(log) ELSE committed

Assign(p) ==
  /\ kafka[p].at = "idle" /\ owner # p
  /\ owner # NoPod => disturbances < MaxDisturbances
  /\ disturbances' = IF owner = NoPod THEN disturbances ELSE disturbances + 1
  /\ owner' = p
  /\ kafka' = [kafka EXCEPT ![p].offset = StartOffset]
  /\ skippedTo' = IF committed = NoOffset THEN Len(log) ELSE skippedTo
  /\ UNCHANGED <<log, committed, executed, failures, OthersOfKafka>>

DeliverMessage(p) ==
  /\ owner = p /\ kafka[p].offset < Len(log)
  /\ KafkaAt(p, "idle", "executing")
  /\ UNCHANGED <<log, committed, owner, executed, skippedTo, failures, disturbances, OthersOfKafka>>

Delivered(p) == log[kafka[p].offset + 1]

(* The message is handled: the next one follows.                           *)
ExecuteFromKafka(p) ==
  /\ kafka[p].at = "executing" /\ Delivered(p) \notin Refused
  /\ executed' = [executed EXCEPT ![Delivered(p)] = @ + 1]
  /\ kafka' = [kafka EXCEPT ![p] = [at |-> "idle", offset |-> @.offset + 1]]
  /\ UNCHANGED <<log, committed, owner, skippedTo, failures, disturbances, OthersOfKafka>>

(* 4xx, or a message that cannot be parsed: thrown.                        *)
RefuseFromKafka(p) ==
  /\ kafka[p].at = "executing" /\ Delivered(p) \in Refused
  /\ KafkaAt(p, "executing", "thrown")
  /\ UNCHANGED <<log, committed, owner, executed, skippedTo, failures, disturbances, OthersOfKafka>>

(* 5xx: the consumer waits 10 seconds to send the message again.           *)
FailFromKafka(p) ==
  /\ failures < MaxFailures /\ failures' = failures + 1
  /\ KafkaAt(p, "executing", "waiting")
  /\ UNCHANGED <<log, committed, owner, executed, skippedTo, disturbances, OthersOfKafka>>

PassOver(p) ==
  /\ kafka[p].at = "waiting"
  /\ kafka' = [kafka EXCEPT ![p] = [at |-> "idle", offset |-> @.offset + 1]]
  /\ UNCHANGED <<log, committed, owner, executed, skippedTo, failures, disturbances, OthersOfKafka>>

(* Counting the call needs the context of a service function, and there is *)
(* none here: sending throws.                                              *)
SendAgainToKafka(p) ==
  /\ KafkaAt(p, "waiting", "thrown")
  /\ UNCHANGED <<log, committed, owner, executed, skippedTo, failures, disturbances, OthersOfKafka>>

(* The handled messages before it are committed if the pod still has the   *)
(* partition.  Then the message is delivered again, or the consumer gives  *)
(* up and connects anew.                                                   *)
CommitHandled(p) ==
  committed' = IF owner = p /\ (committed # NoOffset \/ kafka[p].offset > skippedTo) THEN kafka[p].offset ELSE committed

DeliverAgain(p) ==
  /\ KafkaAt(p, "thrown", "idle")
  /\ CommitHandled(p)
  /\ UNCHANGED <<log, owner, executed, skippedTo, failures, disturbances, OthersOfKafka>>

GiveUp(p) ==
  /\ KafkaAt(p, "thrown", "connect")
  /\ CommitHandled(p)
  /\ owner' = IF owner = p THEN NoPod ELSE owner
  /\ UNCHANGED <<log, executed, skippedTo, failures, disturbances, OthersOfKafka>>

(* The end of a batch.                                                     *)
Commit(p) ==
  /\ owner = p /\ kafka[p].at = "idle"
  /\ CommitHandled(p) /\ committed' # committed
  /\ UNCHANGED <<log, owner, kafka, executed, skippedTo, failures, disturbances, OthersOfKafka>>

KafkaStep(p) ==
  \/ Connect(p) \/ DeliverMessage(p)
  \/ ExecuteFromKafka(p) \/ RefuseFromKafka(p) \/ FailFromKafka(p) \/ SendAgainToKafka(p)
  \/ DeliverAgain(p) \/ GiveUp(p) \/ Commit(p)

----------------------------------------------------------------------------
(* Redis consumer.                                                         *)
OthersOfRedis == <<sent, log, committed, owner, kafka, skippedTo, disturbances>>

Peek(p) ==
  /\ redis[p].at = "idle" /\ list # <<>>
  /\ redis' = [redis EXCEPT ![p] = [at |-> "executing", message |-> Head(list)]]
  /\ UNCHANGED <<list, executed, failures, OthersOfRedis>>

Take(p) ==
  /\ redis[p].at = "idle" /\ list # <<>>
  /\ redis' = [redis EXCEPT ![p] = [at |-> "executing", message |-> Head(list)]]
  /\ list' = Tail(list)
  /\ UNCHANGED <<executed, failures, OthersOfRedis>>

Done(p) == redis' = [redis EXCEPT ![p] = [at |-> "idle", message |-> NoMessage]]

ExecuteFromRedis(p) ==
  /\ redis[p].at = "executing" /\ redis[p].message \notin Refused
  /\ executed' = [executed EXCEPT ![redis[p].message] = @ + 1]
  /\ Done(p)
  /\ UNCHANGED <<list, failures, OthersOfRedis>>

(* What is thrown is logged.                                               *)
RefuseFromRedis(p) ==
  /\ redis[p].at = "executing" /\ redis[p].message \in Refused
  /\ Done(p)
  /\ UNCHANGED <<list, executed, failures, OthersOfRedis>>

FailFromRedis(p) ==
  /\ redis[p].at = "executing"
  /\ failures < MaxFailures /\ failures' = failures + 1
  /\ redis' = [redis EXCEPT ![p].at = "waiting"]
  /\ UNCHANGED <<list, executed, OthersOfRedis>>

(* As for Kafka, sending throws; that is logged, too.                      *)
SendAgainToRedis(p) ==
  /\ redis[p].at = "waiting"
  /\ Done(p)
  /\ UNCHANGED <<list, executed, failures, OthersOfRedis>>

RedisStep(p) ==
  Take(p) \/ ExecuteFromRedis(p) \/ RefuseFromRedis(p) \/ FailFromRedis(p) \/ SendAgainToRedis(p)

----------------------------------------------------------------------------
(* A pod crashes and another one is started in its place.                  *)
Crash(p) ==
  /\ disturbances < MaxDisturbances /\ disturbances' = disturbances + 1
  /\ kafka' = [kafka EXCEPT ![p] = [at |-> "connect", offset |-> 0]]
  /\ owner' = IF owner = p THEN NoPod ELSE owner
  /\ Done(p)
  /\ UNCHANGED <<sent, log, committed, list, executed, skippedTo, failures>>

Next ==
  \/ Send
  \/ \E p \in Pods : KafkaStep(p) \/ Assign(p) \/ RedisStep(p) \/ Crash(p)

(* The consumers run, and the coordinator assigns a free partition.        *)
Fairness ==
  \A p \in Pods : WF_vars(KafkaStep(p)) /\ WF_vars(RedisStep(p)) /\ WF_vars(owner = NoPod /\ Assign(p))

Spec == Init /\ [][Next]_vars /\ Fairness

----------------------------------------------------------------------------
InPartition(m) == Contains(log, m)
IndexOf(m) == SelectInSeq(log, LAMBDA other : other = m)

(* Messages of the partition are executed one after the other, none is     *)
(* passed over, and the offset of the group never gets ahead of them,      *)
(* whatever crashes, throws or is assigned anew: except for messages that  *)
(* were there before a group without an offset started.                    *)
ConsumedInOrder ==
  \A i \in (skippedTo + 1)..Len(log) :
    (i <= committed \/ \E j \in i..Len(log) : executed[log[j]] > 0) => executed[log[i]] > 0

(* No message of the Redis list is executed twice, and none that was       *)
(* executed or is being executed comes again.                              *)
RedisAtMostOnce ==
  \A m \in Messages :
    ~InPartition(m) =>
      executed[m] + Cardinality({i \in DOMAIN list : list[i] = m}) + Cardinality({p \in Pods : redis[p].message = m}) <= 1

(* A message whose sender was told that it is in the partition is executed *)
(* in the end, unless it was there before the group started or one before  *)
(* it is refused for ever.                                                 *)
Blocked(m) == \E i \in (skippedTo + 1)..IndexOf(m) : log[i] \in Refused

KafkaServed ==
  \A m \in Messages :
    sent[m] = "sent" /\ InPartition(m) ~> executed[m] > 0 \/ IndexOf(m) <= skippedTo \/ Blocked(m)
=============================================================================
