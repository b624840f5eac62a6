---------------------------- MODULE Interprocess ----------------------------
(***************************************************************************)
(* The two programs of examples/interprocess (and of c/test_producer.c and *)
(* c/test_consumer.c, which run the same protocol): the lossless channel   *)
(* under a producer and a consumer that wait for each other's heartbeats.  *)
(*                                                                         *)
(* The channel is Lossless, step by step; here are the heartbeat words and *)
(* the places of the two programs.  An earlier run may have been killed,   *)
(* or its cleanup have failed, so the producer finds a new region or the   *)
(* one that run left.                                                      *)
(***************************************************************************)
EXTENDS Lossless

CONSTANTS
  value,        \* what the producer pushes N times: 42
  last,         \* what it writes through a reservation at the end: 420
  StartAfter    \* the consumer is started after the producer's "process" was,
                \* or after its "constructor" has returned

ASSUME InterprocessAssumption ==
  /\ {value, last} \subseteq Values
  /\ StartAfter \in {"process", "constructor"}

VARIABLES
  producer_heartbeat, consumer_heartbeat,
  prog,                      \* where the producer's main is
  last_consumer_heartbeat,
  user,                      \* where the consumer's main is
  last_producer_heartbeat

beats    == <<producer_heartbeat, consumer_heartbeat>>
pmain    == <<prog, last_consumer_heartbeat>>
cmain    == <<user, last_producer_heartbeat>>
mainVars == <<vars, beats, pmain, cmain>>

\* What one run that ended or was killed leaves: the tail after none, N or N + 1
\* published elements, how many of them were released, and the beats so far.
\* What several runs leave one on top of the other is not among these.
EarlierRun(t, h, p, c) ==
  \/ t = 0     /\ h = 0      /\ p = 0 /\ c \in {0, 1}
  \/ t = N     /\ h \in 0 .. N /\ p = 0 /\ c = 1
  \/ t = N     /\ h = N      /\ p \in {0, 1} /\ c = 2
  \/ t = N + 1 /\ h \in {N, N + 1} /\ p = 1 /\ c = 2
  \/ t = N + 1 /\ h = N + 1  /\ p = 1 /\ c = 3

\* A zeroed region, or that of an earlier run.
MainInit ==
  /\ \E t, h \in 0 .. N + 1, p \in 0 .. 1, c \in 0 .. 3 :
       /\ EarlierRun(t, h, p, c)
       /\ magic = TRUE \/ (magic = FALSE /\ c = 0)
       /\ tail = t /\ head = h /\ ptail = t /\ chead = h /\ cstart = h
       /\ log = [i \in 1 .. t |-> IF i <= N THEN value ELSE last]
       /\ buffer = [i \in Slots |-> IF t = 0 THEN Junk
                                    ELSE IF t > N /\ i = Index(N) THEN last ELSE value]
       /\ producer_heartbeat = p /\ consumer_heartbeat = c
  /\ ppc = "down" /\ pwritten = 0 /\ rcount = 0 /\ rwritten = 0
  /\ cpc = "down" /\ csince = 0 /\ cval = Junk /\ got = <<>>
  /\ prog = "start" /\ last_consumer_heartbeat = 0
  /\ user = "start" /\ last_producer_heartbeat = 0

-----------------------------------------------------------------------------
(***************************************************************************)
(* The producer's main.                                                    *)
(***************************************************************************)

\* The producer goes from one place to another.
Prog(from, to) == prog = from /\ prog' = to

PMain == UNCHANGED <<beats, last_consumer_heartbeat, cmain>>

ProducerProcess == Prog("start", "join") /\ PMain /\ UNCHANGED vars

\* join_or_create_shmem, up to its last access.
JoinOrCreate ==
  /\ Prog("join", "load_beat")
  /\ ProducerInitialize \/ ProducerJoin
  /\ PMain

\* The same of the C program, which has unlinked what an earlier run left and
\* zeroes what it maps.  One step for unlink, open, memset and join, since the
\* consumer is not started yet; a consumer that is already on the old region
\* when it is unlinked, or zeroed under it (with huge pages shm_unlink finds
\* nothing and memset clears the region of the earlier run), is left out.
UnlinkAndCreate ==
  /\ Prog("join", "load_beat") /\ user = "start"
  /\ magic' = TRUE /\ tail' = 0 /\ head' = 0
  /\ buffer' = [i \in Slots |-> Junk]
  /\ FreshProducer(0)
  /\ chead' = 0 /\ cstart' = 0
  /\ producer_heartbeat' = 0 /\ consumer_heartbeat' = 0
  /\ UNCHANGED <<last_consumer_heartbeat, cmain, cpc, csince, cval, got>>

\* The last access of the join.
LoadBeat ==
  /\ Prog("load_beat", "ack1")
  /\ last_consumer_heartbeat' = consumer_heartbeat
  /\ UNCHANGED <<vars, beats, cmain>>

\* Mutant: the heartbeat that was seen is not remembered.
AwaitAckForgotten(from, to) ==
  /\ consumer_heartbeat # last_consumer_heartbeat
  /\ Prog(from, to)
  /\ UNCHANGED <<vars, beats, last_consumer_heartbeat, cmain>>

\* while !producer.consumer_heartbeat() {}: "waiting for consumer ack 1, 2, 3".
AwaitAck(from, to) ==
  /\ consumer_heartbeat # last_consumer_heartbeat
  /\ Prog(from, to)
  /\ last_consumer_heartbeat' = consumer_heartbeat
  /\ UNCHANGED <<vars, beats, cmain>>

\* The elements pushed and not yet published.
Unsynced == ptail - tail

\* The loop of N pushes; the unwrap of one that is refused panics.
PushValues ==
  /\ \/ Unsynced < N /\ (PushCheck \/ PushWrite(value)) /\ Prog("push", "push")
     \/ /\ ppc = "idle" /\ (Unsynced = N \/ ptail = head + N)
        /\ Prog("push", IF Unsynced = N THEN "full" ELSE "panic")
        /\ UNCHANGED vars
  /\ PMain

\* assert!(producer.push(value).is_err())
LosslessPushShouldFail ==
  /\ Prog("full", IF ptail = head + N THEN "sync" ELSE "panic")
  /\ PMain /\ UNCHANGED vars

Publish == Prog("sync", "ack2") /\ Sync /\ PMain

\* Mutant: the producer does not ack.
SendAckForgotten ==
  /\ Prog("beat", "reserve")
  /\ PMain /\ UNCHANGED vars

SendAck ==
  /\ Prog("beat", "reserve")
  /\ producer_heartbeat' = producer_heartbeat + 1
  /\ UNCHANGED <<vars, consumer_heartbeat, last_consumer_heartbeat, cmain>>

\* The loop around reserve(1), then write_next and commit.
ReserveLoop == Prog("reserve", "write") /\ Reserve(1) /\ PMain
WriteLast   == Prog("write", "commit") /\ WriteNext(last) /\ PMain
CommitLast  == Prog("commit", "ack3") /\ Commit /\ PMain

\* cleanup_shmem, or close_shmem: the consumer keeps its mapping.
CleanUp == Prog("cleanup", "done") /\ PMain /\ UNCHANGED vars

ProducerMain ==
  \/ ProducerProcess \/ JoinOrCreate \/ UnlinkAndCreate \/ LoadBeat
  \/ AwaitAck("ack1", "push") \/ PushValues \/ LosslessPushShouldFail
  \/ Publish \/ AwaitAck("ack2", "beat") \/ SendAck
  \/ ReserveLoop \/ WriteLast \/ CommitLast
  \/ AwaitAck("ack3", "cleanup") \/ CleanUp

-----------------------------------------------------------------------------
(***************************************************************************)
(* The consumer's main.                                                    *)
(***************************************************************************)

User(from, to) == user = from /\ user' = to

CMain == UNCHANGED <<beats, last_producer_heartbeat, pmain>>

\* join_shmem: on a channel that is not initialised its unwrap panics, and the
\* program is run again.
ConsumerProcess ==
  /\ prog # "start" /\ (StartAfter = "constructor" => prog \notin {"join", "load_beat"})
  /\ \/ User("start", "join") /\ ConsumerJoinLoad
     \/ User("join", "load_beat") /\ ConsumerJoinStore
  /\ CMain

LoadProducerBeat ==
  /\ User("load_beat", "ack1")
  /\ last_producer_heartbeat' = producer_heartbeat
  /\ UNCHANGED <<vars, beats, pmain>>

\* beat: ack 1, 2, 3.
Ack(from, to) ==
  /\ User(from, to)
  /\ consumer_heartbeat' = consumer_heartbeat + 1
  /\ UNCHANGED <<vars, producer_heartbeat, pmain, last_producer_heartbeat>>

\* Pop until an element comes, count times over.
PopValues(from, count, to) ==
  /\ \/ Len(got) < count /\ (PopCheck \/ PopRead \/ PopReturn) /\ User(from, from)
     \/ Len(got) = count /\ User(from, to) /\ UNCHANGED vars
  /\ CMain

\* while !consumer.producer_heartbeat() {}
AwaitProducerAck ==
  /\ producer_heartbeat # last_producer_heartbeat
  /\ User("wait", "pop_last")
  /\ last_producer_heartbeat' = producer_heartbeat
  /\ UNCHANGED <<vars, beats, pmain>>

ConsumerMain ==
  \/ ConsumerProcess \/ LoadProducerBeat \/ Ack("ack1", "pop")
  \/ PopValues("pop", N, "ack2") \/ Ack("ack2", "wait")
  \/ AwaitProducerAck \/ PopValues("pop_last", N + 1, "ack3")
  \/ Ack("ack3", "done")

MainNext == ProducerMain \/ ConsumerMain

\* Two processes that run.
MainSpec ==
  /\ MainInit /\ [][MainNext]_mainVars
  /\ WF_mainVars(ProducerMain) /\ WF_mainVars(ConsumerMain)

-----------------------------------------------------------------------------
\* The unwraps of the producer's pushes and the assertion behind them hold in
\* every interleaving, on a new region and on one an earlier run left: the N
\* pushes find room, and the next one does not.
AssertionsHold == prog # "panic"

\* The heartbeats stand for what the programs take them for: past the second
\* ack the N values were read, past the third all of them, and the consumer
\* never takes its own join for the producer's answer.
AcksMeanRead ==
  /\ prog \in {"beat", "reserve", "write", "commit", "ack3"} => Len(got) >= N
  /\ prog \in {"cleanup", "done"} => Len(got) = N + 1
  /\ user \in {"pop_last", "ack3", "done"} =>
       prog \in {"reserve", "write", "commit", "ack3", "cleanup", "done"}
  /\ \A i \in 1 .. Len(got) : got[i] = IF i <= N THEN value ELSE last

\* "The producer will wait until the consumer joins to publish a value, and
\* then wait for the consumer to ack the message before cleaning up": both
\* programs end, neither is left waiting for a beat or a slot.
BothEnd == <>(prog = "done" /\ user = "done")

=============================================================================
