--------------------------- MODULE DiscordProofs ----------------------------
(***************************************************************************)
(* Proofs about module Discord, for every set of channels and every bound  *)
(* on the number of posts: the notifier implements the outbox.             *)
(***************************************************************************)
EXTENDS Discord, SequenceTheorems, TLAPS

(* The inductive strengthening: who may hold a message in flight, when the *)
(* stop flag can be up, and what a worker that left messenger() left behind. *)
HandOff ==
  /\ worker # "sending" => inflight = <<>>
  /\ worker = "sending" => \E c \in Channel : inflight = <<c>>
  /\ worker = "exited" => message_queue = <<>> /\ stop_thread
StopPhase ==
  /\ stop_thread => phase \in {"notify", "join"} \cup Ended
  /\ (phase = "notify" \/ phase = "join") => stop_thread
  /\ phase = "done" => worker = "exited"
  /\ phase = "config" => worker = "none"

IInv == TypeOK /\ Conserved /\ HandOff /\ StopPhase /\ NoLostWakeup

(* The concatenations Conserved is made of, for any set of channels. *)
LEMMA AppendRight ==
  ASSUME NEW S, NEW a \in Seq(S), NEW b \in Seq(S), NEW c \in S
  PROVE  a \o Append(b, c) = Append(a \o b, c)
BY SMT

LEMMA HeadTailCat ==
  ASSUME NEW S, NEW a \in Seq(S), NEW b \in Seq(S), b # <<>>
  PROVE  a \o b = (a \o <<Head(b)>>) \o Tail(b)
BY SMT

LEMMA EmptyCat ==
  ASSUME NEW S, NEW a \in Seq(S)
  PROVE  a \o <<>> = a /\ <<>> \o a = a
BY SMT

-----------------------------------------------------------------------------
(* Every variable keeps the type the code gives it. *)
LEMMA InitInv == Init => IInv
<1> SUFFICES ASSUME Init PROVE IInv
  OBVIOUS
<1>1. TypeOK
  BY EmptySeq DEF Init, TypeOK, Running
<1>2. <<>> = <<>> \o <<>> \o <<>>
  BY EmptySeq, EmptyCat
<1>3. Conserved
  BY <1>2 DEF Init, Conserved
<1>4. HandOff /\ StopPhase /\ NoLostWakeup
  BY DEF Init, HandOff, StopPhase, NoLostWakeup, Ended
<1>5. QED
  BY <1>1, <1>3, <1>4 DEF IInv

(* The steps that leave the messages alone only need their control part. *)
LEMMA ControlInv ==
  ASSUME IInv, UNCHANGED queueVars, TypeOK', HandOff', StopPhase', NoLostWakeup'
  PROVE  IInv'
BY DEF IInv, queueVars, Conserved

(* Posting, from any of the three places that post. *)
LEMMA PostInv ==
  ASSUME NEW c \in Channel, IInv, SendMessageAsync(c),
         phase \in {"boot", "loop", "bye"}, phase' \in {"loop", "stop"},
         UNCHANGED <<hooks, stop_thread, inflight, sent>>
  PROVE  IInv'
<1>1. ~stop_thread /\ worker # "exited"
  BY DEF IInv, StopPhase, HandOff, Ended
<1>2. CASE c \notin hooks
  <2>1. UNCHANGED <<worker, message_queue, posted>>
    BY <1>2 DEF SendMessageAsync
  <2>2. TypeOK'
    BY <2>1 DEF IInv, TypeOK, Running
  <2>3. HandOff' /\ StopPhase' /\ NoLostWakeup'
    BY <1>1, <2>1 DEF IInv, HandOff, StopPhase, NoLostWakeup
  <2>4. QED
    BY <2>1, <2>2, <2>3, ControlInv DEF queueVars
<1>3. CASE c \in hooks
  <2>1. /\ message_queue' = Append(message_queue, c)
        /\ posted' = Append(posted, c)
        /\ worker' = IF worker = "waiting" THEN "lock" ELSE worker
    BY <1>3 DEF SendMessageAsync, NotifyOne
  <2>2. TypeOK'
    BY <2>1 DEF IInv, TypeOK, Running
  <2>3. Conserved'
    <3>1. sent \o inflight \in Seq(Channel)
      BY DEF IInv, TypeOK
    <3>2. QED
      BY <2>1, <3>1, AppendRight DEF IInv, TypeOK, Conserved
  <2>4. HandOff' /\ StopPhase' /\ NoLostWakeup'
    BY <1>1, <2>1 DEF IInv, HandOff, StopPhase, NoLostWakeup
  <2>5. QED
    BY <2>2, <2>3, <2>4 DEF IInv
<1>4. QED
  BY <1>2, <1>3

LEMMA NextInv == IInv /\ [Next]_vars => IInv'
<1> SUFFICES ASSUME IInv, [Next]_vars PROVE IInv'
  OBVIOUS
<1>1. CASE DoConfig
  <2>1. TypeOK'
    BY <1>1 DEF DoConfig, IInv, TypeOK, Running
  <2>2. HandOff' /\ StopPhase' /\ NoLostWakeup'
    BY <1>1 DEF DoConfig, IInv, HandOff, StopPhase, NoLostWakeup, Ended
  <2>3. QED
    BY <1>1, <2>1, <2>2, ControlInv DEF DoConfig, queueVars
<1>2. CASE PostBoot
  BY <1>2, PostInv, ChannelAssumption DEF PostBoot
<1>3. ASSUME NEW c \in Channel, PostInLoop(c) PROVE IInv'
  BY <1>3, PostInv DEF PostInLoop
<1>4. CASE PostShutdown
  BY <1>4, PostInv, ChannelAssumption DEF PostShutdown
<1>5. CASE LeaveLoop \/ HupSig \/ WorkerFault
  <2>1. /\ UNCHANGED <<worker, hooks, stop_thread, queueVars>>
        /\ phase \in Running /\ phase' \in {"bye", "killed"}
        /\ phase' = "bye" => phase = "loop"
    BY <1>5 DEF LeaveLoop, HupSig, WorkerFault, Running
  <2>2. TypeOK'
    BY <2>1 DEF queueVars, IInv, TypeOK, Running, Ended
  <2>3. HandOff' /\ StopPhase' /\ NoLostWakeup'
    BY <2>1 DEF queueVars, IInv, HandOff, StopPhase, NoLostWakeup, Ended
  <2>4. QED
    BY <2>1, <2>2, <2>3, ControlInv
<1>6. CASE CleanupStop
  <2>1. TypeOK'
    BY <1>6 DEF CleanupStop, queueVars, IInv, TypeOK, Running
  <2>2. HandOff' /\ StopPhase' /\ NoLostWakeup'
    BY <1>6 DEF CleanupStop, queueVars, IInv, HandOff, StopPhase, NoLostWakeup
  <2>3. QED
    BY <1>6, <2>1, <2>2, ControlInv DEF CleanupStop
<1>7. CASE CleanupNotify
  <2>1. /\ stop_thread /\ phase' = "join" /\ worker' # "waiting"
        /\ worker' = worker \/ worker' = "lock"
    BY <1>7 DEF CleanupNotify, IInv, StopPhase, NotifyOne
  <2>2. TypeOK'
    BY <1>7, <2>1 DEF CleanupNotify, queueVars, IInv, TypeOK, Running
  <2>3. HandOff' /\ StopPhase' /\ NoLostWakeup'
    BY <1>7, <2>1 DEF CleanupNotify, NotifyOne, queueVars, IInv, HandOff,
                      StopPhase, NoLostWakeup
  <2>4. QED
    BY <1>7, <2>2, <2>3, ControlInv DEF CleanupNotify
<1>8. CASE CleanupJoin \/ CleanupThrow
  <2>1. TypeOK'
    BY <1>8 DEF CleanupJoin, CleanupThrow, queueVars, IInv, TypeOK, Ended
  <2>2. HandOff' /\ StopPhase' /\ NoLostWakeup'
    BY <1>8 DEF CleanupJoin, CleanupThrow, queueVars, IInv, HandOff, StopPhase,
                NoLostWakeup, Ended
  <2>3. QED
    BY <1>8, <2>1, <2>2, ControlInv DEF CleanupJoin, CleanupThrow
<1>9. CASE WorkerLock \/ SpuriousWakeup \/ WorkerRelock
  <2>1. /\ UNCHANGED <<phase, hooks, stop_thread, queueVars>>
        /\ phase \in Running /\ worker \notin {"none", "sending", "exited"}
        /\ worker' \in {"test", "lock", "drain"}
    BY <1>9 DEF WorkerLock, SpuriousWakeup, WorkerRelock
  <2>2. TypeOK'
    BY <2>1 DEF queueVars, IInv, TypeOK
  <2>3. HandOff' /\ StopPhase' /\ NoLostWakeup'
    BY <2>1 DEF queueVars, IInv, HandOff, StopPhase, NoLostWakeup, Running
  <2>4. QED
    BY <2>1, <2>2, <2>3, ControlInv
<1>10. CASE WorkerTest
  <2>1. /\ UNCHANGED <<phase, hooks, stop_thread, queueVars>>
        /\ phase \in Running /\ worker = "test"
        /\ \/ worker' = "drain"
           \/ worker' = "waiting" /\ message_queue = <<>> /\ ~stop_thread
    BY <1>10 DEF WorkerTest
  <2>2. TypeOK'
    BY <2>1 DEF queueVars, IInv, TypeOK
  <2>3. HandOff' /\ StopPhase' /\ NoLostWakeup'
    BY <2>1 DEF queueVars, IInv, HandOff, StopPhase, NoLostWakeup, Running
  <2>4. QED
    BY <2>1, <2>2, <2>3, ControlInv
<1>11. CASE WorkerPop
  <2>1. inflight = <<>> /\ Head(message_queue) \in Channel
    BY <1>11 DEF WorkerPop, IInv, HandOff, TypeOK
  <2>2. Conserved'
    <3>1. sent \o message_queue
            = (sent \o <<Head(message_queue)>>) \o Tail(message_queue)
      BY <1>11, HeadTailCat DEF WorkerPop, IInv, TypeOK
    <3>2. QED
      BY <1>11, <2>1, <3>1, EmptyCat DEF WorkerPop, IInv, TypeOK, Conserved
  <2>3. TypeOK'
    BY <1>11, <2>1 DEF WorkerPop, IInv, TypeOK
  <2>4. HandOff' /\ StopPhase' /\ NoLostWakeup'
    BY <1>11, <2>1
       DEF WorkerPop, IInv, HandOff, StopPhase, NoLostWakeup, Running
  <2>5. QED
    BY <2>2, <2>3, <2>4 DEF IInv
<1>12. CASE WorkerSend
  <2>1. sent \o inflight \in Seq(Channel)
    BY DEF IInv, TypeOK
  <2>2. Conserved'
    BY <1>12, <2>1, EmptyCat DEF WorkerSend, IInv, Conserved
  <2>3. TypeOK'
    BY <1>12, <2>1 DEF WorkerSend, IInv, TypeOK
  <2>4. HandOff' /\ StopPhase' /\ NoLostWakeup'
    BY <1>12 DEF WorkerSend, IInv, HandOff, StopPhase, NoLostWakeup, Running
  <2>5. QED
    BY <2>2, <2>3, <2>4 DEF IInv
<1>13. CASE WorkerDrained
  <2>1. /\ UNCHANGED <<phase, hooks, stop_thread, queueVars>>
        /\ phase \in Running /\ worker = "drain" /\ message_queue = <<>>
        /\ worker' = "test" \/ (worker' = "exited" /\ stop_thread)
    BY <1>13 DEF WorkerDrained
  <2>2. TypeOK'
    BY <2>1 DEF queueVars, IInv, TypeOK
  <2>3. HandOff' /\ StopPhase' /\ NoLostWakeup'
    BY <2>1 DEF queueVars, IInv, HandOff, StopPhase, NoLostWakeup, Running
  <2>4. QED
    BY <2>1, <2>2, <2>3, ControlInv
<1>14. CASE UNCHANGED vars
  BY <1>14 DEF vars, IInv, TypeOK, Conserved, HandOff, StopPhase, NoLostWakeup
<1>15. QED
  BY <1>1, <1>2, <1>3, <1>4, <1>5, <1>6, <1>7, <1>8, <1>9, <1>10, <1>11, <1>12,
     <1>13, <1>14 DEF Next, GameThread, Worker, Terminated

LEMMA SpecInv == Spec => []IInv
BY InitInv, NextInv, PTL DEF Spec

(* Every shared variable of the notifier keeps its type, in particular the *)
(* queue only ever holds messages for configured webhook names.            *)
THEOREM TypeCorrect == Spec => []TypeOK
<1>1. IInv => TypeOK
  BY DEF IInv
<1>2. QED
  BY <1>1, SpecInv, PTL

(* Unlocking the queue around sendMessage() neither loses, doubles nor     *)
(* reorders a message (messenger(), discord.cc:134-141).                   *)
THEOREM DeliveryInOrder == Spec => []Conserved
<1>1. IInv => Conserved
  BY DEF IInv
<1>2. QED
  BY <1>1, SpecInv, PTL

(* A worker asleep in wait() has no message to send, and is not the one     *)
(* doCleanup() is joining (discord.cc:132 and 145-153).                     *)
THEOREM WakeupsNotLost == Spec => []NoLostWakeup
<1>1. IInv => NoLostWakeup
  BY DEF IInv
<1>2. QED
  BY <1>1, SpecInv, PTL

(* When doCleanup() returns, every message posted was sent. *)
THEOREM CleanExit == Spec => []CleanExitSendsAll
<1>1. IInv => CleanExitSendsAll
  BY EmptyCat DEF IInv, TypeOK, Conserved, HandOff, StopPhase, CleanExitSendsAll
<1>2. QED
  BY <1>1, SpecInv, PTL

-----------------------------------------------------------------------------
(* Refinement: each step of the notifier is a step of the outbox or none.  *)
LEMMA InitBox == Init => Abstract!OutboxInit
BY DEF Init, Abstract!OutboxInit, Box, Ended

LEMMA PostBox ==
  ASSUME NEW c \in Channel, IInv, SendMessageAsync(c),
         phase \in {"boot", "loop", "bye"}, phase' \in {"loop", "stop"},
         UNCHANGED <<hooks, stop_thread, inflight, sent>>
  PROVE  [Abstract!OutboxNext]_(Abstract!outboxVars)
BY DEF SendMessageAsync, Abstract!OutboxNext, Abstract!Accept,
       Abstract!outboxVars, Box, Ended

LEMMA SendBox ==
  ASSUME IInv, WorkerSend
  PROVE  Abstract!HandOver
<1>1. PICK c \in Channel : inflight = <<c>>
  BY DEF IInv, HandOff, WorkerSend
<1>2. sent' = Append(sent, c) /\ posted = Append(sent, c) \o message_queue
  BY <1>1 DEF IInv, TypeOK, Conserved, WorkerSend
<1>3. Len(sent) < Len(posted) /\ posted[Len(sent) + 1] = c
  BY <1>2, ConcatProperties, AppendProperties DEF IInv, TypeOK
<1>4. Box = "open" /\ Box' = "open"
  BY DEF WorkerSend, Box, Running, Ended
<1>5. QED
  BY <1>2, <1>3, <1>4 DEF Abstract!HandOver, WorkerSend

LEMMA NextBox == IInv /\ [Next]_vars => [Abstract!OutboxNext]_(Abstract!outboxVars)
<1> SUFFICES ASSUME IInv, [Next]_vars
             PROVE  [Abstract!OutboxNext]_(Abstract!outboxVars)
  OBVIOUS
<1>1. CASE PostBoot
  BY <1>1, PostBox, ChannelAssumption DEF PostBoot
<1>2. ASSUME NEW c \in Channel, PostInLoop(c)
      PROVE  [Abstract!OutboxNext]_(Abstract!outboxVars)
  BY <1>2, PostBox DEF PostInLoop
<1>3. CASE PostShutdown
  BY <1>3, PostBox, ChannelAssumption DEF PostShutdown
<1>4. CASE HupSig \/ WorkerFault \/ CleanupThrow
  BY <1>4 DEF HupSig, WorkerFault, CleanupThrow, queueVars, Box, Running, Ended,
              Abstract!OutboxNext, Abstract!Die
<1>5. CASE CleanupJoin
  <2>1. posted = sent
    BY <1>5, EmptyCat DEF CleanupJoin, IInv, TypeOK, Conserved, HandOff
  <2>2. QED
    BY <1>5, <2>1 DEF CleanupJoin, queueVars, Box, Ended,
                      Abstract!OutboxNext, Abstract!Close
<1>6. CASE WorkerSend
  BY <1>6, SendBox DEF Abstract!OutboxNext
<1>7. CASE DoConfig \/ LeaveLoop \/ CleanupStop \/ CleanupNotify
  BY <1>7 DEF DoConfig, LeaveLoop, CleanupStop, CleanupNotify, queueVars, Box,
              Ended, Abstract!outboxVars
<1>8. CASE \/ WorkerLock \/ WorkerTest \/ SpuriousWakeup \/ WorkerPop
           \/ WorkerRelock \/ WorkerDrained
  BY <1>8 DEF WorkerLock, WorkerTest, SpuriousWakeup, WorkerPop, WorkerRelock,
              WorkerDrained, queueVars, Box, Abstract!outboxVars
<1>9. CASE UNCHANGED vars
  BY <1>9 DEF vars, Box, Abstract!outboxVars
<1>10. QED
  BY <1>1, <1>2, <1>3, <1>4, <1>5, <1>6, <1>7, <1>8, <1>9
     DEF Next, GameThread, Worker, Terminated

(* The two-thread notifier implements the outbox its callers rely on. *)
THEOREM Refinement == Spec => ImplementsOutbox
<1>1. QED
  BY InitBox, NextBox, SpecInv, PTL
     DEF Spec, ImplementsOutbox, Abstract!OutboxSpec

-----------------------------------------------------------------------------
(* Why doCleanup() comes back, short of the fairness of the two threads:   *)
(* the steps messenger() still has to do, three for each queued message    *)
(* and at most six to get from wait() to the drain loop and out of it.     *)
Stage(w) == CASE w \in {"none", "exited"} -> 0
              [] w = "drain" -> 1
              [] w = "relock" -> 2
              [] w = "sending" -> 3
              [] w = "test" -> 4
              [] w = "lock" -> 5
              [] w = "waiting" -> 6
WorkLeft == 3 * Len(message_queue) + Stage(worker)

(* From the moment the flag is up, whatever moves the worker or the queue  *)
(* brings the worker nearer its end: it cannot go back to wait(), wake up  *)
(* spuriously more than once, or be given more to send.                    *)
Stopping == phase \in {"notify", "join"}
StopDescends ==
  [][Stopping => WorkLeft' \in 0..(WorkLeft - 1)]_<<worker, message_queue>>

LEMMA StageIs ==
  /\ Stage("exited") = 0 /\ Stage("drain") = 1 /\ Stage("relock") = 2
  /\ Stage("sending") = 3 /\ Stage("test") = 4 /\ Stage("lock") = 5
  /\ Stage("waiting") = 6
BY DEF Stage

LEMMA NextDescends ==
  ASSUME IInv, Next, Stopping
  PROVE  UNCHANGED <<worker, message_queue>> \/ WorkLeft' < WorkLeft
<1>1. stop_thread /\ message_queue \in Seq(Channel)
  BY DEF IInv, TypeOK, StopPhase, Stopping
<1>2. ASSUME UNCHANGED message_queue, Stage(worker') < Stage(worker),
             Stage(worker) \in Nat, Stage(worker') \in Nat
      PROVE  WorkLeft' < WorkLeft
  <2>1. Len(message_queue) \in Nat
    BY <1>1
  <2>2. QED
    BY <1>2, <2>1 DEF WorkLeft
<1>3. CASE CleanupNotify
  <2>1. UNCHANGED message_queue
        /\ (worker' = worker \/ (worker = "waiting" /\ worker' = "lock"))
    BY <1>3 DEF CleanupNotify, NotifyOne, queueVars
  <2>2. QED
    BY <1>2, <2>1, StageIs
<1>4. CASE WorkerLock \/ WorkerTest \/ SpuriousWakeup
  <2>1. /\ UNCHANGED message_queue
        /\ \/ worker = "lock" /\ worker' = "test"
           \/ worker = "test" /\ worker' = "drain"
           \/ worker = "waiting" /\ worker' = "lock"
    BY <1>1, <1>4 DEF WorkerLock, WorkerTest, SpuriousWakeup, queueVars
  <2>2. QED
    BY <1>2, <2>1, StageIs
<1>5. CASE WorkerPop
  <2>1. Len(message_queue') = Len(message_queue) - 1
        /\ Len(message_queue) \in Nat
    BY <1>1, <1>5 DEF WorkerPop
  <2>2. Stage(worker) = 1 /\ Stage(worker') = 3
    BY <1>5, StageIs DEF WorkerPop
  <2>3. QED
    BY <2>1, <2>2 DEF WorkLeft
<1>6. CASE WorkerSend \/ WorkerRelock \/ WorkerDrained
  <2>1. /\ UNCHANGED message_queue
        /\ \/ worker = "sending" /\ worker' = "relock"
           \/ worker = "relock" /\ worker' = "drain"
           \/ worker = "drain" /\ worker' = "exited"
    BY <1>1, <1>6 DEF WorkerSend, WorkerRelock, WorkerDrained, queueVars
  <2>2. QED
    BY <1>2, <2>1, StageIs
<1>7. CASE CleanupJoin \/ CleanupThrow \/ HupSig
  BY <1>7 DEF CleanupJoin, CleanupThrow, HupSig, queueVars
<1>8. QED
  BY <1>3, <1>4, <1>5, <1>6, <1>7
     DEF Next, GameThread, Worker, Terminated, DoConfig, PostBoot, PostInLoop,
         LeaveLoop, PostShutdown, CleanupStop, WorkerFault, Stopping, Ended

(* Once doCleanup() has set the flag, the worker needs at most             *)
(* 3 * Len(message_queue) + 6 more steps to leave messenger()              *)
(* (discord.cc:126-153).                                                   *)
THEOREM ShutdownDescends == Spec => StopDescends
<1>1. IInv /\ [Next]_vars
        => [Stopping => WorkLeft' \in 0..(WorkLeft - 1)]_<<worker,
                                                           message_queue>>
  <2> SUFFICES ASSUME IInv, [Next]_vars, Stopping,
                      ~UNCHANGED <<worker, message_queue>>
               PROVE  WorkLeft' \in 0..(WorkLeft - 1)
    OBVIOUS
  <2>1. WorkLeft \in Nat
    BY DEF IInv, TypeOK, WorkLeft, Stage
  <2>2. WorkLeft' \in Nat
    BY NextInv DEF IInv, TypeOK, WorkLeft, Stage
  <2>3. WorkLeft' < WorkLeft
    BY NextDescends DEF vars, queueVars
  <2>4. QED
    BY <2>1, <2>2, <2>3
<1>2. QED
  BY <1>1, SpecInv, PTL DEF Spec, StopDescends
=============================================================================
