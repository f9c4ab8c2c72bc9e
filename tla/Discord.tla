------------------------------ MODULE Discord -------------------------------
(***************************************************************************)
(* The Discord notifier of misc/discord.cc and its two threads: the game   *)
(* thread, which follows main() and run_the_game() (main.cc, sys/comm.cc)  *)
(* and posts messages, and the worker, which runs Discord::messenger().    *)
(*                                                                         *)
(* The game thread holds queue_mutex only within one action (lock_guard    *)
(* sections without a blocking call), so the mutex is free exactly when    *)
(* the worker's control point is one where it does not hold it.            *)
(* A message is represented by the channel it is for.                      *)
(***************************************************************************)
EXTENDS Naturals, Sequences

CONSTANTS Channel,    \* the webhook names: deaths, sys, achieve
          Sys,        \* CHANNEL_SYS, used for the boot and shutdown messages
          MaxPosts    \* bound: messages posted by the game loop

ASSUME ChannelAssumption == Sys \in Channel
ASSUME BoundAssumption == MaxPosts \in Nat

VARIABLES phase,          \* where the game thread is
          worker,         \* where messenger_thread is
          hooks,          \* the channels discord.cfg gives an address
          message_queue,  \* the shared queue
          stop_thread,    \* the shared stop flag
          inflight,       \* what the worker took off the queue and is sending
          posted,         \* history: messages pushed, oldest first
          sent            \* history: messages whose sendMessage() was called

vars == <<phase, worker, hooks, message_queue, stop_thread, inflight,
          posted, sent>>
queueVars == <<message_queue, inflight, posted, sent>>

Running == {"config", "boot", "loop", "bye", "stop", "notify", "join"}
Ended == {"done", "aborted", "killed"}

(* queue_mutex is held by the worker between wait() and its next unlock. *)
WorkerHolds == worker \in {"test", "drain"}

TypeOK ==
  /\ phase \in Running \cup Ended
  /\ worker \in {"none", "lock", "test", "waiting", "drain", "sending",
                 "relock", "exited"}
  /\ hooks \subseteq Channel
  /\ message_queue \in Seq(Channel)
  /\ stop_thread \in BOOLEAN
  /\ inflight \in Seq(Channel)
  /\ posted \in Seq(Channel)
  /\ sent \in Seq(Channel)

Init ==
  /\ phase = "config"
  /\ worker = "none"
  /\ hooks = {}
  /\ message_queue = <<>>
  /\ stop_thread = FALSE
  /\ inflight = <<>>
  /\ posted = <<>>
  /\ sent = <<>>

-----------------------------------------------------------------------------
(* The game thread. *)

(* Mutant of DoConfig: the empty default address is taken for a webhook. *)
DoConfigKeepsEmpty ==
  /\ phase = "config"
  /\ phase' = "boot"
  /\ worker' = "lock"
  /\ hooks' \in SUBSET (Channel \cup {""})
  /\ UNCHANGED <<message_queue, stop_thread, inflight, posted, sent>>

(* doConfig(): without discord.cfg no channel has an address and the worker *)
(* is never started; main() logs the failure and goes on.                   *)
DoConfig ==
  /\ phase = "config"
  /\ phase' = "boot"
  /\ \/ UNCHANGED <<worker, hooks>>
     \/ /\ worker' = "lock"
        /\ hooks' \in SUBSET Channel
  /\ UNCHANGED <<message_queue, stop_thread, inflight, posted, sent>>

(* cv.notify_one(): a waiting worker will take the lock and test again. *)
NotifyOne == worker' = IF worker = "waiting" THEN "lock" ELSE worker

(* Mutant of SendMessageAsync: pushes and forgets to notify. *)
SendWithoutNotify(c) ==
  \/ /\ c \notin hooks
     /\ UNCHANGED <<worker, message_queue, posted>>
  \/ /\ c \in hooks
     /\ ~WorkerHolds
     /\ message_queue' = Append(message_queue, c)
     /\ posted' = Append(posted, c)
     /\ UNCHANGED worker

(* sendMessageAsync(): nothing for a channel without an address; otherwise *)
(* push and notify inside the lock.                                        *)
SendMessageAsync(c) ==
  \/ /\ c \notin hooks
     /\ UNCHANGED <<worker, message_queue, posted>>
  \/ /\ c \in hooks
     /\ ~WorkerHolds
     /\ message_queue' = Append(message_queue, c)
     /\ posted' = Append(posted, c)
     /\ NotifyOne

(* run_the_game(): the boot message, then the loop. *)
PostBoot ==
  /\ phase = "boot"
  /\ SendMessageAsync(Sys)
  /\ phase' = "loop"
  /\ UNCHANGED <<hooks, stop_thread, inflight, sent>>

(* A death, a high level kill or a level 50 posts during the loop. *)
PostInLoop(c) ==
  /\ phase = "loop"
  /\ Len(posted) < MaxPosts
  /\ SendMessageAsync(c)
  /\ UNCHANGED <<phase, hooks, stop_thread, inflight, sent>>

(* gameLoop() returns once handleShutdown() does. *)
LeaveLoop ==
  /\ phase = "loop"
  /\ phase' = "bye"
  /\ UNCHANGED <<worker, hooks, stop_thread, queueVars>>

PostShutdown ==
  /\ phase = "bye"
  /\ SendMessageAsync(Sys)
  /\ phase' = "stop"
  /\ UNCHANGED <<hooks, stop_thread, inflight, sent>>

(* Mutant of CleanupStop: the flag is never set. *)
CleanupForgetsFlag ==
  /\ phase = "stop"
  /\ ~WorkerHolds
  /\ phase' = "notify"
  /\ UNCHANGED <<worker, hooks, stop_thread, queueVars>>

(* doCleanup(): the flag is set inside the lock, the notification is sent  *)
(* after it was released, then the thread is joined.                       *)
CleanupStop ==
  /\ phase = "stop"
  /\ ~WorkerHolds
  /\ stop_thread' = TRUE
  /\ phase' = "notify"
  /\ UNCHANGED <<worker, hooks, queueVars>>

(* Mutant of CleanupNotify: the flag is set but nobody is notified. *)
CleanupSilent ==
  /\ phase = "notify"
  /\ phase' = "join"
  /\ UNCHANGED <<worker, hooks, stop_thread, queueVars>>

CleanupNotify ==
  /\ phase = "notify"
  /\ NotifyOne
  /\ phase' = "join"
  /\ UNCHANGED <<hooks, stop_thread, queueVars>>

(* Mutant of CleanupJoin: the thread is detached instead of joined. *)
CleanupDetach ==
  /\ phase = "join"
  /\ worker # "none"
  /\ phase' = "done"
  /\ UNCHANGED <<worker, hooks, stop_thread, queueVars>>

(* join() returns when the worker has left messenger(); run_the_game() then *)
(* deletes the mother socket and returns.                                   *)
CleanupJoin ==
  /\ phase = "join"
  /\ worker = "exited"
  /\ phase' = "done"
  /\ UNCHANGED <<worker, hooks, stop_thread, queueVars>>

(* join() on a thread that was never started throws std::system_error,     *)
(* which nothing catches.                                                  *)
CleanupThrow ==
  /\ phase = "join"
  /\ worker = "none"
  /\ phase' = "aborted"
  /\ UNCHANGED <<worker, hooks, stop_thread, queueVars>>

(* hupsig(): exit(0) at any point; messages not sent yet are lost. *)
HupSig ==
  /\ phase \in Running
  /\ phase' = "killed"
  /\ UNCHANGED <<worker, hooks, stop_thread, queueVars>>

-----------------------------------------------------------------------------
(* The worker: Discord::messenger(). *)

(* The unique_lock at the top, and the lock wait() takes when it wakes. *)
WorkerLock ==
  /\ phase \in Running
  /\ worker = "lock"
  /\ worker' = "test"
  /\ UNCHANGED <<phase, hooks, stop_thread, queueVars>>

(* wait() evaluates its predicate under the lock: it returns, or releases  *)
(* the lock and sleeps in one step.                                        *)
WorkerTest ==
  /\ phase \in Running
  /\ worker = "test"
  /\ worker' = IF message_queue # <<>> \/ stop_thread THEN "drain"
                                                      ELSE "waiting"
  /\ UNCHANGED <<phase, hooks, stop_thread, queueVars>>

SpuriousWakeup ==
  /\ phase \in Running
  /\ worker = "waiting"
  /\ worker' = "lock"
  /\ UNCHANGED <<phase, hooks, stop_thread, queueVars>>

(* Mutant of WorkerPop: front() without pop(). *)
WorkerFrontOnly ==
  /\ phase \in Running
  /\ worker = "drain"
  /\ message_queue # <<>>
  /\ inflight' = <<Head(message_queue)>>
  /\ worker' = "sending"
  /\ UNCHANGED <<phase, hooks, message_queue, stop_thread, posted, sent>>

(* front(), pop() and unlock. *)
WorkerPop ==
  /\ phase \in Running
  /\ worker = "drain"
  /\ message_queue # <<>>
  /\ inflight' = <<Head(message_queue)>>
  /\ message_queue' = Tail(message_queue)
  /\ worker' = "sending"
  /\ UNCHANGED <<phase, hooks, stop_thread, posted, sent>>

(* sendMessage() returns, whatever curl reported: its result is not used.  *)
WorkerSend ==
  /\ phase \in Running
  /\ worker = "sending"
  /\ sent' = sent \o inflight
  /\ inflight' = <<>>
  /\ worker' = "relock"
  /\ UNCHANGED <<phase, hooks, stop_thread, message_queue, posted>>

(* A failed request is logged with vlogf(), which walks descriptor_list    *)
(* and pushes to the descriptors' output queues without a lock.  While the *)
(* game thread is in its loop that is a data race: the outcomes are the    *)
(* one of WorkerSend and a fault.                                          *)
WorkerFault ==
  /\ phase \in {"loop", "bye"}
  /\ worker = "sending"
  /\ phase' = "killed"
  /\ UNCHANGED <<worker, hooks, stop_thread, queueVars>>

WorkerRelock ==
  /\ phase \in Running
  /\ worker = "relock"
  /\ worker' = "drain"
  /\ UNCHANGED <<phase, hooks, stop_thread, queueVars>>

(* Mutant of WorkerDrained: the flag is looked at before the queue. *)
WorkerStopsFirst ==
  /\ phase \in Running
  /\ worker = "drain"
  /\ stop_thread \/ message_queue = <<>>
  /\ worker' = IF stop_thread THEN "exited" ELSE "test"
  /\ UNCHANGED <<phase, hooks, stop_thread, queueVars>>

(* The queue is empty: test the flag, and leave or go back to wait(). *)
WorkerDrained ==
  /\ phase \in Running
  /\ worker = "drain"
  /\ message_queue = <<>>
  /\ worker' = IF stop_thread THEN "exited" ELSE "test"
  /\ UNCHANGED <<phase, hooks, stop_thread, queueVars>>

-----------------------------------------------------------------------------
GameThread ==
  \/ DoConfig \/ PostBoot \/ LeaveLoop \/ PostShutdown
  \/ \E c \in Channel : PostInLoop(c)
  \/ CleanupStop \/ CleanupNotify \/ CleanupJoin \/ CleanupThrow
  \/ HupSig

Worker ==
  \/ WorkerLock \/ WorkerTest \/ SpuriousWakeup \/ WorkerPop \/ WorkerSend
  \/ WorkerFault \/ WorkerRelock \/ WorkerDrained

(* The process has ended: nothing more happens. *)
Terminated == phase \in Ended /\ UNCHANGED vars

Next == GameThread \/ Worker \/ Terminated

Spec == Init /\ [][Next]_vars

(* Fairness: the operating system runs both threads, and a mutex that is   *)
(* free again and again is obtained in the end (a worker that keeps waking *)
(* up spuriously would otherwise starve the game thread).  Nothing makes   *)
(* the game loop end, a wake-up spurious or a web request return (curl is  *)
(* given no timeout), so LeaveLoop, SpuriousWakeup and WorkerSend get none. *)
Fairness ==
  /\ SF_vars(PostShutdown) /\ SF_vars(CleanupStop)
  /\ WF_vars(CleanupNotify) /\ WF_vars(CleanupJoin) /\ WF_vars(CleanupThrow)
  /\ WF_vars(WorkerLock) /\ WF_vars(WorkerTest) /\ WF_vars(WorkerPop)
  /\ WF_vars(WorkerRelock) /\ WF_vars(WorkerDrained)

FairSpec == Spec /\ Fairness

-----------------------------------------------------------------------------
(* Properties. *)

(* What was pushed is exactly what was sent, is being sent, or is still in *)
(* the queue, in that order: unlocking around sendMessage() neither loses, *)
(* doubles nor reorders a message.                                         *)
Conserved == posted = sent \o inflight \o message_queue

(* A worker asleep in wait() has nothing to do, or the notification that   *)
(* will wake it is still to come: no wake-up is lost, although doCleanup() *)
(* notifies after it released the lock.                                    *)
NoLostWakeup ==
  worker = "waiting" => /\ message_queue = <<>>
                        /\ stop_thread => phase \notin {"join"}

(* The game thread never gets past doCleanup() with a message unsent. *)
CleanExitSendsAll == phase = "done" => sent = posted

(* doCleanup() comes back unless the process is killed or a request hangs  *)
(* for ever.                                                               *)
ShutdownCompletes ==
  (phase = "bye" ~> phase \in Ended) \/ <>[](worker = "sending")

(* A queued message is sent unless the process ends or a request hangs. *)
QueueDrains ==
  (message_queue # <<>> ~> (message_queue = <<>> \/ phase \in Ended))
    \/ <>[](worker = "sending")

(* The notifier implements the outbox of module Outbox. *)
Box == IF phase = "done" THEN "closed"
       ELSE IF phase \in Ended THEN "dead" ELSE "open"
Abstract == INSTANCE Outbox WITH accepted <- posted, handed <- sent, box <- Box
ImplementsOutbox == Abstract!OutboxSpec
=============================================================================
