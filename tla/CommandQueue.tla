---------------------------- MODULE CommandQueue ----------------------------
(***************************************************************************)
(* The command queue of the hub (app/commands.py), its HTTP handlers       *)
(* (app/main.py) and the device that polls it (client-cpp: main.cpp,       *)
(* command_client.cpp), for one sensor.                                    *)
(*                                                                         *)
(* Handlers run on threads and share the queue without a lock, so they     *)
(* interleave between the reads and writes modelled as steps here.  The    *)
(* device makes one call at a time.  A call's connection may break: the    *)
(* device goes on, while the handler it called goes on too and its answer  *)
(* is lost.  Or the call is refused, by the limiter before any handler or  *)
(* by the handler, once the device's key is no longer its sensor's.        *)
(***************************************************************************)
EXTENDS Naturals, Sequences, SequencesExt

CONSTANTS
    Threads,   \* request threads of the API process
    Commands,  \* the commands admins enqueue
    NoThread, NoCommand

ASSUME NothingAssumption == NoThread \notin Threads /\ NoCommand \notin Commands

VARIABLES
    queue,     \* self._queue[sensor_id]
    by_id,     \* the keys of self._by_id
    status,    \* Command.status; "none" before enqueue
    req,       \* req[t]: the request thread t serves
    call,      \* the thread that serves the device's open call
    inbox,     \* commands of the last answer that the device has yet to take up
    received,  \* commands the device has taken up, in the order of the first time
    valid,     \* whether the device's key, which it keeps, is its sensor's
    cancelled, \* those whose cancellation was answered with 200
    failed     \* history: a connection broke or an acknowledgement was refused

server == <<queue, by_id, status>>
device == <<call, inbox, received>>
vars == <<server, req, device, valid, cancelled, failed>>

\* A request; at counts the elements its loop over queue or todo is through with.
Idle == [pc |-> "idle", cmd |-> NoCommand, todo |-> <<>>, at |-> 0]

Init ==
    /\ queue = <<>>
    /\ by_id = {}
    /\ status = [c \in Commands |-> "none"]
    /\ req = [t \in Threads |-> Idle]
    /\ call = NoThread
    /\ inbox = <<>>
    /\ received = <<>>
    /\ valid = TRUE
    /\ cancelled = {}
    /\ failed = FALSE

Finish(t) == req' = [req EXCEPT ![t] = Idle]

-----------------------------------------------------------------------------
(* Faulty variants of definitions below: bugs this code could well have.    *)

\* Faulty: the newest command first.
ListedNewest(n) == queue[Len(queue) + 1 - n]

\* Faulty: a status no reader of it knows.
MarkedSent(c) == IF c \in by_id THEN [status EXCEPT ![c] = "sent"] ELSE status

\* Faulty: delivery is recorded as the acknowledgement.
MarkedAcked(c) == IF c \in by_id THEN [status EXCEPT ![c] = "acked"] ELSE status

\* Faulty: a poll hands out what was delivered and not yet acknowledged.
PendingUnanswered(c) == status[c] = "delivered"

\* Faulty: only a pending command can be acknowledged.
AckedUndelivered(c) == IF status[c] = "pending" THEN [status EXCEPT ![c] = "acked"] ELSE status

-----------------------------------------------------------------------------
(* CommandQueue.enqueue: append to the sensor's list, then index by id.     *)
(* enqueue_command, restart_sensor and firmware_rollout call it.            *)
EnqueueAppend(t, c) ==
    /\ req[t].pc = "idle"
    /\ status[c] = "none"
    /\ queue' = Append(queue, c)
    /\ status' = [status EXCEPT ![c] = "pending"]
    /\ req' = [req EXCEPT ![t] = [Idle EXCEPT !.pc = "appended", !.cmd = c]]
    /\ UNCHANGED <<by_id, device, cancelled, failed, valid>>

EnqueueIndex(t) ==
    /\ req[t].pc = "appended"
    /\ by_id' = by_id \cup {req[t].cmd}
    /\ Finish(t)
    /\ UNCHANGED <<queue, status, device, cancelled, failed, valid>>

-----------------------------------------------------------------------------
(* poll_commands: the sensor must be there and the key be its own; then     *)
(* pending_for goes through the list, which others append to meanwhile, and *)
(* takes the pending ones; then each of them is marked as delivered.        *)
(* mark_delivered asks neither for the status nor does anything for an id   *)
(* it does not know.                                                        *)
Listed(n) == queue[n]

Pending(c) == status[c] = "pending"

MarkDelivered(c) == IF c \in by_id THEN [status EXCEPT ![c] = "delivered"] ELSE status

PollAuthorised(t) ==
    /\ req[t].pc = "called"
    /\ valid
    /\ req' = [req EXCEPT ![t].pc = "poll"]
    /\ UNCHANGED <<server, device, cancelled, failed, valid>>

PollScan(t) ==
    /\ req[t].pc = "poll"
    /\ req[t].at < Len(queue)
    /\ LET c == Listed(req[t].at + 1) IN
         req' = [req EXCEPT ![t].at = @ + 1,
                            ![t].todo = IF Pending(c) THEN Append(@, c) ELSE @]
    /\ UNCHANGED <<server, device, cancelled, failed, valid>>

PollScanned(t) ==
    /\ req[t].pc = "poll"
    /\ req[t].at = Len(queue)
    /\ req' = [req EXCEPT ![t].pc = "delivering", ![t].at = 0]
    /\ UNCHANGED <<server, device, cancelled, failed, valid>>

PollDeliver(t) ==
    /\ req[t].pc = "delivering"
    /\ req[t].at < Len(req[t].todo)
    /\ status' = MarkDelivered(req[t].todo[req[t].at + 1])
    /\ req' = [req EXCEPT ![t].at = @ + 1]
    /\ UNCHANGED <<queue, by_id, device, cancelled, failed, valid>>

(* The answer reaches the device, or nobody if the connection has broken.   *)
PollRespond(t) ==
    /\ req[t].pc = "delivering"
    /\ req[t].at = Len(req[t].todo)
    /\ IF call = t THEN call' = NoThread /\ inbox' = req[t].todo
                   ELSE UNCHANGED <<call, inbox>>
    /\ Finish(t)
    /\ UNCHANGED <<server, received, cancelled, failed, valid>>

-----------------------------------------------------------------------------
(* ack_command: whatever the status of a known command, it becomes acked if *)
(* the key is still its sensor's.  For an unknown one a 404 does nothing.   *)
Acked(c) == IF c \in by_id THEN [status EXCEPT ![c] = "acked"] ELSE status

AckCommand(t) ==
    /\ req[t].pc = "ack"
    /\ valid
    /\ status' = Acked(req[t].cmd)
    /\ call' = IF call = t THEN NoThread ELSE call
    /\ Finish(t)
    /\ UNCHANGED <<queue, by_id, inbox, received, cancelled, failed, valid>>

(* The limiter refuses the device's call before any handler sees it, or the *)
(* handler does with 401 or 404 when the key is no longer valid: a poll     *)
(* yields no commands, and of an acknowledgement nothing comes.             *)
RefuseCall(t) ==
    /\ req[t].pc \in {"called", "ack"}
    /\ call' = IF call = t THEN NoThread ELSE call
    /\ failed' = (failed \/ req[t].pc = "ack")
    /\ Finish(t)
    /\ UNCHANGED <<server, inbox, received, cancelled, valid>>

(* cancel_command: read the status, then write it; 200 when it was pending. *)
(* The refusals (404, 409) change nothing and are not steps.                *)
Cancellable(c) == c \in by_id /\ status[c] = "pending"

CancelCheck(t, c) ==
    /\ req[t].pc = "idle"
    /\ Cancellable(c)
    /\ req' = [req EXCEPT ![t] = [Idle EXCEPT !.pc = "cancelling", !.cmd = c]]
    /\ UNCHANGED <<server, device, cancelled, failed, valid>>

CancelWrite(t) ==
    /\ req[t].pc = "cancelling"
    /\ status' = [status EXCEPT ![req[t].cmd] = "cancelled"]
    /\ cancelled' = cancelled \cup {req[t].cmd}
    /\ Finish(t)
    /\ UNCHANGED <<queue, by_id, device, failed, valid>>

-----------------------------------------------------------------------------
(* poll_and_handle in the device's loop: poll, then take up each command of *)
(* the answer ("command received") and acknowledge it, ignoring whether the *)
(* acknowledgement succeeded.                                               *)
TakeUp ==
    LET c == Head(inbox) IN
    /\ call = NoThread
    /\ inbox # <<>>
    /\ inbox' = Tail(inbox)
    /\ received' = IF c \in ToSet(received) THEN received ELSE Append(received, c)

DevicePoll(t) ==
    /\ call = NoThread
    /\ inbox = <<>>
    /\ req[t].pc = "idle"
    /\ call' = t
    /\ req' = [req EXCEPT ![t] = [Idle EXCEPT !.pc = "called"]]
    /\ UNCHANGED <<server, inbox, received, cancelled, failed, valid>>

DeviceAck(t) ==
    /\ TakeUp
    /\ req[t].pc = "idle"
    /\ call' = t
    /\ req' = [req EXCEPT ![t] = [Idle EXCEPT !.pc = "ack", !.cmd = Head(inbox)]]
    /\ UNCHANGED <<server, cancelled, failed, valid>>

(* The connection of the open call breaks.  A poll yields no commands, an   *)
(* acknowledgement is forgotten; an acknowledgement lost on the way there   *)
(* never reaches a handler.                                                 *)
BreakCall ==
    /\ call # NoThread
    /\ call' = NoThread
    /\ failed' = TRUE
    /\ UNCHANGED <<server, req, inbox, received, cancelled, valid>>

LoseAck ==
    /\ TakeUp
    /\ failed' = TRUE
    /\ UNCHANGED <<server, req, call, cancelled, valid>>

(* reset_sensor_key or delete_sensor: the device keeps the key it has, and  *)
(* no later key is ever the same.                                           *)
RevokeKey ==
    /\ valid
    /\ valid' = FALSE
    /\ UNCHANGED <<server, req, device, cancelled, failed>>

(* The API process restarts: the queue is only in its memory.               *)
Restart ==
    /\ queue' = <<>>
    /\ by_id' = {}
    /\ status' = [c \in Commands |-> IF status[c] = "none" THEN "none" ELSE "lost"]
    /\ req' = [t \in Threads |-> Idle]
    /\ call' = NoThread
    /\ UNCHANGED <<inbox, received, cancelled, failed, valid>>

Handler(t) ==
    \/ EnqueueIndex(t)
    \/ RefuseCall(t)
    \/ PollAuthorised(t)
    \/ PollScan(t)
    \/ PollScanned(t)
    \/ PollDeliver(t)
    \/ PollRespond(t)
    \/ AckCommand(t)
    \/ CancelWrite(t)

Device == \E t \in Threads : DevicePoll(t) \/ DeviceAck(t)

Admin(t) == \E c \in Commands : EnqueueAppend(t, c) \/ CancelCheck(t, c)

Next ==
    \/ \E t \in Threads : Handler(t) \/ Admin(t)
    \/ Device
    \/ BreakCall
    \/ LoseAck
    \/ RevokeKey
    \/ Restart

Spec == Init /\ [][Next]_vars

(* A thread that serves a request goes on.  Nobody has to send requests.    *)
FairSpec == Spec /\ \A t \in Threads : WF_vars(Handler(t))

-----------------------------------------------------------------------------
Statuses == {"none", "pending", "delivered", "cancelled", "acked", "lost"}

Request == [pc : {"idle", "appended", "called", "poll", "delivering", "ack", "cancelling"},
            cmd : Commands \cup {NoCommand},
            todo : Seq(Commands), at : Nat]

(* The queue and the index hold commands, every command has a status, every *)
(* thread serves at most one request.                                       *)
TypeOK ==
    /\ queue \in Seq(Commands)
    /\ by_id \subseteq Commands
    /\ status \in [Commands -> Statuses]
    /\ req \in [Threads -> Request]
    /\ call \in Threads \cup {NoThread}
    /\ inbox \in Seq(Commands)
    /\ received \in Seq(Commands)
    /\ cancelled \subseteq Commands
    /\ valid \in BOOLEAN
    /\ failed \in BOOLEAN

(* A command shown as acked in command_history was taken up by the device.  *)
AckedWereReceived == \A c \in Commands : status[c] = "acked" => c \in ToSet(received)

(* The device takes commands up in the order they were enqueued, though     *)
(* answers are lost and polls overlap on the server.                        *)
ReceivedInOrder ==
    \A i, j \in DOMAIN queue : \A k, l \in DOMAIN received :
      received[k] = queue[i] /\ received[l] = queue[j] /\ k < l => i < j

(* cancel_command answers 200 only before delivery: such a command never    *)
(* reaches the device.                                                      *)
CancelledNeverDelivered == cancelled \cap ToSet(received) = {}

\* The device keeps polling, and is not refused for ever.
PollsGetThrough == []<>(\E t \in Threads : req[t].pc = "poll")

(* While its polls get through, a command whose enqueue has been answered   *)
(* does not stay pending: a poll takes it, also one whose answer is lost,   *)
(* it is cancelled, or a restart forgets it.                                *)
PendingAreTaken ==
    PollsGetThrough =>
      \A c \in Commands : c \in by_id /\ status[c] = "pending" ~> status[c] # "pending"

(* And unless a connection breaks or an acknowledgement is refused, it is   *)
(* in the end acknowledged or cancelled, or a restart forgets it.           *)
CommandsResolved ==
    PollsGetThrough =>
      \A c \in Commands :
        c \in by_id ~> status[c] \in {"acked", "cancelled", "lost"} \/ failed
=============================================================================
