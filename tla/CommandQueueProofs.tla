------------------------- MODULE CommandQueueProofs -------------------------
(* Proofs about CommandQueue, for every set of threads and commands.        *)
EXTENDS CommandQueue, TLAPS

(* The commands of s are in the order of the list q; those that are not in  *)
(* q, or no longer, may be anywhere.                                        *)
InOrder(q, s) ==
    \A k, l \in DOMAIN s : \A i, j \in DOMAIN q :
      k < l /\ s[k] = q[i] /\ s[l] = q[j] => i < j

(* What of s is not among seen comes after all of seen in the list q.       *)
Follows(q, seen, s) ==
    \A l \in DOMAIN s : \A k \in DOMAIN seen : \A i, j \in DOMAIN q :
      s[l] \notin ToSet(seen) /\ seen[k] = q[i] /\ s[l] = q[j] => i < j

(* S leaves out no pending command that is before one of its own in q.      *)
Closed(q, st, S) ==
    \A i, j \in DOMAIN q : i < j /\ q[j] \in S => q[i] \in S \/ st[q[i]] # "pending"

Named(c) == c \in Commands /\ status[c] # "none"

QueueInv ==
    /\ \A i \in DOMAIN queue : Named(queue[i])
    /\ \A i, j \in DOMAIN queue : queue[i] = queue[j] => i = j
    /\ \A c \in by_id : Named(c)

(* A poll, whether or not anybody still waits for it: what it has been      *)
(* through of the list, it has taken or it was not pending.                 *)
Polling(t) == req[t].pc \in {"called", "poll", "delivering"}

RequestInv(t) ==
    /\ req[t].pc \in {"appended", "ack", "cancelling"} => Named(req[t].cmd)
    /\ req[t].pc = "ack" => req[t].cmd \in ToSet(received)
    /\ \A l \in DOMAIN req[t].todo : Named(req[t].todo[l])
    /\ Polling(t) =>
         /\ InOrder(queue, req[t].todo)
         /\ Closed(queue, status, ToSet(req[t].todo))
    /\ req[t].pc = "called" => req[t].at = 0 /\ req[t].todo = <<>>
    /\ req[t].pc = "poll" =>
         /\ req[t].at <= Len(queue)
         /\ \A i \in 1 .. req[t].at : queue[i] \in ToSet(req[t].todo) \/ ~Pending(queue[i])
         /\ \A l \in DOMAIN req[t].todo : \E i \in 1 .. req[t].at : req[t].todo[l] = queue[i]
    /\ req[t].pc = "delivering" => req[t].at <= Len(req[t].todo)

(* The device polls when it is through with the last answer, and a poll it  *)
(* waits for holds what it has taken up before, and later commands.         *)
OpenPollInv ==
    \A t \in Threads : call = t /\ Polling(t) => inbox = <<>> /\ Follows(queue, received, req[t].todo)

DeviceInv ==
    /\ \A l \in DOMAIN received : Named(received[l])
    /\ \A l \in DOMAIN inbox : Named(inbox[l])
    /\ InOrder(queue, received)
    /\ InOrder(queue, inbox)
    /\ Follows(queue, received, inbox)
    /\ Closed(queue, status, ToSet(received) \cup ToSet(inbox))

Inv ==
    /\ TypeOK
    /\ QueueInv
    /\ \A t \in Threads : RequestInv(t)
    /\ OpenPollInv
    /\ DeviceInv
    /\ AckedWereReceived

-----------------------------------------------------------------------------
LEMMA AppendFacts ==
    ASSUME NEW S, NEW s \in Seq(S), NEW x \in S
    PROVE  /\ Append(s, x) \in Seq(S)
           /\ Len(s) \in Nat /\ DOMAIN s = 1 .. Len(s) /\ DOMAIN Append(s, x) = 1 .. Len(s) + 1
           /\ \A i \in 1 .. Len(s) : Append(s, x)[i] = s[i]
           /\ Append(s, x)[Len(s) + 1] = x
           /\ ToSet(Append(s, x)) = ToSet(s) \cup {x}
BY DEF ToSet

LEMMA TailFacts ==
    ASSUME NEW S, NEW s \in Seq(S), s # <<>>
    PROVE  /\ Tail(s) \in Seq(S) /\ Head(s) = s[1] /\ s[1] \in S
           /\ Len(s) \in Nat /\ Len(s) > 0 /\ DOMAIN s = 1 .. Len(s)
           /\ DOMAIN Tail(s) = 1 .. Len(s) - 1
           /\ \A i \in 1 .. Len(s) - 1 : Tail(s)[i] = s[i + 1]
           /\ ToSet(s) = ToSet(Tail(s)) \cup {Head(s)}
<1>1. /\ Tail(s) \in Seq(S) /\ Head(s) = s[1] /\ s[1] \in S
      /\ Len(s) \in Nat /\ Len(s) > 0 /\ DOMAIN s = 1 .. Len(s)
      /\ DOMAIN Tail(s) = 1 .. Len(s) - 1
      /\ \A i \in 1 .. Len(s) - 1 : Tail(s)[i] = s[i + 1]
  OBVIOUS
<1>2. \A i \in 1 .. Len(s) : i = 1 \/ (i - 1 \in 1 .. Len(s) - 1 /\ Tail(s)[i - 1] = s[i])
  BY <1>1
<1>3. ToSet(s) \subseteq ToSet(Tail(s)) \cup {Head(s)}
  <2> SUFFICES ASSUME NEW i \in 1 .. Len(s) PROVE s[i] \in ToSet(Tail(s)) \cup {Head(s)}
    BY <1>1 DEF ToSet
  <2>1. CASE i = 1
    BY <1>1, <2>1
  <2>2. CASE i - 1 \in 1 .. Len(s) - 1 /\ Tail(s)[i - 1] = s[i]
    <3>1. i - 1 \in DOMAIN Tail(s)
      BY <1>1, <2>2
    <3> QED
      BY <2>2, <3>1 DEF ToSet
  <2> QED
    BY <1>2, <2>1, <2>2
<1>4. ToSet(Tail(s)) \cup {Head(s)} \subseteq ToSet(s)
  BY <1>1 DEF ToSet
<1> QED
  BY <1>1, <1>3, <1>4

(* A command that is new to everybody joins the end of the list.            *)
LEMMA OrderInLongerList ==
    ASSUME NEW q \in Seq(Commands), NEW c \in Commands, NEW s \in Seq(Commands), c \notin ToSet(s)
    PROVE  /\ InOrder(q, s) => InOrder(Append(q, c), s)
           /\ \A seen \in Seq(Commands) :
                Follows(q, seen, s) /\ c \notin ToSet(seen) => Follows(Append(q, c), seen, s)
<1>1. \A l \in DOMAIN s : s[l] # c
  BY DEF ToSet
<1>2. InOrder(q, s) => InOrder(Append(q, c), s)
  BY <1>1, AppendFacts DEF InOrder
<1>3. ASSUME NEW seen \in Seq(Commands), Follows(q, seen, s), c \notin ToSet(seen)
      PROVE  Follows(Append(q, c), seen, s)
  <2> SUFFICES ASSUME NEW l \in DOMAIN s, NEW k \in DOMAIN seen,
                      NEW i \in DOMAIN Append(q, c), NEW j \in DOMAIN Append(q, c),
                      s[l] \notin ToSet(seen), seen[k] = Append(q, c)[i], s[l] = Append(q, c)[j]
               PROVE  i < j
    BY DEF Follows
  <2>1. j \in DOMAIN q /\ s[l] = q[j]
    BY <1>1, AppendFacts
  <2>2. i \in DOMAIN q /\ seen[k] = q[i]
    BY <1>3, AppendFacts DEF ToSet
  <2> QED
    BY <1>3, <2>1, <2>2 DEF Follows
<1> QED
  BY <1>2, <1>3

LEMMA ClosedInLongerList ==
    ASSUME NEW q \in Seq(Commands), NEW c \in Commands, NEW S, c \notin S,
           NEW st, NEW st2, \A d \in Commands : d # c => st2[d] = st[d],
           Closed(q, st, S), c \notin ToSet(q)
    PROVE  Closed(Append(q, c), st2, S)
<1> SUFFICES ASSUME NEW i \in DOMAIN Append(q, c), NEW j \in DOMAIN Append(q, c), i < j,
                    Append(q, c)[j] \in S
             PROVE  Append(q, c)[i] \in S \/ st2[Append(q, c)[i]] # "pending"
  BY DEF Closed
<1>1. /\ i \in DOMAIN q /\ j \in DOMAIN q
      /\ Append(q, c)[i] = q[i] /\ Append(q, c)[j] = q[j]
  BY AppendFacts
<1>2. q[i] \in Commands /\ q[i] # c
  BY <1>1 DEF ToSet
<1> QED
  BY <1>1, <1>2 DEF Closed

(* Statuses go on: nobody enqueued is forgotten, or pending again.          *)
Onward ==
    \A c \in Commands :
      /\ status[c] # "none" => status'[c] # "none"
      /\ status'[c] = "pending" => status[c] = "pending"

LEMMA OthersKeep ==
    ASSUME TypeOK, NEW t \in Threads, RequestInv(t), req'[t] = req[t], queue' = queue, Onward,
           ToSet(received) \subseteq ToSet(received')
    PROVE  RequestInv(t)'
<1>1. \A i \in DOMAIN queue : queue[i] \in Commands
  BY DEF TypeOK
<1>2. Polling(t)' <=> Polling(t)
  BY DEF Polling
<1>3. \A S : Closed(queue, status, S) => Closed(queue, status', S)
  BY <1>1 DEF Closed, Onward
<1>4. req[t].pc = "poll" =>
        \A i \in 1 .. req[t].at : queue[i] \in ToSet(req[t].todo) \/ status'[queue[i]] # "pending"
  BY <1>1 DEF Onward, RequestInv, TypeOK, Request, Pending
<1> QED
  BY <1>2, <1>3, <1>4 DEF RequestInv, Onward, Named, Pending

LEMMA QueueKeeps ==
    ASSUME TypeOK, QueueInv, queue' = queue, Onward, \A c \in by_id' : c \in by_id \/ Named(c)
    PROVE  QueueInv'
BY DEF QueueInv, Onward, Named

LEMMA DeviceKeeps ==
    ASSUME TypeOK, DeviceInv, UNCHANGED <<queue, received, inbox, valid>>, Onward
    PROVE  DeviceInv'
<1>1. \A i \in DOMAIN queue : queue[i] \in Commands
  BY DEF TypeOK
<1>2. \A S : Closed(queue, status, S) => Closed(queue, status', S)
  BY <1>1 DEF Closed, Onward
<1> QED
  BY <1>2 DEF DeviceInv, Onward, Named

LEMMA IdleType == Idle \in Request
BY DEF Idle, Request

LEMMA IdleRequest ==
    ASSUME NEW t \in Threads, req'[t].pc = "idle", req'[t].todo = <<>>
    PROVE  RequestInv(t)' /\ ~Polling(t)'
BY DEF RequestInv, Polling

LEMMA OpenPollKeeps ==
    ASSUME OpenPollInv, NEW t \in Threads, UNCHANGED <<queue, call, inbox, received, valid>>,
           \A u \in Threads \ {t} : req'[u] = req[u],
           ~Polling(t)' \/ (Polling(t) /\ req'[t].todo = req[t].todo)
    PROVE  OpenPollInv'
<1>1. \A u \in Threads \ {t} : Polling(u)' <=> Polling(u)
  BY DEF Polling
<1> QED
  BY <1>1 DEF OpenPollInv

-----------------------------------------------------------------------------
(* Steps that leave the list and the device alone and do not take a command *)
(* into a poll.                                                             *)
LEMMA ServerStepKeeps ==
    ASSUME Inv, TypeOK', NEW t \in Threads,
           UNCHANGED <<queue, call, inbox, received, valid>>,
           Onward,
           \A u \in Threads \ {t} : req'[u] = req[u],
           RequestInv(t)',
           ~Polling(t)' \/ (Polling(t) /\ req'[t].todo = req[t].todo),
           \A c \in by_id' : c \in by_id \/ Named(c),
           \A c \in Commands : status'[c] = "acked" => status[c] = "acked" \/ c \in ToSet(received)
    PROVE  Inv'
<1>1. \A u \in Threads : RequestInv(u)'
  BY OthersKeep DEF Inv
<1>2. QueueInv'
  BY QueueKeeps DEF Inv
<1>3. OpenPollInv'
  BY OpenPollKeeps DEF Inv
<1>4. DeviceInv'
  BY DeviceKeeps DEF Inv
<1>5. AckedWereReceived'
  BY DEF Inv, AckedWereReceived
<1> QED
  BY <1>1, <1>2, <1>3, <1>4, <1>5 DEF Inv

LEMMA EnqueueIndexKeeps ==
    ASSUME Inv, NEW t \in Threads, EnqueueIndex(t)
    PROVE  Inv'
<1>1. /\ req[t].pc = "appended" /\ by_id' = by_id \cup {req[t].cmd}
      /\ req' = [req EXCEPT ![t] = Idle]
      /\ UNCHANGED <<queue, status, call, inbox, received, cancelled, failed, valid>>
  BY DEF EnqueueIndex, Finish, device
<1>2. Named(req[t].cmd)
  BY <1>1 DEF Inv, RequestInv
<1>3. TypeOK'
  BY <1>1, <1>2 DEF Inv, TypeOK, Request, Idle, Named
<1>4. RequestInv(t)' /\ ~Polling(t)'
  BY <1>1, IdleRequest DEF Inv, TypeOK, Idle
<1>5. Onward
  BY <1>1 DEF Onward
<1> QED
  BY <1>1, <1>2, <1>3, <1>4, <1>5, ServerStepKeeps DEF Inv, TypeOK

LEMMA AckCommandKeeps ==
    ASSUME Inv, NEW t \in Threads, AckCommand(t)
    PROVE  Inv'
<1> DEFINE c == req[t].cmd
<1>1. /\ req[t].pc = "ack"
      /\ status' = IF c \in by_id THEN [status EXCEPT ![c] = "acked"] ELSE status
      /\ call' = IF call = t THEN NoThread ELSE call
      /\ req' = [req EXCEPT ![t] = Idle]
      /\ UNCHANGED <<queue, by_id, inbox, received, cancelled, failed, valid>>
  BY DEF AckCommand, Acked, Finish
<1>2. c \in Commands /\ c \in ToSet(received)
  BY <1>1 DEF Inv, RequestInv, Named
<1>3. TypeOK'
  BY <1>1, <1>2 DEF Inv, TypeOK, Request, Idle, Statuses
<1>4. RequestInv(t)' /\ ~Polling(t)'
  BY <1>1, IdleRequest DEF Inv, TypeOK, Idle
<1>5. Onward
  BY <1>1, <1>2 DEF Onward, Inv, TypeOK
<1>6. \A u \in Threads : RequestInv(u)'
  BY <1>1, <1>4, <1>5, OthersKeep DEF Inv, TypeOK
<1>7. QueueInv' /\ DeviceInv'
  BY <1>1, <1>5, QueueKeeps, DeviceKeeps DEF Inv
<1>8. OpenPollInv'
  <2>1. \A u \in Threads \ {t} : Polling(u)' <=> Polling(u)
    BY <1>1 DEF Polling, Inv, TypeOK
  <2> QED
    BY <1>1, <1>4, <2>1, NothingAssumption DEF Inv, TypeOK, OpenPollInv
<1>9. AckedWereReceived'
  BY <1>1, <1>2 DEF Inv, TypeOK, AckedWereReceived
<1> QED
  BY <1>3, <1>6, <1>7, <1>8, <1>9 DEF Inv

(* A refused call leaves the queue and what the device has as they were.    *)
LEMMA RefuseCallKeeps ==
    ASSUME Inv, NEW t \in Threads, RefuseCall(t)
    PROVE  Inv'
<1>1. /\ call' = IF call = t THEN NoThread ELSE call
      /\ req' = [req EXCEPT ![t] = Idle]
      /\ failed' = (failed \/ req[t].pc = "ack")
      /\ UNCHANGED <<queue, by_id, status, inbox, received, cancelled, valid>>
  BY DEF RefuseCall, Finish, server
<1>2. TypeOK'
  BY <1>1, IdleType DEF Inv, TypeOK
<1>3. RequestInv(t)' /\ ~Polling(t)'
  BY <1>1, IdleRequest DEF Inv, TypeOK, Idle
<1>4. \A u \in Threads : RequestInv(u)'
  BY <1>1, <1>3, OthersKeep DEF Inv, TypeOK, Onward
<1>5. QueueInv' /\ DeviceInv' /\ AckedWereReceived'
  BY <1>1 DEF Inv, QueueInv, DeviceInv, Named, AckedWereReceived
<1>6. OpenPollInv'
  <2>1. \A u \in Threads \ {t} : req'[u] = req[u]
    BY <1>1 DEF Inv, TypeOK
  <2>2. \A u \in Threads : call' = u => call = u /\ u # t
    BY <1>1, NothingAssumption
  <2> QED
    BY <1>1, <1>3, <2>1, <2>2 DEF Inv, OpenPollInv, Polling
<1> QED
  BY <1>2, <1>4, <1>5, <1>6 DEF Inv

LEMMA PollAuthorisedKeeps ==
    ASSUME Inv, NEW t \in Threads, PollAuthorised(t)
    PROVE  Inv'
<1>1. /\ req[t].pc = "called"
      /\ req' = [req EXCEPT ![t].pc = "poll"]
      /\ UNCHANGED <<queue, by_id, status, call, inbox, received, cancelled, failed, valid>>
  BY DEF PollAuthorised, server, device
<1>2. /\ req'[t].pc = "poll" /\ req'[t].at = 0 /\ req'[t].todo = <<>>
      /\ req[t].todo = <<>> /\ req[t] \in Request
  BY <1>1 DEF Inv, TypeOK, Request, RequestInv
<1>3. TypeOK'
  BY <1>1, ZenonT(60) DEF Inv, TypeOK, Request
<1>4. RequestInv(t)'
  <2>1. Len(queue') \in Nat
    BY <1>1 DEF Inv, TypeOK
  <2>2. InOrder(queue', <<>>) /\ Closed(queue', status', ToSet(<<>>))
    BY DEF InOrder, Closed, ToSet
  <2> QED
    BY <1>2, <2>1, <2>2 DEF RequestInv
<1> QED
  BY <1>1, <1>2, <1>3, <1>4, ServerStepKeeps DEF Inv, TypeOK, Onward, Polling

LEMMA RevokeKeyKeeps ==
    ASSUME Inv, RevokeKey
    PROVE  Inv'
<1>1. /\ valid' = FALSE
      /\ UNCHANGED <<queue, by_id, status, req, call, inbox, received, cancelled, failed>>
  BY DEF RevokeKey, server, device
<1>2. TypeOK'
  BY <1>1 DEF Inv, TypeOK
<1>3. \A u \in Threads : RequestInv(u)'
  BY <1>1, OthersKeep DEF Inv, Onward
<1>4. OpenPollInv'
  BY <1>1 DEF Inv, OpenPollInv, Polling
<1>5. QueueInv' /\ DeviceInv' /\ AckedWereReceived'
  BY <1>1 DEF Inv, QueueInv, DeviceInv, Named, AckedWereReceived
<1> QED
  BY <1>2, <1>3, <1>4, <1>5 DEF Inv

LEMMA CancelKeeps ==
    ASSUME Inv, NEW t \in Threads, CancelWrite(t) \/ \E c \in Commands : CancelCheck(t, c)
    PROVE  Inv'
<1>1. ASSUME NEW c \in Commands, CancelCheck(t, c)
      PROVE  Inv'
  <2>1. /\ c \in by_id
        /\ req' = [req EXCEPT ![t] = [Idle EXCEPT !.pc = "cancelling", !.cmd = c]]
        /\ UNCHANGED <<queue, by_id, status, call, inbox, received, cancelled, failed, valid>>
    BY <1>1 DEF CancelCheck, Cancellable, server, device
  <2>2. TypeOK'
    <3>1. [Idle EXCEPT !.pc = "cancelling", !.cmd = c] \in Request
      <4>1. Idle \in Request
        BY IdleType
      <4> QED
        BY <4>1 DEF Request
    <3> QED
      BY <2>1, <3>1 DEF Inv, TypeOK
  <2>3. req'[t].pc = "cancelling" /\ req'[t].cmd = c /\ req'[t].todo = <<>>
    BY <2>1 DEF Inv, TypeOK, Idle
  <2>4. RequestInv(t)' /\ ~Polling(t)'
    BY <2>1, <2>3 DEF RequestInv, Polling, Inv, QueueInv, Named
  <2>5. Onward
    BY <2>1 DEF Onward
  <2> QED
    BY <2>1, <2>2, <2>4, <2>5, ServerStepKeeps DEF Inv, TypeOK
<1>2. CASE CancelWrite(t)
  <2> DEFINE c == req[t].cmd
  <2>1. /\ req[t].pc = "cancelling"
        /\ status' = [status EXCEPT ![c] = "cancelled"]
        /\ cancelled' = cancelled \cup {c}
        /\ req' = [req EXCEPT ![t] = Idle]
        /\ UNCHANGED <<queue, by_id, call, inbox, received, failed, valid>>
    BY <1>2 DEF CancelWrite, Finish, device
  <2>2. c \in Commands
    BY <2>1 DEF Inv, RequestInv, Named
  <2>3. TypeOK'
    BY <2>1, <2>2 DEF Inv, TypeOK, Request, Idle, Statuses
  <2>4. RequestInv(t)' /\ ~Polling(t)'
    BY <2>1, IdleRequest DEF Inv, TypeOK, Idle
  <2>5. Onward
    BY <2>1, <2>2 DEF Onward, Inv, TypeOK
  <2>6. \A d \in Commands : status'[d] = "acked" => status[d] = "acked"
    BY <2>1, <2>2 DEF Inv, TypeOK
  <2> QED
    BY <2>1, <2>3, <2>4, <2>5, <2>6, ServerStepKeeps DEF Inv, TypeOK
<1> QED
  BY <1>1, <1>2

-----------------------------------------------------------------------------
(* The poll: it takes a command the device has not taken up only if that    *)
(* was pending until now, so the device cannot have later ones.             *)
LEMMA PollScanKeeps ==
    ASSUME Inv, NEW t \in Threads, PollScan(t)
    PROVE  Inv'
<1> DEFINE n == req[t].at + 1
           c == queue[n]
           old == req[t].todo
           new == IF Pending(c) THEN Append(old, c) ELSE old
<1>1. /\ req[t].pc = "poll" /\ req[t].at < Len(queue)
      /\ req' = [req EXCEPT ![t].at = n, ![t].todo = new]
      /\ UNCHANGED <<queue, by_id, status, call, inbox, received, cancelled, failed, valid>>
  BY DEF PollScan, Listed, server, device
<1>2. /\ queue \in Seq(Commands) /\ DOMAIN queue = 1 .. Len(queue) /\ Len(queue) \in Nat
      /\ n \in DOMAIN queue /\ n \in Nat /\ n - 1 = req[t].at /\ c \in Commands /\ old \in Seq(Commands)
      /\ req[t] \in Request
  <2>1. queue \in Seq(Commands) /\ req[t] \in Request
    BY DEF Inv, TypeOK
  <2>2. req[t].at \in Nat /\ old \in Seq(Commands)
    BY <2>1 DEF Request
  <2>3. DOMAIN queue = 1 .. Len(queue) /\ Len(queue) \in Nat
    BY <2>1
  <2>4. n \in DOMAIN queue /\ n \in Nat /\ n - 1 = req[t].at
    BY <1>1, <2>2, <2>3
  <2>5. c \in Commands
    BY <2>1, <2>4
  <2> QED
    BY <2>1, <2>2, <2>3, <2>4, <2>5
<1>3. /\ new \in Seq(Commands)
      /\ req'[t] = [req[t] EXCEPT !.at = n, !.todo = new]
      /\ req'[t].pc = "poll" /\ req'[t].at = n /\ req'[t].todo = new
      /\ \A u \in Threads \ {t} : req'[u] = req[u]
  BY <1>1, <1>2, AppendFacts DEF Inv, TypeOK, Request
<1> HIDE DEF new
<1> DEFINE longer == Append(old, c)
<1>a. /\ longer[Len(old) + 1] = c /\ Len(old) \in Nat
      /\ DOMAIN longer = 1 .. Len(old) + 1 /\ DOMAIN old = 1 .. Len(old)
      /\ \A l \in 1 .. Len(old) : longer[l] = old[l]
  BY <1>2, AppendFacts
<1> HIDE DEF longer
<1>4. TypeOK'
  BY <1>1, <1>2, <1>3 DEF Inv, TypeOK, Request
<1>5. /\ \A l \in DOMAIN old : Named(old[l])
      /\ InOrder(queue, old) /\ Closed(queue, status, ToSet(old))
      /\ \A i \in 1 .. n - 1 : queue[i] \in ToSet(old) \/ ~Pending(queue[i])
      /\ \A l \in DOMAIN old : \E i \in 1 .. n - 1 : old[l] = queue[i]
  BY <1>1, <1>2 DEF Inv, RequestInv, Polling, Request
<1>6. /\ \A i, j \in DOMAIN queue : queue[i] = queue[j] => i = j
      /\ Named(c)
  BY <1>2 DEF Inv, QueueInv
<1>7. ToSet(old) \subseteq ToSet(new) /\ (Pending(c) => c \in ToSet(new))
  BY <1>2, AppendFacts DEF new
<1>8. /\ \A l \in DOMAIN new : Named(new[l])
      /\ \A l \in DOMAIN new : \E i \in 1 .. n : new[l] = queue[i]
  <2> SUFFICES ASSUME NEW l \in DOMAIN new
               PROVE  Named(new[l]) /\ \E i \in 1 .. n : new[l] = queue[i]
    OBVIOUS
  <2>1. new[l] = c \/ (l \in DOMAIN old /\ new[l] = old[l])
    BY <1>2, AppendFacts DEF new
  <2> QED
    BY <1>2, <1>5, <1>6, <2>1, SMTT(30)
<1>9. InOrder(queue, new)
  <2> SUFFICES ASSUME Pending(c) PROVE InOrder(queue, longer)
    BY <1>5 DEF new, longer
  <2> SUFFICES ASSUME NEW k \in DOMAIN longer, NEW l \in DOMAIN longer,
                      NEW i \in DOMAIN queue, NEW j \in DOMAIN queue,
                      k < l, longer[k] = queue[i], longer[l] = queue[j]
               PROVE  i < j
    BY DEF InOrder
  <2>1. k \in DOMAIN old /\ old[k] = queue[i]
    BY <1>a
  <2>2. CASE l \in DOMAIN old /\ old[l] = queue[j]
    BY <1>5, <2>1, <2>2 DEF InOrder
  <2>3. CASE queue[j] = c
    <3>1. j = n
      BY <1>2, <1>6, <2>3
    <3>2. PICK h \in 1 .. n - 1 : old[k] = queue[h]
      BY <1>5, <2>1
    <3>3. h \in DOMAIN queue
      BY <1>2
    <3>4. h = i
      BY <1>6, <2>1, <3>2, <3>3
    <3> QED
      BY <1>2, <3>1, <3>4
  <2> QED
    BY <1>a, <2>2, <2>3, SMTT(30)
<1>10. Closed(queue, status, ToSet(new))
  <2> SUFFICES ASSUME NEW i \in DOMAIN queue, NEW j \in DOMAIN queue, i < j, queue[j] \in ToSet(new)
               PROVE  queue[i] \in ToSet(new) \/ status[queue[i]] # "pending"
    BY DEF Closed
  <2>1. CASE queue[j] \in ToSet(old)
    BY <1>5, <1>7, <2>1 DEF Closed
  <2>2. CASE queue[j] = c
    <3>1. j = n /\ i \in 1 .. n - 1
      BY <1>2, <1>6, <2>2
    <3> QED
      BY <1>5, <1>7, <3>1 DEF Pending
  <2> QED
    BY <1>2, <2>1, <2>2, AppendFacts DEF new
<1>11. \A i \in 1 .. n : queue[i] \in ToSet(new) \/ ~Pending(queue[i])
  BY <1>2, <1>5, <1>7
<1>12. RequestInv(t)'
  <2>1. \A l \in DOMAIN new : new[l] \in Commands /\ status'[new[l]] # "none"
    BY <1>1, <1>8 DEF Named
  <2>2. InOrder(queue', new) /\ Closed(queue', status', ToSet(new))
    BY <1>1, <1>9, <1>10
  <2>3. n <= Len(queue') /\ \A i \in 1 .. n : queue'[i] \in ToSet(new) \/ status'[queue'[i]] # "pending"
    BY <1>1, <1>2, <1>11 DEF Pending
  <2>4. \A l \in DOMAIN new : \E i \in 1 .. n : new[l] = queue'[i]
    BY <1>1, <1>8
  <2> QED
    BY <1>3, <2>1, <2>2, <2>3, <2>4 DEF RequestInv, Polling, Named, Pending
<1>13. \A u \in Threads \ {t} : RequestInv(u)'
  BY <1>1, <1>3, OthersKeep DEF Inv, Onward
<1>14. OpenPollInv'
  <2> SUFFICES ASSUME NEW u \in Threads, call = u, Polling(u)'
               PROVE  inbox = <<>> /\ Follows(queue, received, req'[u].todo)
    BY <1>1 DEF OpenPollInv
  <2>1. CASE u # t
    BY <1>3, <2>1 DEF Inv, OpenPollInv, Polling
  <2>2. CASE u = t
    <3>1. inbox = <<>> /\ Follows(queue, received, old)
      BY <1>1, <2>2 DEF Inv, OpenPollInv, Polling
    <3>2. received \in Seq(Commands)
      BY DEF Inv, TypeOK
    <3>3. ASSUME Pending(c)
          PROVE  Follows(queue, received, longer)
      <4> SUFFICES ASSUME NEW l \in DOMAIN longer, NEW k \in DOMAIN received,
                          NEW i \in DOMAIN queue, NEW j \in DOMAIN queue,
                          longer[l] \notin ToSet(received),
                          received[k] = queue[i], longer[l] = queue[j]
                   PROVE  i < j
        BY DEF Follows
      <4>1. CASE l \in DOMAIN old /\ old[l] = queue[j]
        BY <3>1, <4>1 DEF Follows
      <4>2. CASE queue[j] = c
        <5>1. j = n /\ c \notin ToSet(received)
          BY <1>2, <1>6, <4>2
        <5>2. queue[i] \in ToSet(received) \cup ToSet(inbox)
          BY DEF ToSet
        <5>3. ToSet(inbox) = {}
          BY <3>1 DEF ToSet
        <5>4. ~(j < i)
          BY <3>3, <5>1, <5>2, <5>3 DEF Inv, DeviceInv, Closed, Pending
        <5>5. i # j
          BY <5>1, <5>2, <5>3
        <5> QED
          BY <1>2, <5>4, <5>5
      <4> QED
        BY <1>a, <4>1, <4>2
    <3> QED
      BY <1>3, <2>2, <3>1, <3>3 DEF new, longer
  <2> QED
    BY <2>1, <2>2
<1>15. QueueInv' /\ DeviceInv' /\ AckedWereReceived'
  BY <1>1 DEF Inv, QueueInv, DeviceInv, AckedWereReceived, Named
<1> QED
  BY <1>4, <1>12, <1>13, <1>14, <1>15 DEF Inv

LEMMA PollScannedKeeps ==
    ASSUME Inv, NEW t \in Threads, PollScanned(t)
    PROVE  Inv'
<1>1. /\ req[t].pc = "poll"
      /\ req' = [req EXCEPT ![t].pc = "delivering", ![t].at = 0]
      /\ UNCHANGED <<queue, by_id, status, call, inbox, received, cancelled, failed, valid>>
  BY DEF PollScanned, server, device
<1>2. /\ req'[t].pc = "delivering" /\ req'[t].at = 0 /\ req'[t].todo = req[t].todo
      /\ req[t] \in Request
  BY <1>1 DEF Inv, TypeOK, Request
<1>3. TypeOK'
  BY <1>1, ZenonT(60) DEF Inv, TypeOK, Request
<1>4. RequestInv(t)'
  <2>1. 0 <= Len(req[t].todo)
    BY <1>2 DEF Request
  <2>2. /\ \A l \in DOMAIN req[t].todo : req[t].todo[l] \in Commands /\ status'[req[t].todo[l]] # "none"
        /\ InOrder(queue', req[t].todo) /\ Closed(queue', status', ToSet(req[t].todo))
    BY <1>1 DEF Inv, RequestInv, Polling, Named
  <2> QED
    BY <1>2, <2>1, <2>2 DEF RequestInv, Polling, Named
<1> QED
  BY <1>1, <1>2, <1>3, <1>4, ServerStepKeeps DEF Inv, TypeOK, Onward, Polling

LEMMA PollDeliverKeeps ==
    ASSUME Inv, NEW t \in Threads, PollDeliver(t)
    PROVE  Inv'
<1> DEFINE n == req[t].at + 1
           c == req[t].todo[n]
<1>1. /\ req[t].pc = "delivering" /\ req[t].at < Len(req[t].todo)
      /\ status' = IF c \in by_id THEN [status EXCEPT ![c] = "delivered"] ELSE status
      /\ req' = [req EXCEPT ![t].at = n]
      /\ UNCHANGED <<queue, by_id, call, inbox, received, cancelled, failed, valid>>
  BY DEF PollDeliver, MarkDelivered, device
<1>2. /\ req'[t].pc = "delivering" /\ req'[t].at = n /\ req'[t].todo = req[t].todo
      /\ req[t] \in Request /\ n \in 1 .. Len(req[t].todo)
  BY <1>1 DEF Inv, TypeOK, Request
<1>3. c \in Commands
  BY <1>2 DEF Request
<1>4. TypeOK'
  <2>1. status' \in [Commands -> Statuses]
    BY <1>1, <1>3 DEF Inv, TypeOK, Statuses
  <2>2. [req[t] EXCEPT !.at = n] \in Request
    BY <1>2 DEF Request
  <2>3. req' \in [Threads -> Request]
    BY <1>1, <2>2 DEF Inv, TypeOK
  <2> QED
    BY <1>1, <2>1, <2>3 DEF Inv, TypeOK
<1>5. Onward
  BY <1>1, <1>3 DEF Onward, Inv, TypeOK
<1>6. Closed(queue, status', ToSet(req[t].todo))
  BY <1>1, <1>5 DEF Inv, TypeOK, Closed, Onward, RequestInv, Polling
<1>7. RequestInv(t)'
  <2>1. RequestInv(t)
    BY DEF Inv
  <2>2. (\A l \in DOMAIN req[t].todo : Named(req[t].todo[l]))'
    BY <1>2, <1>5, <2>1 DEF RequestInv, Named, Onward
  <2>3. InOrder(queue, req[t].todo)
    BY <1>1, <2>1 DEF RequestInv, Polling
  <2>4. queue' = queue /\ req[t].pc = "delivering"
    BY <1>1
  <2> QED
    BY <1>2, <1>6, <2>2, <2>3, <2>4 DEF RequestInv
<1>8. \A d \in Commands : status'[d] = "acked" => status[d] = "acked"
  BY <1>1, <1>3 DEF Inv, TypeOK
<1> QED
  BY <1>1, <1>2, <1>4, <1>5, <1>7, <1>8, ServerStepKeeps DEF Inv, TypeOK, Polling

(* The answer: what the device waited for has the order its inbox needs.    *)
LEMMA PollRespondKeeps ==
    ASSUME Inv, NEW t \in Threads, PollRespond(t)
    PROVE  Inv'
<1>1. /\ req[t].pc = "delivering"
      /\ req' = [req EXCEPT ![t] = Idle]
      /\ UNCHANGED <<queue, by_id, status, received, cancelled, failed, valid>>
      /\ \/ call = t /\ call' = NoThread /\ inbox' = req[t].todo
         \/ UNCHANGED <<call, inbox, valid>>
  BY DEF PollRespond, Finish, server
<1>2. req[t] \in Request /\ req[t].todo \in Seq(Commands)
  BY DEF Inv, TypeOK, Request
<1>3. TypeOK'
  BY <1>1, <1>2, IdleType DEF Inv, TypeOK
<1>4. RequestInv(t)' /\ ~Polling(t)'
  BY <1>1, IdleRequest DEF Inv, TypeOK, Idle
<1>5. Onward
  BY <1>1 DEF Onward
<1>6. CASE UNCHANGED <<call, inbox, valid>>
  BY <1>1, <1>3, <1>4, <1>5, <1>6, ServerStepKeeps DEF Inv, TypeOK
<1>7. CASE call = t /\ call' = NoThread /\ inbox' = req[t].todo
  <2>1. \A u \in Threads : RequestInv(u)'
    BY <1>1, <1>4, <1>5, OthersKeep DEF Inv, TypeOK
  <2>2. QueueInv' /\ AckedWereReceived'
    BY <1>1 DEF Inv, QueueInv, Named, AckedWereReceived
  <2>3. OpenPollInv'
    BY <1>7, NothingAssumption DEF OpenPollInv
  <2>4. /\ inbox = <<>> /\ Follows(queue, received, req[t].todo)
        /\ InOrder(queue, req[t].todo) /\ Closed(queue, status, ToSet(req[t].todo))
        /\ \A l \in DOMAIN req[t].todo : Named(req[t].todo[l])
    BY <1>1, <1>7 DEF Inv, OpenPollInv, RequestInv, Polling
  <2>5. Closed(queue, status, ToSet(received) \cup ToSet(req[t].todo))
    <3>1. ToSet(inbox) = {}
      BY <2>4 DEF ToSet
    <3>2. Closed(queue, status, ToSet(received))
      BY <3>1 DEF Inv, DeviceInv, Closed
    <3> QED
      BY <2>4, <3>2 DEF Closed
  <2>6. DeviceInv'
    BY <1>1, <1>7, <2>4, <2>5 DEF Inv, DeviceInv, Named
  <2> QED
    BY <1>3, <2>1, <2>2, <2>3, <2>6 DEF Inv
<1> QED
  BY <1>1, <1>6, <1>7

-----------------------------------------------------------------------------
LEMMA EnqueueAppendKeeps ==
    ASSUME Inv, NEW t \in Threads, NEW c \in Commands, EnqueueAppend(t, c)
    PROVE  Inv'
<1>1. /\ status[c] = "none"
      /\ queue' = Append(queue, c)
      /\ status' = [status EXCEPT ![c] = "pending"]
      /\ req' = [req EXCEPT ![t] = [Idle EXCEPT !.pc = "appended", !.cmd = c]]
      /\ UNCHANGED <<by_id, call, inbox, received, cancelled, failed, valid>>
  BY DEF EnqueueAppend, device
<1>2. /\ queue \in Seq(Commands) /\ received \in Seq(Commands) /\ inbox \in Seq(Commands)
      /\ \A u \in Threads : req[u] \in Request /\ req[u].todo \in Seq(Commands)
  BY DEF Inv, TypeOK, Request
<1>3. /\ c \notin ToSet(queue) /\ c \notin ToSet(received) /\ c \notin ToSet(inbox)
      /\ \A u \in Threads : c \notin ToSet(req[u].todo)
  <2>1. \A d : Named(d) => d # c
    BY <1>1 DEF Named
  <2>2. c \notin ToSet(queue) /\ c \notin ToSet(received) /\ c \notin ToSet(inbox)
    BY <2>1 DEF Inv, QueueInv, DeviceInv, ToSet
  <2>3. ASSUME NEW u \in Threads PROVE c \notin ToSet(req[u].todo)
    <3>1. \A l \in DOMAIN req[u].todo : Named(req[u].todo[l])
      BY DEF Inv, RequestInv
    <3> QED
      BY <2>1, <3>1 DEF ToSet
  <2> QED
    BY <2>2, <2>3
<1>4. /\ status' \in [Commands -> Statuses] /\ status'[c] = "pending"
      /\ \A d \in Commands : d # c => status'[d] = status[d]
      /\ \A d : Named(d) => d \in Commands /\ status'[d] # "none"
  BY <1>1 DEF Inv, TypeOK, Statuses, Named
<1>5. TypeOK'
  <2>1. [Idle EXCEPT !.pc = "appended", !.cmd = c] \in Request
    <3>1. Idle \in Request
      BY IdleType
    <3> QED
      BY <3>1 DEF Request
  <2> QED
    BY <1>1, <1>2, <1>4, <2>1, AppendFacts DEF Inv, TypeOK
<1>6. QueueInv'
  <2>1. \A i \in DOMAIN queue' :
          \/ i \in DOMAIN queue /\ queue'[i] = queue[i] /\ queue[i] # c
          \/ i = Len(queue) + 1 /\ queue'[i] = c
    BY <1>1, <1>2, <1>3, AppendFacts DEF ToSet
  <2>2. \A i \in DOMAIN queue' : queue'[i] \in Commands /\ status'[queue'[i]] # "none"
    BY <1>4, <2>1 DEF Inv, QueueInv
  <2>3. \A i, j \in DOMAIN queue' : queue'[i] = queue'[j] => i = j
    BY <2>1 DEF Inv, QueueInv
  <2> QED
    BY <1>1, <1>4, <2>2, <2>3 DEF Inv, QueueInv, Named
<1>7. ASSUME NEW u \in Threads, u # t PROVE RequestInv(u)'
  <2>1. req'[u] = req[u]
    BY <1>1, <1>7 DEF Inv, TypeOK
  <2>2. RequestInv(u) /\ req[u].todo \in Seq(Commands) /\ c \notin ToSet(req[u].todo)
    BY <1>2, <1>3 DEF Inv
  <2>3. Polling(u) => /\ InOrder(queue', req[u].todo)
                      /\ Closed(queue', status', ToSet(req[u].todo))
    BY <1>1, <1>2, <1>3, <1>4, <2>2, OrderInLongerList, ClosedInLongerList DEF RequestInv
  <2>4. ASSUME req[u].pc = "poll"
        PROVE  /\ req[u].at <= Len(queue')
               /\ \A i \in 1 .. req[u].at : queue'[i] \in ToSet(req[u].todo) \/ status'[queue'[i]] # "pending"
               /\ \A l \in DOMAIN req[u].todo : \E i \in 1 .. req[u].at : req[u].todo[l] = queue'[i]
    <3>1. req[u].at \in Nat /\ req[u].at <= Len(queue) /\ Len(queue') = Len(queue) + 1
      BY <1>1, <1>2, <2>2, <2>4 DEF RequestInv, Request
    <3>2. \A i \in 1 .. req[u].at : i \in DOMAIN queue /\ queue'[i] = queue[i]
      BY <1>1, <1>2, <3>1, AppendFacts
    <3>3. \A i \in DOMAIN queue : queue[i] \in Commands /\ queue[i] # c
      BY <1>2, <1>3 DEF ToSet
    <3>4. /\ \A i \in 1 .. req[u].at : queue[i] \in ToSet(req[u].todo) \/ status[queue[i]] # "pending"
          /\ \A l \in DOMAIN req[u].todo : \E i \in 1 .. req[u].at : req[u].todo[l] = queue[i]
      BY <2>2, <2>4 DEF RequestInv, Pending
    <3>5. \A i \in 1 .. req[u].at : status'[queue'[i]] = status[queue[i]]
      BY <1>4, <3>2, <3>3
    <3>6. req[u].at <= Len(queue')
      BY <1>2, <3>1
    <3> QED
      BY <3>2, <3>4, <3>5, <3>6
  <2>5. \A l \in DOMAIN req[u].todo : req[u].todo[l] \in Commands /\ status'[req[u].todo[l]] # "none"
    BY <1>4, <2>2 DEF RequestInv
  <2>6. req[u].pc \in {"appended", "ack", "cancelling"} =>
          req[u].cmd \in Commands /\ status'[req[u].cmd] # "none"
    BY <1>4, <2>2 DEF RequestInv
  <2>7. /\ req[u].pc = "ack" => req[u].cmd \in ToSet(received')
        /\ req[u].pc = "called" => req[u].at = 0 /\ req[u].todo = <<>>
        /\ req[u].pc = "delivering" => req[u].at <= Len(req[u].todo)
    BY <1>1, <2>2 DEF RequestInv
  <2> QED
    BY <2>1, <2>3, <2>4, <2>5, <2>6, <2>7 DEF RequestInv, Polling, Named, Pending
<1>8. req'[t].pc = "appended" /\ req'[t].cmd = c /\ req'[t].todo = <<>>
  BY <1>1 DEF Inv, TypeOK, Idle
<1>9. RequestInv(t)' /\ ~Polling(t)'
  BY <1>4, <1>8 DEF RequestInv, Polling, Named
<1>10. OpenPollInv'
  <2> SUFFICES ASSUME NEW u \in Threads, call' = u, Polling(u)'
               PROVE  inbox' = <<>> /\ Follows(queue', received', req'[u].todo)
    BY DEF OpenPollInv
  <2>1. u # t /\ req'[u] = req[u] /\ Polling(u)
    BY <1>1, <1>9 DEF Inv, TypeOK, Polling
  <2>2. inbox = <<>> /\ Follows(queue, received, req[u].todo)
    BY <1>1, <2>1 DEF Inv, OpenPollInv
  <2> QED
    BY <1>1, <1>2, <1>3, <2>1, <2>2, OrderInLongerList
<1>11. DeviceInv'
  <2>1. /\ InOrder(queue', received) /\ InOrder(queue', inbox)
        /\ Follows(queue', received, inbox)
    BY <1>1, <1>2, <1>3, OrderInLongerList DEF Inv, DeviceInv
  <2>2. Closed(queue', status', ToSet(received) \cup ToSet(inbox))
    BY <1>1, <1>2, <1>3, <1>4, ClosedInLongerList DEF Inv, DeviceInv
  <2> QED
    BY <1>1, <1>4, <2>1, <2>2 DEF Inv, DeviceInv, Named
<1>12. AckedWereReceived'
  BY <1>1, <1>4 DEF Inv, AckedWereReceived
<1> QED
  BY <1>5, <1>6, <1>7, <1>9, <1>10, <1>11, <1>12 DEF Inv

-----------------------------------------------------------------------------
(* The device.  Taking a command up moves it from the inbox to the end of   *)
(* received, unless it is there already.                                    *)
LEMMA TakeUpKeeps ==
    ASSUME Inv, TakeUp, UNCHANGED <<queue, status>>
    PROVE  /\ DeviceInv'
           /\ received' \in Seq(Commands) /\ inbox' \in Seq(Commands)
           /\ ToSet(received) \subseteq ToSet(received')
           /\ Head(inbox) \in ToSet(received') /\ Named(Head(inbox))
<1> DEFINE c == Head(inbox)
<1>1. /\ inbox # <<>> /\ inbox' = Tail(inbox)
      /\ received' = IF c \in ToSet(received) THEN received ELSE Append(received, c)
  BY DEF TakeUp
<1>2. /\ queue \in Seq(Commands) /\ inbox \in Seq(Commands) /\ received \in Seq(Commands)
      /\ DeviceInv
  BY DEF Inv, TypeOK
<1>3. /\ inbox' \in Seq(Commands) /\ c = inbox[1] /\ 1 \in DOMAIN inbox /\ c \in Commands
      /\ \A l \in DOMAIN inbox' : l + 1 \in DOMAIN inbox /\ inbox'[l] = inbox[l + 1] /\ l \in Nat /\ l > 0
      /\ ToSet(inbox) = ToSet(inbox') \cup {c}
  BY <1>1, <1>2, TailFacts
<1>4. Named(c)
  BY <1>2, <1>3 DEF DeviceInv
<1>5. /\ received' \in Seq(Commands)
      /\ ToSet(received') = ToSet(received) \cup {c}
      /\ \A k \in DOMAIN received' :
           \/ k \in DOMAIN received /\ received'[k] = received[k]
           \/ /\ c \notin ToSet(received) /\ received'[k] = c
              /\ k \notin DOMAIN received /\ \A h \in DOMAIN received' : h <= k
  <2>1. CASE c \in ToSet(received)
    BY <1>1, <1>2, <2>1
  <2>2. CASE c \notin ToSet(received)
    <3>1. received' = Append(received, c)
      BY <1>1, <2>2
    <3> QED
      BY <1>2, <1>3, <2>2, <3>1, AppendFacts
  <2> QED
    BY <2>1, <2>2
<1>6. \A k, l \in DOMAIN received' : k \in Nat /\ l \in Nat
  BY <1>5
<1>7. InOrder(queue, received')
  <2> SUFFICES ASSUME NEW k \in DOMAIN received', NEW l \in DOMAIN received',
                      NEW i \in DOMAIN queue, NEW j \in DOMAIN queue,
                      k < l, received'[k] = queue[i], received'[l] = queue[j]
               PROVE  i < j
    BY DEF InOrder
  <2>1. k \in DOMAIN received /\ received[k] = queue[i]
    BY <1>5, <1>6
  <2>2. CASE l \in DOMAIN received /\ received'[l] = received[l]
    BY <1>2, <2>1, <2>2 DEF DeviceInv, InOrder
  <2>3. CASE c \notin ToSet(received) /\ received'[l] = c
    BY <1>2, <1>3, <2>1, <2>3 DEF DeviceInv, Follows
  <2> QED
    BY <1>5, <2>2, <2>3
<1>8. InOrder(queue, inbox')
  BY <1>2, <1>3, SMTT(30) DEF DeviceInv, InOrder
<1>9. Follows(queue, received', inbox')
  <2> SUFFICES ASSUME NEW l \in DOMAIN inbox', NEW k \in DOMAIN received',
                      NEW i \in DOMAIN queue, NEW j \in DOMAIN queue,
                      inbox'[l] \notin ToSet(received'), received'[k] = queue[i], inbox'[l] = queue[j]
               PROVE  i < j
    BY DEF Follows
  <2>1. l + 1 \in DOMAIN inbox /\ inbox[l + 1] = queue[j] /\ inbox[l + 1] \notin ToSet(received)
    BY <1>3, <1>5
  <2>2. CASE k \in DOMAIN received /\ received'[k] = received[k]
    BY <1>2, <2>1, <2>2 DEF DeviceInv, Follows
  <2>3. CASE received'[k] = c
    <3>1. 1 < l + 1 /\ 1 \in DOMAIN inbox /\ inbox[1] = queue[i]
      BY <1>3, <2>3
    <3>2. InOrder(queue, inbox)
      BY <1>2 DEF DeviceInv
    <3> QED
      BY <2>1, <3>1, <3>2 DEF InOrder
  <2> QED
    BY <1>5, <2>2, <2>3
<1>10. Closed(queue, status, ToSet(received') \cup ToSet(inbox'))
  <2>1. ToSet(received') \cup ToSet(inbox') = ToSet(received) \cup ToSet(inbox)
    BY <1>3, <1>5
  <2> QED
    BY <1>2, <2>1 DEF DeviceInv
<1>11. /\ \A l \in DOMAIN received' : received'[l] \in Commands /\ status[received'[l]] # "none"
       /\ \A l \in DOMAIN inbox' : inbox'[l] \in Commands /\ status[inbox'[l]] # "none"
  <2>1. \A l \in DOMAIN received' : received'[l] \in Commands /\ status[received'[l]] # "none"
    BY <1>2, <1>3, <1>4, <1>5 DEF DeviceInv, Named
  <2>2. \A l \in DOMAIN inbox' : inbox'[l] \in Commands /\ status[inbox'[l]] # "none"
    BY <1>2, <1>3, <1>4, <1>5 DEF DeviceInv, Named
  <2> QED
    BY <2>1, <2>2
<1>12. DeviceInv'
  BY <1>7, <1>8, <1>9, <1>10, <1>11 DEF DeviceInv, Named
<1> QED
  BY <1>3, <1>4, <1>5, <1>12

LEMMA DeviceAckKeeps ==
    ASSUME Inv, NEW t \in Threads, DeviceAck(t)
    PROVE  Inv'
<1> DEFINE c == Head(inbox)
<1>1. /\ TakeUp /\ call' = t
      /\ req' = [req EXCEPT ![t] = [Idle EXCEPT !.pc = "ack", !.cmd = c]]
      /\ UNCHANGED <<queue, by_id, status, cancelled, failed, valid>>
  BY DEF DeviceAck, server
<1>2. /\ DeviceInv'
      /\ received' \in Seq(Commands) /\ inbox' \in Seq(Commands)
      /\ ToSet(received) \subseteq ToSet(received')
      /\ c \in ToSet(received') /\ Named(c)
  BY <1>1, TakeUpKeeps
<1> HIDE DEF c
<1>3. TypeOK'
  <2>1. [Idle EXCEPT !.pc = "ack", !.cmd = c] \in Request
    <3>1. Idle \in Request
      BY IdleType
    <3> QED
      BY <1>2, <3>1 DEF Request, Named
  <2> QED
    BY <1>1, <1>2, <2>1 DEF Inv, TypeOK
<1>4. req'[t].pc = "ack" /\ req'[t].cmd = c /\ req'[t].todo = <<>>
  BY <1>1 DEF Inv, TypeOK, Idle
<1>5. RequestInv(t)' /\ ~Polling(t)'
  BY <1>1, <1>2, <1>4 DEF RequestInv, Polling, Named
<1>6. \A u \in Threads : RequestInv(u)'
  BY <1>1, <1>2, <1>5, OthersKeep DEF Inv, TypeOK, Onward
<1>7. OpenPollInv'
  BY <1>1, <1>5 DEF OpenPollInv
<1>8. QueueInv' /\ AckedWereReceived'
  BY <1>1, <1>2 DEF Inv, QueueInv, Named, AckedWereReceived
<1> QED
  BY <1>2, <1>3, <1>6, <1>7, <1>8 DEF Inv

LEMMA LoseAckKeeps ==
    ASSUME Inv, LoseAck
    PROVE  Inv'
<1>1. /\ TakeUp /\ call = NoThread /\ failed' = TRUE
      /\ UNCHANGED <<queue, by_id, status, req, call, cancelled, valid>>
  BY DEF LoseAck, TakeUp, server
<1>2. /\ DeviceInv'
      /\ received' \in Seq(Commands) /\ inbox' \in Seq(Commands)
      /\ ToSet(received) \subseteq ToSet(received')
  BY <1>1, TakeUpKeeps
<1>3. TypeOK'
  BY <1>1, <1>2 DEF Inv, TypeOK
<1>4. \A u \in Threads : RequestInv(u)'
  BY <1>1, <1>2, OthersKeep DEF Inv, Onward
<1>5. OpenPollInv'
  BY <1>1, NothingAssumption DEF OpenPollInv
<1>6. QueueInv' /\ AckedWereReceived'
  BY <1>1, <1>2 DEF Inv, QueueInv, Named, AckedWereReceived
<1> QED
  BY <1>2, <1>3, <1>4, <1>5, <1>6 DEF Inv

LEMMA DevicePollKeeps ==
    ASSUME Inv, NEW t \in Threads, DevicePoll(t)
    PROVE  Inv'
<1>1. /\ inbox = <<>> /\ call' = t
      /\ req' = [req EXCEPT ![t] = [Idle EXCEPT !.pc = "called"]]
      /\ UNCHANGED <<queue, by_id, status, inbox, received, cancelled, failed, valid>>
  BY DEF DevicePoll, server
<1>2. TypeOK'
  <2>1. [Idle EXCEPT !.pc = "called"] \in Request
    <3>1. Idle \in Request
      BY IdleType
    <3> QED
      BY <3>1 DEF Request
  <2> QED
    BY <1>1, <2>1 DEF Inv, TypeOK
<1>3. req'[t].pc = "called" /\ req'[t].at = 0 /\ req'[t].todo = <<>>
  BY <1>1 DEF Inv, TypeOK, Idle
<1>4. RequestInv(t)'
  <2>1. Len(queue') \in Nat
    BY <1>1 DEF Inv, TypeOK
  <2>2. InOrder(queue', <<>>) /\ Closed(queue', status', ToSet(<<>>))
    BY DEF InOrder, Closed, ToSet
  <2> QED
    BY <1>3, <2>1, <2>2 DEF RequestInv
<1>5. \A u \in Threads : RequestInv(u)'
  BY <1>1, <1>4, OthersKeep DEF Inv, TypeOK, Onward
<1>6. OpenPollInv'
  <2>1. Follows(queue', received', <<>>)
    BY DEF Follows
  <2> QED
    BY <1>1, <1>3, <2>1 DEF OpenPollInv
<1>7. QueueInv' /\ DeviceInv' /\ AckedWereReceived'
  BY <1>1 DEF Inv, QueueInv, DeviceInv, Named, AckedWereReceived
<1> QED
  BY <1>2, <1>5, <1>6, <1>7 DEF Inv

LEMMA BreakCallKeeps ==
    ASSUME Inv, BreakCall
    PROVE  Inv'
<1>1. /\ call' = NoThread /\ failed' = TRUE
      /\ UNCHANGED <<queue, by_id, status, req, inbox, received, cancelled, valid>>
  BY DEF BreakCall, server
<1>2. TypeOK'
  BY <1>1 DEF Inv, TypeOK
<1>3. \A u \in Threads : RequestInv(u)'
  BY <1>1, OthersKeep DEF Inv, Onward
<1>4. OpenPollInv'
  BY <1>1, NothingAssumption DEF OpenPollInv
<1>5. QueueInv' /\ DeviceInv' /\ AckedWereReceived'
  BY <1>1 DEF Inv, QueueInv, DeviceInv, Named, AckedWereReceived
<1> QED
  BY <1>2, <1>3, <1>4, <1>5 DEF Inv

(* A restart empties the list, so that nothing is in an order any more.     *)
LEMMA RestartKeeps ==
    ASSUME Inv, Restart
    PROVE  Inv'
<1>1. /\ queue' = <<>> /\ by_id' = {} /\ call' = NoThread
      /\ status' = [c \in Commands |-> IF status[c] = "none" THEN "none" ELSE "lost"]
      /\ req' = [t \in Threads |-> Idle]
      /\ UNCHANGED <<inbox, received, cancelled, failed, valid>>
  BY DEF Restart
<1>2. TypeOK'
  BY <1>1, IdleType DEF Inv, TypeOK, Statuses
<1>3. \A u \in Threads : RequestInv(u)'
  BY <1>1, IdleRequest DEF Idle
<1>4. OpenPollInv'
  BY <1>1, NothingAssumption DEF OpenPollInv
<1>5. \A c : Named(c) => c \in Commands /\ status'[c] # "none"
  BY <1>1 DEF Named
<1>6. QueueInv' /\ AckedWereReceived'
  BY <1>1 DEF QueueInv, AckedWereReceived
<1>7. DeviceInv'
  <2>1. \A s, S : /\ InOrder(queue', s) /\ Follows(queue', received, s)
                  /\ Closed(queue', status', S)
    BY <1>1 DEF InOrder, Follows, Closed
  <2> QED
    BY <1>1, <1>5, <2>1 DEF Inv, DeviceInv, Named
<1> QED
  BY <1>2, <1>3, <1>4, <1>6, <1>7 DEF Inv

-----------------------------------------------------------------------------
LEMMA InitInv == Init => Inv
<1> SUFFICES ASSUME Init PROVE Inv
  OBVIOUS
<1>1. TypeOK
  <2>1. Idle \in Request /\ <<>> \in Seq(Commands) /\ "none" \in Statuses
    BY IdleType DEF Statuses
  <2> QED
    BY <2>1 DEF Init, TypeOK
<1>2. \A t \in Threads : RequestInv(t) /\ ~Polling(t)
  BY DEF Init, Idle, RequestInv, Polling
<1>3. QueueInv /\ OpenPollInv /\ AckedWereReceived
  BY <1>2 DEF Init, QueueInv, OpenPollInv, AckedWereReceived
<1>4. DeviceInv
  BY DEF Init, DeviceInv, InOrder, Follows, Closed
<1> QED
  BY <1>1, <1>2, <1>3, <1>4 DEF Inv

LEMMA NextInv ==
    ASSUME Inv, [Next]_vars
    PROVE  Inv'
<1>1. CASE UNCHANGED vars
  BY <1>1 DEF vars, server, device, Inv, TypeOK, QueueInv, RequestInv, OpenPollInv, DeviceInv,
     AckedWereReceived, Named, Polling, Pending
<1>2. ASSUME NEW t \in Threads, Handler(t) PROVE Inv'
  BY <1>2, EnqueueIndexKeeps, RefuseCallKeeps, PollAuthorisedKeeps, PollScanKeeps, PollScannedKeeps,
     PollDeliverKeeps, PollRespondKeeps, AckCommandKeeps, CancelKeeps DEF Handler
<1>3. ASSUME NEW t \in Threads, Admin(t) PROVE Inv'
  BY <1>3, EnqueueAppendKeeps, CancelKeeps DEF Admin
<1>4. CASE Device
  BY <1>4, DevicePollKeeps, DeviceAckKeeps DEF Device
<1> QED
  BY <1>1, <1>2, <1>3, <1>4, BreakCallKeeps, LoseAckKeeps, RevokeKeyKeeps, RestartKeeps DEF Next

LEMMA InvAlways == Spec => []Inv
<1>1. Init => Inv
  BY InitInv
<1>2. Inv /\ [Next]_vars => Inv'
  BY NextInv
<1> QED
  BY <1>1, <1>2, PTL DEF Spec

(* The list and the index hold commands, each of which has a status, and a  *)
(* poll counts its way through them.                                        *)
THEOREM TypeCorrect == Spec => []TypeOK
<1>1. Inv => TypeOK
  BY DEF Inv
<1> QED
  BY <1>1, InvAlways, PTL

(* What command_history shows as acked, the device has taken up, whatever   *)
(* answers and acknowledgements are lost and however polls overlap.         *)
THEOREM AckedWereTakenUp == Spec => []AckedWereReceived
<1>1. Inv => AckedWereReceived
  BY DEF Inv
<1> QED
  BY <1>1, InvAlways, PTL

(* The device takes commands up in the order of the list of CommandQueue,   *)
(* although each poll goes through the list while others change it.         *)
THEOREM TakenUpInOrder == Spec => []ReceivedInOrder
<1>1. Inv => ReceivedInOrder
  BY DEF Inv, DeviceInv, InOrder, ReceivedInOrder
<1> QED
  BY <1>1, InvAlways, PTL

=============================================================================
