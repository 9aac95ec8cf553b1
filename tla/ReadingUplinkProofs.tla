------------------------ MODULE ReadingUplinkProofs ------------------------
(* Proofs about ReadingUplink, for every number of devices, readings and    *)
(* attempts, every limit and every assignment of addresses.                 *)
EXTENDS ReadingUplink, FiniteSetTheorems, TLAPS

(* What the entries of an address have to do with its admissions: an        *)
(* admission is an entry for as long as it is younger than the window.      *)
Kept(c) ==
    /\ admitted[c] \subseteq Entry
    /\ IsFiniteSet(admitted[c])
    /\ clients[c] \subseteq admitted[c]
    /\ \A a \in admitted[c] : a.at <= now /\ (now - a.at < Window => a \in clients[c])

(* Admissions in the window that begins at time t.                          *)
Within(rows, t) == {a \in rows : t <= a.at /\ a.at < t + Window}

Inv ==
    /\ now \in Nat /\ serial \in Nat
    /\ clients \in [Clients -> SUBSET Entry] /\ admitted \in [Clients -> SUBSET Entry]
    /\ \A c \in Clients : Kept(c)
    /\ \A c \in Clients : \A t \in Nat : Cardinality(Within(admitted[c], t)) <= MaxRequests

(* Adding the admission: a window it falls into holds, besides it, only     *)
(* entries that dispatch has just counted.                                  *)
LEMMA AdmitWindow ==
    ASSUME Inv, NEW c \in Clients, Admit(c), NEW t \in Nat
    PROVE  Cardinality(Within(admitted'[c], t)) <= MaxRequests
<1> DEFINE entry == [n |-> serial, at |-> now]
<1>1. admitted'[c] = admitted[c] \cup {entry}
  BY DEF Inv, Admit
<1>2. Kept(c) /\ now \in Nat /\ MaxRequests \in Nat /\ Window \in Nat
  BY LimitAssumption DEF Inv
<1>3. entry.at = now
  OBVIOUS
<1> HIDE DEF entry
<1>4. CASE t <= now /\ now < t + Window
  <2>1. Within(admitted'[c], t) \subseteq Recent(c) \cup {entry}
    <3> SUFFICES ASSUME NEW a \in admitted[c], t <= a.at, a.at < t + Window
                 PROVE  a \in Recent(c)
      BY <1>1 DEF Within
    <3>1. a.at \in Nat /\ a.at <= now /\ (now - a.at < Window => a \in clients[c])
      BY <1>2 DEF Kept, Entry
    <3>2. now - a.at < Window
      BY <1>2, <1>4, <3>1
    <3> QED
      BY <3>1, <3>2 DEF Recent
  <2>2. Recent(c) \subseteq admitted[c]
    BY <1>2 DEF Recent, Kept
  <2>3. IsFiniteSet(Recent(c))
    BY <1>2, <2>2, FS_Subset DEF Kept
  <2>4. /\ IsFiniteSet(Recent(c) \cup {entry})
        /\ Cardinality(Recent(c) \cup {entry}) <= Cardinality(Recent(c)) + 1
        /\ Cardinality(Recent(c)) \in Nat
    <3>1. Cardinality(Recent(c)) \in Nat
      BY <2>3, FS_CardinalityType
    <3>2. /\ IsFiniteSet(Recent(c) \cup {entry})
          /\ Cardinality(Recent(c) \cup {entry}) =
               IF entry \in Recent(c) THEN Cardinality(Recent(c)) ELSE Cardinality(Recent(c)) + 1
      BY <2>3, FS_AddElement
    <3> QED
      BY <3>1, <3>2
  <2>5. Cardinality(Recent(c)) < MaxRequests
    BY DEF Admit, Admittable
  <2>6. Cardinality(Within(admitted'[c], t)) <= Cardinality(Recent(c) \cup {entry})
    BY <2>1, <2>4, FS_Subset
  <2>7. Cardinality(Within(admitted'[c], t)) \in Nat /\ Cardinality(Recent(c) \cup {entry}) \in Nat
    BY <2>1, <2>4, FS_Subset, FS_CardinalityType
  <2> QED
    BY <1>2, <2>4, <2>5, <2>6, <2>7
<1>5. CASE ~(t <= now /\ now < t + Window)
  <2>1. Within(admitted'[c], t) = Within(admitted[c], t)
    BY <1>1, <1>3, <1>5 DEF Within
  <2> QED
    BY <2>1 DEF Inv
<1> QED
  BY <1>4, <1>5

LEMMA AdmitKeeps ==
    ASSUME Inv, NEW c \in Clients, Admit(c)
    PROVE  Inv'
<1> DEFINE entry == [n |-> serial, at |-> now]
<1>1. /\ clients' = [clients EXCEPT ![c] = Recent(c) \cup {entry}]
      /\ admitted' = [admitted EXCEPT ![c] = admitted[c] \cup {entry}]
      /\ now' = now /\ serial' = serial + 1 /\ now \in Nat /\ serial \in Nat
  BY DEF Admit, Inv
<1>2. entry \in Entry /\ entry.at = now
  BY <1>1 DEF Entry
<1> HIDE DEF entry
<1>3. clients' \in [Clients -> SUBSET Entry] /\ admitted' \in [Clients -> SUBSET Entry]
  BY <1>1, <1>2 DEF Inv, Recent
<1>4. \A d \in Clients \ {c} : clients'[d] = clients[d] /\ admitted'[d] = admitted[d]
  BY <1>1 DEF Inv
<1>5. /\ clients'[c] = Recent(c) \cup {entry}
      /\ admitted'[c] = admitted[c] \cup {entry}
  BY <1>1 DEF Inv
<1>6. Kept(c)'
  <2>1. IsFiniteSet(admitted[c] \cup {entry})
    BY FS_AddElement DEF Inv, Kept
  <2>2. ASSUME NEW a \in admitted[c] \cup {entry}
        PROVE  a.at <= now /\ (now - a.at < Window => a \in Recent(c) \cup {entry})
    BY <1>1, <1>2 DEF Inv, Kept, Recent, Entry
  <2>3. Recent(c) \subseteq admitted[c] /\ admitted[c] \subseteq Entry
    BY DEF Inv, Kept, Recent
  <2> QED
    BY <1>1, <1>2, <1>5, <2>1, <2>2, <2>3 DEF Kept
<1>7. \A d \in Clients \ {c} : Kept(d)'
  BY <1>1, <1>4 DEF Inv, Kept
<1>8. ASSUME NEW d \in Clients, NEW t \in Nat
      PROVE  Cardinality(Within(admitted'[d], t)) <= MaxRequests
  <2>1. CASE d = c
    BY <2>1, AdmitWindow
  <2>2. CASE d # c
    BY <1>4, <2>2 DEF Inv
  <2> QED
    BY <2>1, <2>2
<1>9. now' \in Nat /\ serial' \in Nat
  BY <1>1
<1> QED
  BY <1>3, <1>6, <1>7, <1>8, <1>9 DEF Inv, Within

LEMMA RefuseKeeps ==
    ASSUME Inv, NEW c \in Clients, Refuse(c)
    PROVE  Inv'
<1>1. /\ clients' = [clients EXCEPT ![c] = Recent(c)]
      /\ UNCHANGED <<now, serial, admitted>>
  BY DEF Refuse
<1>2. \A d \in Clients : Kept(d)'
  <2>1. \A d \in Clients \ {c} : clients'[d] = clients[d]
    BY <1>1 DEF Inv
  <2>2. clients'[c] = Recent(c)
    BY <1>1 DEF Inv
  <2>3. Kept(c)'
    BY <1>1, <2>2 DEF Inv, Kept, Recent
  <2> QED
    BY <1>1, <2>1, <2>3 DEF Inv, Kept
<1>3. clients' \in [Clients -> SUBSET Entry]
  BY <1>1 DEF Inv, Recent
<1> QED
  BY <1>1, <1>2, <1>3 DEF Inv, Within

LEMMA TickKeeps ==
    ASSUME Inv, Tick
    PROVE  Inv'
<1>1. ASSUME NEW c \in Clients PROVE Kept(c)'
  <2>1. Kept(c) /\ now \in Nat /\ now' = now + 1 /\ clients' = clients /\ admitted' = admitted
    BY DEF Inv, Tick
  <2>2. \A a \in admitted[c] : a.at \in Nat
    BY <2>1 DEF Kept, Entry
  <2>3. \A a \in admitted'[c] : a.at <= now' /\ (now' - a.at < Window => a \in clients'[c])
    BY <2>1, <2>2, LimitAssumption DEF Kept
  <2>4. /\ admitted'[c] \subseteq Entry
        /\ IsFiniteSet(admitted'[c])
        /\ clients'[c] \subseteq admitted'[c]
    BY <2>1 DEF Kept
  <2> QED
    BY <2>3, <2>4 DEF Kept
<1> QED
  BY <1>1 DEF Inv, Tick, Within

LEMMA EmptyWithin == \A t \in Nat : Cardinality(Within({}, t)) <= MaxRequests
<1>1. \A t \in Nat : Within({}, t) = {}
  BY DEF Within
<1> QED
  BY <1>1, FS_EmptySet, LimitAssumption

LEMMA ForgetKeeps ==
    ASSUME Inv, Forget
    PROVE  Inv'
<1>1. \A c \in Clients : clients'[c] = {} /\ admitted'[c] = {}
  BY DEF Forget
<1>2. \A c \in Clients : Kept(c)'
  BY <1>1, FS_EmptySet DEF Kept
<1>3. \A c \in Clients : \A t \in Nat : Cardinality(Within(admitted'[c], t)) <= MaxRequests
  BY <1>1, EmptyWithin
<1>4. /\ now' \in Nat /\ serial' \in Nat
      /\ clients' \in [Clients -> SUBSET Entry] /\ admitted' \in [Clients -> SUBSET Entry]
  BY DEF Forget, Inv
<1> QED
  BY <1>2, <1>3, <1>4 DEF Inv, Within

LEMMA InitInv == LimiterInit => Inv
<1> SUFFICES ASSUME LimiterInit PROVE Inv
  OBVIOUS
<1>1. \A c \in Clients : clients[c] = {} /\ admitted[c] = {}
  BY DEF LimiterInit
<1>2. \A c \in Clients : Kept(c)
  BY <1>1, FS_EmptySet DEF Kept
<1>3. \A c \in Clients : \A t \in Nat : Cardinality(Within(admitted[c], t)) <= MaxRequests
  BY <1>1, EmptyWithin
<1> QED
  BY <1>2, <1>3 DEF Inv, LimiterInit

LEMMA InvStep == Inv /\ [LimiterNext]_limiter => Inv'
<1> SUFFICES ASSUME Inv, [LimiterNext]_limiter PROVE Inv'
  OBVIOUS
<1>1. CASE UNCHANGED limiter
  BY <1>1 DEF limiter, Inv, Kept, Within
<1> QED
  BY <1>1, AdmitKeeps, RefuseKeeps, TickKeeps, ForgetKeeps DEF LimiterNext

LEMMA InvCorrect == LimiterSpec => []Inv
BY InitInv, InvStep, PTL DEF LimiterSpec

(* No address is admitted more than MaxRequests times in any window.        *)
THEOREM WindowCorrect == LimiterSpec => []WindowRespected
<1>1. Inv => WindowRespected
  BY DEF Inv, Kept, Entry, Within, WindowRespected
<1> QED
  BY <1>1, InvCorrect, PTL

-----------------------------------------------------------------------------

(* Whatever the devices and the handlers do, the limiter's entries change   *)
(* as RateLimiter says.                                                     *)
LEMMA LimiterStep == (\A h \in handlers : h.dev \in Devices) /\ [Next]_vars => [LimiterNext]_limiter
<1> SUFFICES ASSUME \A h \in handlers : h.dev \in Devices, [Next]_vars
             PROVE  [LimiterNext]_limiter
  OBVIOUS
<1>1. CASE UNCHANGED vars
  BY <1>1 DEF vars
<1>2. ASSUME NEW d \in Devices, StartReading(d) \/ Retry(d) \/ BreakCall(d)
      PROVE  UNCHANGED limiter
  BY <1>2 DEF StartReading, Retry, Submit, BreakCall
<1>3. ASSUME NEW h \in handlers,
             Dispatch(h) \/ Authenticate(h) \/ CommitReading(h) \/ FinishSubmit(h)
      PROVE  [LimiterNext]_limiter
  <2>1. CASE Dispatch(h)
    <3>1. Address[h.dev] \in Clients
      BY AddressAssumption
    <3>2. Admit(Address[h.dev]) \/ Refuse(Address[h.dev])
      BY <2>1 DEF Dispatch
    <3> QED
      BY <3>1, <3>2 DEF LimiterNext
  <2>2. CASE ~Dispatch(h)
    BY <1>3, <2>2 DEF Authenticate, CommitReading, FinishSubmit
  <2> QED
    BY <2>1, <2>2
<1>4. CASE Restart
  BY <1>4 DEF Restart, LimiterNext
<1>5. CASE Clock
  BY <1>5 DEF Clock, LimiterNext
<1> QED
  BY <1>1, <1>2, <1>3, <1>4, <1>5 DEF Next, Handler

-----------------------------------------------------------------------------
(* The device's loop has been at s, or is there now.                        *)
Reached(s) ==
    \/ s.reading < loop[s.dev].reading
    \/ s.reading = loop[s.dev].reading /\ s.attempt <= loop[s.dev].attempt

(* The device is through with the reading r.                                *)
Through(r) ==
    \/ r.reading < loop[r.dev].reading
    \/ r.reading = loop[r.dev].reading /\ loop[r.dev].pc = "ready"

Awaited(s) == loop[s.dev].pc = "waiting" /\ CurrentOf(s.dev) = s

HandlerType ==
    [dev : Devices, reading : 1..MaxReadings, attempt : 1..MaxAttempts, ts : Nat,
     pc : {"arrived", "admitted", "verified", "committed"}]

UplinkType ==
    /\ loop \in [Devices -> Loop]
    /\ \A d \in Devices : loop[d].pc # "ready" => CurrentOf(d) \in Submission
    /\ handlers \subseteq HandlerType
    /\ alerted \subseteq Submission
    /\ committed \subseteq Submission
    /\ unanswered \subseteq Submission
    /\ sent \subseteq Reading
    /\ failed \subseteq Reading

(* One handler per submission; it has committed exactly if its submission   *)
(* is committed; and somebody waits for its answer, or it is unanswered.    *)
HandlersInv ==
    /\ \A h \in handlers :
         /\ Reached(SubmissionOf(h))
         /\ Awaited(SubmissionOf(h)) \/ SubmissionOf(h) \in unanswered
         /\ h.pc = "committed" <=> SubmissionOf(h) \in committed
    /\ \A g, h \in handlers : SubmissionOf(g) = SubmissionOf(h) => g = h

(* A committed submission that is not unanswered was counted as sent, or is *)
(* still waited for; of the reading at hand it is the latest attempt.       *)
KnownInv ==
    /\ \A s \in committed : Reached(s)
    /\ \A s \in committed \ unanswered :
         /\ ReadingOf(s) \in sent \/ Awaited(s)
         /\ s.reading = loop[s.dev].reading => s.attempt = loop[s.dev].attempt

UplinkInv ==
    /\ UplinkType
    /\ HandlersInv
    /\ KnownInv
    /\ \A r \in sent \cup failed : Through(r)
    /\ SentWasStored
    /\ StoredAsReported

-----------------------------------------------------------------------------
(* A new attempt comes after everything the device has reached.             *)
LEMMA SubmitKeeps ==
    ASSUME UplinkInv, now \in Nat, NEW d \in Devices,
           NEW reading \in 1..MaxReadings, NEW attempt \in 1..MaxAttempts,
           Submit(d, reading, attempt), loop[d].pc # "waiting",
           \/ loop[d].pc = "ready" /\ reading = loop[d].reading + 1
           \/ loop[d].pc = "backoff" /\ reading = loop[d].reading /\ attempt = loop[d].attempt + 1
    PROVE  UplinkInv'
<1>0. PICK new : new = [dev |-> d, reading |-> reading, attempt |-> attempt, ts |-> now, pc |-> "arrived"]
  OBVIOUS
<1>1. /\ loop' = [loop EXCEPT ![d] =
                    [pc |-> "waiting", reading |-> reading, attempt |-> attempt]]
      /\ handlers' = handlers \cup {new}
      /\ UNCHANGED <<sent, failed, alerted, committed, unanswered>>
  BY <1>0 DEF Submit
<1>2. loop \in [Devices -> Loop] /\ handlers \subseteq HandlerType
  BY DEF UplinkInv, UplinkType
<1>3. /\ loop'[d] = [pc |-> "waiting", reading |-> reading, attempt |-> attempt]
      /\ loop'[d].pc = "waiting" /\ loop'[d].reading = reading /\ loop'[d].attempt = attempt
      /\ \A x \in Devices \ {d} : loop'[x] = loop[x]
  BY <1>1, <1>2
<1>4. new \in HandlerType
  BY <1>0 DEF HandlerType
<1>5. SubmissionOf(new) = [dev |-> d, reading |-> reading, attempt |-> attempt]
  BY <1>0 DEF SubmissionOf
<1>6. /\ reading \in Nat /\ attempt \in Nat /\ 1 <= reading /\ 1 <= attempt
      /\ \A x \in Devices : loop[x].reading \in Nat /\ loop[x].attempt \in Nat
  BY <1>2, AttemptsAssumption DEF Loop
<1>7. new.pc = "arrived" /\ new.dev = d
  BY <1>0
<1>8. UplinkType'
  <2>1. [pc |-> "waiting", reading |-> reading, attempt |-> attempt] \in Loop
    BY AttemptsAssumption DEF Loop
  <2>2. loop' \in [Devices -> Loop]
    BY <1>1, <1>2, <2>1
  <2>3. \A x \in Devices : loop'[x].pc # "ready" => CurrentOf(x)' \in Submission
    BY <1>3 DEF UplinkInv, UplinkType, CurrentOf, Submission
  <2> QED
    BY <1>1, <1>2, <1>4, <2>2, <2>3 DEF UplinkInv, UplinkType
(* Nothing that was reached is the new submission or awaited.               *)
<1>9. ASSUME NEW s \in Submission, Reached(s)
      PROVE  /\ Reached(s)'
             /\ s # SubmissionOf(new)
             /\ Awaited(s) => Awaited(s)'
  <2>1. s.dev \in Devices /\ s.reading \in Nat /\ s.attempt \in Nat
    BY AttemptsAssumption DEF Submission
  <2>2. CASE s.dev = d
    <3>1. s.reading < reading \/ (s.reading = reading /\ s.attempt < attempt)
      BY <1>6, <1>9, <2>1, <2>2 DEF Reached
    <3>2. ~Awaited(s)
      BY <2>2 DEF Awaited
    <3>3. Reached(s)'
      BY <1>3, <1>6, <2>1, <2>2, <3>1 DEF Reached
    <3>4. s # SubmissionOf(new)
      BY <1>5, <1>6, <2>1, <3>1
    <3> QED
      BY <3>2, <3>3, <3>4
  <2>3. CASE s.dev # d
    BY <1>3, <1>5, <1>9, <2>1, <2>3 DEF Reached, Awaited, CurrentOf
  <2> QED
    BY <2>2, <2>3
<1>10. \A h \in handlers : SubmissionOf(h) \in Submission
  BY <1>2 DEF HandlerType, SubmissionOf, Submission
<1>11. HandlersInv'
  <2>1. ASSUME NEW h \in handlers
        PROVE  /\ Reached(SubmissionOf(h))'
               /\ Awaited(SubmissionOf(h))' \/ SubmissionOf(h) \in unanswered'
               /\ h.pc = "committed" <=> SubmissionOf(h) \in committed'
               /\ SubmissionOf(h) # SubmissionOf(new)
    BY <1>1, <1>9, <1>10 DEF UplinkInv, HandlersInv
  <2>2. Reached(SubmissionOf(new))' /\ Awaited(SubmissionOf(new))'
    <3>1. Awaited(SubmissionOf(new))'
      BY <1>3, <1>5 DEF Awaited, CurrentOf, SubmissionOf
    <3>2. /\ SubmissionOf(new)'.dev = d /\ SubmissionOf(new)'.reading = reading
          /\ SubmissionOf(new)'.attempt = attempt
      BY <1>5 DEF SubmissionOf
    <3> QED
      BY <1>3, <1>6, <3>1, <3>2 DEF Reached
  <2>3. SubmissionOf(new) \notin committed /\ committed' = committed
    BY <1>1, <1>9 DEF UplinkInv, UplinkType, KnownInv
  <2>4. \A g, h \in handlers' : SubmissionOf(g) = SubmissionOf(h) => g = h
    BY <1>1, <2>1 DEF UplinkInv, HandlersInv
  <2>5. ASSUME NEW h \in handlers'
        PROVE  /\ Reached(SubmissionOf(h))'
               /\ Awaited(SubmissionOf(h))' \/ SubmissionOf(h) \in unanswered'
               /\ h.pc = "committed" <=> SubmissionOf(h) \in committed'
    <3>1. CASE h \in handlers
      BY <2>1, <3>1
    <3>2. CASE h = new
      BY <1>7, <2>2, <2>3, <3>2
    <3> QED
      BY <1>1, <3>1, <3>2
  <2> QED
    BY <2>4, <2>5 DEF HandlersInv, SubmissionOf
<1>12. ASSUME NEW r \in Reading, Through(r)
       PROVE  Through(r)'
  <2>1. r.dev \in Devices /\ r.reading \in Nat
    BY AttemptsAssumption DEF Reading
  <2>2. CASE r.dev = d
    BY <1>3, <1>6, <1>12, <2>1, <2>2 DEF Through
  <2>3. CASE r.dev # d
    BY <1>3, <1>12, <2>1, <2>3 DEF Through
  <2> QED
    BY <2>2, <2>3
<1>13. KnownInv'
  <2>1. ASSUME NEW s \in committed
        PROVE  Reached(s)'
    BY <1>9 DEF UplinkInv, UplinkType, KnownInv
  <2>2. ASSUME NEW s \in committed \ unanswered
        PROVE  /\ ReadingOf(s) \in sent \/ Awaited(s)'
               /\ s.reading = loop'[s.dev].reading => s.attempt = loop'[s.dev].attempt
    <3>1. /\ s \in Submission /\ Reached(s)
          /\ ReadingOf(s) \in sent \/ Awaited(s)
      BY DEF UplinkInv, UplinkType, KnownInv
    <3>2. CASE s.dev # d
      BY <1>3, <1>9, <3>1, <3>2 DEF UplinkInv, KnownInv, Submission
    <3>3. CASE s.dev = d
      <4>1. ReadingOf(s) \in sent
        BY <3>1, <3>3 DEF Awaited
      <4>2. Through(ReadingOf(s)) /\ ReadingOf(s).reading = s.reading /\ ReadingOf(s).dev = d
        BY <3>3, <4>1 DEF UplinkInv, ReadingOf
      <4>3. s.reading < reading
        BY <1>2, <1>6, <3>1, <4>2 DEF Through, Submission, Loop
      <4> QED
        BY <1>3, <1>6, <3>1, <3>3, <4>1, <4>3 DEF Submission
    <3> QED
      BY <3>2, <3>3
  <2> QED
    BY <1>1, <2>1, <2>2 DEF KnownInv, ReadingOf
<1>14. \A r \in sent' \cup failed' : Through(r)'
  BY <1>1, <1>12 DEF UplinkInv, UplinkType
<1>15. SentWasStored' /\ StoredAsReported'
  BY <1>1 DEF UplinkInv, SentWasStored, StoredAsReported, ReadingOf
<1> QED
  BY <1>8, <1>11, <1>13, <1>14, <1>15 DEF UplinkInv

-----------------------------------------------------------------------------
(* Devices may give up an attempt if it is not committed, or unanswered.    *)
LEMMA FailKeeps ==
    ASSUME UplinkInv, NEW ds \in SUBSET Devices, Fail(ds),
           \A d \in ds : /\ loop[d].pc = "waiting"
                         /\ CurrentOf(d) \in unanswered' \/ CurrentOf(d) \notin committed,
           handlers' \subseteq handlers,
           \A h \in handlers' :
             h.dev \in ds /\ Awaited(SubmissionOf(h)) => SubmissionOf(h) \in unanswered',
           committed' = committed,
           alerted \subseteq alerted', alerted' \subseteq Submission,
           unanswered \subseteq unanswered', unanswered' \subseteq Submission
    PROVE  UplinkInv'
<1>1. loop \in [Devices -> Loop] /\ handlers \subseteq HandlerType
  BY DEF UplinkInv, UplinkType
<1>2. ASSUME NEW d \in Devices
      PROVE  /\ loop'[d] \in Loop
             /\ loop'[d].reading = loop[d].reading /\ loop'[d].attempt = loop[d].attempt
             /\ d \in ds => loop'[d].pc = IF LastAttempt(loop[d].attempt) THEN "ready" ELSE "backoff"
             /\ d \notin ds => loop'[d] = loop[d]
  <2>1. loop'[d] = IF d \in ds THEN AfterFailure(loop[d]) ELSE loop[d]
    BY DEF Fail
  <2>2. loop[d] \in Loop
    BY <1>1
  <2>3. CASE d \in ds
    BY <2>1, <2>2, <2>3 DEF AfterFailure, Loop
  <2>4. CASE d \notin ds
    BY <2>1, <2>2, <2>4
  <2> QED
    BY <2>3, <2>4
<1>3. /\ loop' \in [Devices -> Loop]
      /\ failed' = failed \cup FailedBy(ds)
      /\ sent' = sent
  BY <1>2 DEF Fail
<1>4. ASSUME NEW r \in FailedBy(ds)
      PROVE  /\ r \in Reading /\ r.dev \in ds
             /\ r.reading = loop[r.dev].reading
             /\ LastAttempt(loop[r.dev].attempt)
  <2>1. PICK d \in ds : /\ r = [dev |-> d, reading |-> loop[d].reading]
                        /\ LastAttempt(loop[d].attempt)
    BY DEF FailedBy
  <2>2. CurrentOf(d) \in Submission
    BY DEF UplinkInv, UplinkType
  <2> QED
    BY <2>1, <2>2 DEF CurrentOf, Submission, Reading
<1>5. ASSUME NEW s \in Submission
      PROVE  /\ Reached(s)' <=> Reached(s)
             /\ Awaited(s)' <=> Awaited(s) /\ s.dev \notin ds
  <2>1. s.dev \in Devices
    BY DEF Submission
  <2>2. Reached(s)' <=> Reached(s)
    BY <1>2, <2>1 DEF Reached
  <2>3. CASE s.dev \in ds
    BY <1>2, <2>1, <2>2, <2>3 DEF Awaited
  <2>4. CASE s.dev \notin ds
    BY <1>2, <2>1, <2>2, <2>4 DEF Awaited, CurrentOf
  <2> QED
    BY <2>3, <2>4
<1>6. ASSUME NEW r \in Reading, Through(r)
      PROVE  Through(r)' /\ r \notin FailedBy(ds)
  <2>1. r.dev \in Devices /\ r.reading \in Nat /\ loop[r.dev].reading \in Nat
    BY <1>1, AttemptsAssumption DEF Reading, Loop
  <2>2. CASE r.reading < loop[r.dev].reading
    BY <1>2, <1>4, <2>1, <2>2 DEF Through
  <2>3. CASE loop[r.dev].pc = "ready" /\ r.reading = loop[r.dev].reading
    <3>1. r.dev \notin ds
      BY <2>3
    <3> QED
      BY <1>2, <1>4, <2>1, <2>3, <3>1 DEF Through
  <2> QED
    BY <1>6, <2>2, <2>3 DEF Through
<1>7. \A h \in handlers : SubmissionOf(h) \in Submission /\ SubmissionOf(h).dev = h.dev
  BY <1>1 DEF HandlerType, SubmissionOf, Submission
<1>8. UplinkType'
  <2>1. \A d \in Devices : loop'[d].pc # "ready" => CurrentOf(d)' \in Submission
    BY <1>2 DEF UplinkInv, UplinkType, CurrentOf
  <2> QED
    BY <1>3, <1>4, <2>1 DEF UplinkInv, UplinkType
<1>9. HandlersInv'
  <2>1. ASSUME NEW h \in handlers'
        PROVE  /\ Reached(SubmissionOf(h))'
               /\ Awaited(SubmissionOf(h))' \/ SubmissionOf(h) \in unanswered'
               /\ h.pc = "committed" <=> SubmissionOf(h) \in committed'
    BY <1>5, <1>7 DEF UplinkInv, HandlersInv
  <2>2. \A g, h \in handlers' : SubmissionOf(g) = SubmissionOf(h) => g = h
    BY DEF UplinkInv, HandlersInv
  <2> QED
    BY <2>1, <2>2 DEF HandlersInv, SubmissionOf
(* What is known is not the attempt of a device that gives up.              *)
<1>10. ASSUME NEW s \in committed \ unanswered'
       PROVE  /\ s \in Submission /\ s \in committed \ unanswered
              /\ ReadingOf(s) \in sent \/ (Awaited(s) /\ s.dev \notin ds)
  <2>1. s \in Submission /\ s \in committed \ unanswered
    BY DEF UplinkInv, UplinkType
  <2>2. ReadingOf(s) \in sent \/ Awaited(s)
    BY <2>1 DEF UplinkInv, KnownInv
  <2>3. Awaited(s) => s.dev \notin ds
    BY DEF Awaited
  <2> QED
    BY <2>1, <2>2, <2>3
<1>11. KnownInv'
  <2>1. \A s \in committed : Reached(s)'
    BY <1>5 DEF UplinkInv, UplinkType, KnownInv
  <2>2. ASSUME NEW s \in committed \ unanswered'
        PROVE  /\ ReadingOf(s) \in sent \/ Awaited(s)'
               /\ s.reading = loop'[s.dev].reading => s.attempt = loop'[s.dev].attempt
    <3>1. s.dev \in Devices
      BY <1>10 DEF Submission
    <3>2. s.reading = loop[s.dev].reading => s.attempt = loop[s.dev].attempt
      BY <1>10 DEF UplinkInv, KnownInv
    <3> QED
      BY <1>2, <1>5, <1>10, <3>1, <3>2
  <2> QED
    BY <1>3, <2>1, <2>2 DEF KnownInv, ReadingOf
<1>12. ASSUME NEW r \in sent' \cup failed'
       PROVE  Through(r)'
  <2>1. CASE r \in sent \cup failed
    BY <1>6, <2>1 DEF UplinkInv, UplinkType
  <2>2. CASE r \in FailedBy(ds)
    BY <1>2, <1>4, <2>2 DEF Through
  <2> QED
    BY <1>3, <2>1, <2>2
<1>13. SentWasStored'
  <2>1. \A r \in sent : r \notin FailedBy(ds)
    BY <1>6 DEF UplinkInv, UplinkType
  <2> QED
    BY <1>3, <2>1 DEF UplinkInv, SentWasStored, ReadingOf
<1>14. StoredAsReported'
  <2>1. \A a, b \in committed \ unanswered' : ReadingOf(a) = ReadingOf(b) => a = b
    BY <1>10 DEF UplinkInv, StoredAsReported
  <2>2. ASSUME NEW s \in committed \ unanswered'
        PROVE  ReadingOf(s) \notin failed \cup FailedBy(ds)
    <3>1. ReadingOf(s) \notin failed
      BY <1>10 DEF UplinkInv, StoredAsReported
    <3>2. CASE ReadingOf(s) \in sent
      BY <1>6, <3>1, <3>2 DEF UplinkInv, UplinkType
    <3>3. CASE s.dev \notin ds
      BY <1>4, <3>1, <3>3 DEF ReadingOf
    <3> QED
      BY <1>10, <3>2, <3>3
  <2> QED
    BY <1>3, <2>1, <2>2 DEF StoredAsReported, ReadingOf
<1> QED
  BY <1>8, <1>9, <1>11, <1>12, <1>13, <1>14 DEF UplinkInv

-----------------------------------------------------------------------------
(* A handler goes on, with or without committing its submission.            *)
LEMMA AdvanceKeeps ==
    ASSUME UplinkInv, NEW h \in handlers, h.pc # "committed",
           NEW pc \in {"admitted", "verified", "committed"}, Advance(h, pc),
           committed' = committed \cup (IF pc = "committed" THEN {SubmissionOf(h)} ELSE {}),
           UNCHANGED <<device, alerted, unanswered>>
    PROVE  UplinkInv'
<1>0. PICK next : next = [h EXCEPT !.pc = pc]
  OBVIOUS
<1>1. /\ handlers' = (handlers \ {h}) \cup {next}
      /\ UNCHANGED <<loop, sent, failed, alerted, unanswered>>
  BY <1>0 DEF Advance, device
<1>2. /\ handlers \subseteq HandlerType /\ h \in HandlerType
      /\ next \in HandlerType
      /\ next.pc = pc /\ SubmissionOf(next) = SubmissionOf(h)
  BY <1>0 DEF UplinkInv, UplinkType, HandlerType, SubmissionOf
<1>3. /\ SubmissionOf(h) \in Submission /\ SubmissionOf(h) \notin committed
      /\ Reached(SubmissionOf(h))
      /\ Awaited(SubmissionOf(h)) \/ SubmissionOf(h) \in unanswered
  <2>1. SubmissionOf(h) \in Submission
    BY <1>2 DEF HandlerType, SubmissionOf, Submission
  <2> QED
    BY <2>1 DEF UplinkInv, HandlersInv
<1>4. \A s : (Reached(s)' <=> Reached(s)) /\ (Awaited(s)' <=> Awaited(s)) /\ (Through(s)' <=> Through(s))
  BY <1>1 DEF Reached, Awaited, Through, CurrentOf
<1>5. UplinkType'
  BY <1>1, <1>2, <1>3 DEF UplinkInv, UplinkType, CurrentOf
<1>6. HandlersInv'
  <2>1. ASSUME NEW g \in handlers'
        PROVE  /\ Reached(SubmissionOf(g))'
               /\ Awaited(SubmissionOf(g))' \/ SubmissionOf(g) \in unanswered'
               /\ g.pc = "committed" <=> SubmissionOf(g) \in committed'
    <3>1. CASE g \in handlers \ {h}
      BY <1>1, <1>4, <3>1 DEF UplinkInv, HandlersInv
    <3>2. CASE g = next
      BY <1>1, <1>2, <1>3, <1>4, <3>2
    <3> QED
      BY <1>1, <3>1, <3>2
  <2>2. \A f, g \in handlers' : SubmissionOf(f) = SubmissionOf(g) => f = g
    BY <1>1, <1>2 DEF UplinkInv, HandlersInv
  <2> QED
    BY <2>1, <2>2 DEF HandlersInv, SubmissionOf
(* If the submission becomes known, its device is waiting for it.           *)
<1>7. ASSUME NEW s \in committed' \ unanswered', s \notin committed \ unanswered
      PROVE  s = SubmissionOf(h) /\ Awaited(s)
  BY <1>1, <1>3, <1>7
<1>8. KnownInv'
  <2>1. \A s \in committed' : Reached(s)'
    BY <1>3, <1>4 DEF UplinkInv, KnownInv
  <2>2. ASSUME NEW s \in committed' \ unanswered'
        PROVE  /\ ReadingOf(s) \in sent \/ Awaited(s)'
               /\ s.reading = loop[s.dev].reading => s.attempt = loop[s.dev].attempt
    <3>1. CASE s \in committed \ unanswered
      BY <1>4, <3>1 DEF UplinkInv, KnownInv
    <3>2. CASE s \notin committed \ unanswered
      <4>1. Awaited(s)
        BY <1>7, <3>2
      <4>2. s.attempt = loop[s.dev].attempt
        BY <4>1 DEF Awaited, CurrentOf
      <4> QED
        BY <1>4, <4>1, <4>2
    <3> QED
      BY <3>1, <3>2
  <2> QED
    BY <1>1, <2>1, <2>2 DEF KnownInv, ReadingOf
<1>9. \A r \in sent' \cup failed' : Through(r)'
  BY <1>1, <1>4 DEF UplinkInv
<1>10. SentWasStored'
  BY <1>1 DEF UplinkInv, SentWasStored, ReadingOf
<1>11. StoredAsReported'
  <2>1. ASSUME NEW a \in committed' \ unanswered', NEW b \in committed' \ unanswered',
               ReadingOf(a) = ReadingOf(b)
        PROVE  a = b
    <3>1. a \in Submission /\ b \in Submission /\ a.dev = b.dev /\ a.reading = b.reading
      BY <1>3, <2>1 DEF UplinkInv, UplinkType, ReadingOf
    <3>2. CASE a \in committed \ unanswered /\ b \in committed \ unanswered
      BY <2>1, <3>2 DEF UplinkInv, StoredAsReported
    <3>3. CASE a \notin committed \ unanswered \/ b \notin committed \ unanswered
      <4>1. a.reading = loop[a.dev].reading
        BY <1>7, <3>1, <3>3 DEF Awaited, CurrentOf
      <4>2. a.attempt = loop[a.dev].attempt /\ b.attempt = loop[a.dev].attempt
        BY <1>1, <1>8, <3>1, <4>1 DEF KnownInv
      <4> QED
        BY <3>1, <4>2 DEF Submission
    <3> QED
      BY <3>2, <3>3
  <2>2. ASSUME NEW s \in committed' \ unanswered'
        PROVE  ReadingOf(s) \notin failed
    <3>1. CASE s \in committed \ unanswered
      BY <3>1 DEF UplinkInv, StoredAsReported
    <3>2. CASE s \notin committed \ unanswered
      <4>1. Awaited(s) /\ s \in Submission
        BY <1>3, <1>7, <3>2
      <4>2. /\ loop[s.dev].pc = "waiting" /\ s.reading = loop[s.dev].reading
            /\ s.reading \in Nat
        BY <4>1, AttemptsAssumption DEF Awaited, CurrentOf, Submission
      <4>3. ~Through(ReadingOf(s))
        BY <4>2 DEF Through, ReadingOf
      <4> QED
        BY <4>3 DEF UplinkInv
    <3> QED
      BY <3>1, <3>2
  <2> QED
    BY <1>1, <2>1, <2>2 DEF StoredAsReported, ReadingOf
<1> QED
  BY <1>5, <1>6, <1>8, <1>9, <1>10, <1>11 DEF UplinkInv

-----------------------------------------------------------------------------
(* The device learns that its submission was stored and evaluated.          *)
LEMMA SendKeeps ==
    ASSUME UplinkInv, NEW h \in handlers, h.pc = "committed", Waiting(h),
           loop' = [loop EXCEPT ![h.dev].pc = "ready"],
           sent' = sent \cup {ReadingOf(h)},
           handlers' = handlers \ {h},
           alerted' = alerted \cup {SubmissionOf(h)},
           UNCHANGED <<failed, committed, unanswered>>
    PROVE  UplinkInv'
<1>1. /\ loop \in [Devices -> Loop] /\ handlers \subseteq HandlerType
      /\ h.dev \in Devices /\ loop[h.dev] \in Loop
  BY DEF UplinkInv, UplinkType, HandlerType
<1>2. /\ loop' \in [Devices -> Loop]
      /\ \A d \in Devices : /\ loop'[d].reading = loop[d].reading
                            /\ loop'[d].attempt = loop[d].attempt
                            /\ loop'[d].pc = IF d = h.dev THEN "ready" ELSE loop[d].pc
  BY <1>1 DEF Loop
<1>3. PICK s \in Submission :
        /\ s = SubmissionOf(h) /\ Awaited(s) /\ s \in committed
        /\ ReadingOf(h) = ReadingOf(s) /\ s.dev = h.dev
  <2>1. SubmissionOf(h) \in Submission /\ SubmissionOf(h).dev = h.dev /\ ReadingOf(h) = ReadingOf(SubmissionOf(h))
    BY <1>1 DEF HandlerType, SubmissionOf, Submission, ReadingOf
  <2>2. SubmissionOf(h) \in committed
    BY DEF UplinkInv, HandlersInv
  <2>3. Awaited(SubmissionOf(h))
    BY <2>1 DEF Waiting, Awaited
  <2> QED
    BY <2>1, <2>2, <2>3
<1>4. /\ loop[s.dev].pc = "waiting" /\ s.dev \in Devices
      /\ s.reading = loop[s.dev].reading /\ s.attempt = loop[s.dev].attempt
  BY <1>1, <1>3 DEF Awaited, CurrentOf
<1>5. ASSUME NEW o \in Submission
      PROVE  /\ Reached(o)' <=> Reached(o)
             /\ Awaited(o) => Awaited(o)' \/ o = s
  <2>1. o.dev \in Devices
    BY DEF Submission
  <2>2. Reached(o)' <=> Reached(o)
    BY <1>2, <2>1 DEF Reached
  <2>3. CASE o.dev = s.dev
    BY <1>3, <2>2, <2>3 DEF Awaited
  <2>4. CASE o.dev # s.dev
    BY <1>2, <1>3, <2>1, <2>2, <2>4 DEF Awaited, CurrentOf
  <2> QED
    BY <2>3, <2>4
<1>6. ReadingOf(s) \in Reading /\ ~Through(ReadingOf(s)) /\ Through(ReadingOf(s))'
  <2>1. ReadingOf(s) \in Reading /\ ReadingOf(s).dev = s.dev /\ ReadingOf(s).reading = s.reading
    BY DEF ReadingOf, Reading, Submission
  <2>2. s.reading \in Nat
    BY AttemptsAssumption DEF Submission
  <2> QED
    BY <1>2, <1>3, <1>4, <2>1, <2>2 DEF Through
<1>7. \A g \in handlers : SubmissionOf(g) \in Submission
  BY <1>1 DEF HandlerType, SubmissionOf, Submission
<1>8. UplinkType'
  <2>1. \A d \in Devices : loop'[d].pc # "ready" => CurrentOf(d)' \in Submission
    BY <1>2 DEF UplinkInv, UplinkType, CurrentOf
  <2> QED
    BY <1>2, <1>3, <1>6, <2>1 DEF UplinkInv, UplinkType
<1>9. HandlersInv'
  <2>1. ASSUME NEW g \in handlers'
        PROVE  /\ Reached(SubmissionOf(g))'
               /\ Awaited(SubmissionOf(g))' \/ SubmissionOf(g) \in unanswered'
               /\ g.pc = "committed" <=> SubmissionOf(g) \in committed'
    <3>1. SubmissionOf(g) # s /\ g \in handlers
      BY <1>3 DEF UplinkInv, HandlersInv
    <3> QED
      BY <1>5, <1>7, <3>1 DEF UplinkInv, HandlersInv
  <2>2. \A f, g \in handlers' : SubmissionOf(f) = SubmissionOf(g) => f = g
    BY DEF UplinkInv, HandlersInv
  <2> QED
    BY <2>1, <2>2 DEF HandlersInv, SubmissionOf
<1>10. KnownInv'
  <2>1. \A o \in committed : Reached(o)'
    BY <1>5 DEF UplinkInv, UplinkType, KnownInv
  <2>2. ASSUME NEW o \in committed \ unanswered
        PROVE  /\ ReadingOf(o) \in sent' \/ Awaited(o)'
               /\ o.reading = loop'[o.dev].reading => o.attempt = loop'[o.dev].attempt
    <3>1. o \in Submission /\ o.dev \in Devices
      BY DEF UplinkInv, UplinkType, Submission
    <3>2. /\ ReadingOf(o) \in sent \/ Awaited(o)
          /\ o.reading = loop[o.dev].reading => o.attempt = loop[o.dev].attempt
      BY DEF UplinkInv, KnownInv
    <3>3. ReadingOf(o) \in sent' \/ Awaited(o)'
      BY <1>3, <1>5, <3>1, <3>2
    <3> QED
      BY <1>2, <3>1, <3>2, <3>3
  <2> QED
    BY <2>1, <2>2 DEF KnownInv, ReadingOf
<1>11. ASSUME NEW r \in sent' \cup failed'
       PROVE  Through(r)'
  <2>1. CASE r = ReadingOf(s)
    BY <1>6, <2>1 DEF ReadingOf
  <2>2. CASE r \in sent \cup failed
    <3>1. Through(r) /\ r.dev \in Devices
      BY <2>2 DEF UplinkInv, UplinkType, Reading
    <3> QED
      BY <1>2, <3>1 DEF Through
  <2> QED
    BY <1>3, <2>1, <2>2
<1>12. ReadingOf(s) \notin failed
  BY <1>6 DEF UplinkInv
<1>13. SentWasStored'
  <2>1. sent' \cap failed' = {}
    BY <1>3, <1>12 DEF UplinkInv, SentWasStored
  <2>2. \A r \in sent' : \E o \in committed' \cap alerted' : ReadingOf(o) = r
    BY <1>3 DEF UplinkInv, SentWasStored
  <2> QED
    BY <2>1, <2>2 DEF SentWasStored, ReadingOf
<1>14. StoredAsReported'
  BY DEF UplinkInv, StoredAsReported, ReadingOf
<1> QED
  BY <1>8, <1>9, <1>10, <1>11, <1>13, <1>14 DEF UplinkInv

-----------------------------------------------------------------------------
(* An answer that is not awaited, or that tells the device to give up.      *)
LEMMA AnswerKeeps ==
    ASSUME UplinkInv, NEW h \in handlers, NEW status, Answer(h, status),
           Waiting(h) => ~Succeeded(status),
           h.pc = "committed" /\ Waiting(h) => SubmissionOf(h) \in unanswered',
           committed' = committed,
           alerted \subseteq alerted', alerted' \subseteq Submission,
           unanswered \subseteq unanswered', unanswered' \subseteq Submission
    PROVE  UplinkInv'
<1>1. /\ loop \in [Devices -> Loop] /\ handlers \subseteq HandlerType
      /\ h.dev \in Devices /\ SubmissionOf(h).dev = h.dev
  BY DEF UplinkInv, UplinkType, HandlerType, SubmissionOf
<1>2. handlers' = handlers \ {h}
  BY DEF Answer
<1>3. CASE Waiting(h)
  <2>1. Fail({h.dev})
    BY <1>3 DEF Answer
  <2>2. loop[h.dev].pc = "waiting" /\ CurrentOf(h.dev) = SubmissionOf(h)
    BY <1>3 DEF Waiting
  <2>3. SubmissionOf(h) \in unanswered' \/ SubmissionOf(h) \notin committed
    BY <1>3 DEF UplinkInv, HandlersInv
  <2>4. ASSUME NEW g \in handlers', g.dev \in {h.dev}, Awaited(SubmissionOf(g))
        PROVE  SubmissionOf(g) \in unanswered'
    <3>1. SubmissionOf(g) = SubmissionOf(h)
      BY <1>1, <1>2, <2>2, <2>4 DEF Awaited, HandlerType, SubmissionOf
    <3> QED
      BY <1>2, <3>1 DEF UplinkInv, HandlersInv
  <2> QED
    BY <1>1, <1>2, <2>1, <2>2, <2>3, <2>4, FailKeeps
<1>4. CASE ~Waiting(h)
  <2>1. UNCHANGED <<loop, sent, failed>>
    BY <1>4 DEF Answer, device
  <2>2. FailedBy({}) = {}
    BY DEF FailedBy
  <2>3. Fail({})
    BY <1>1, <2>1, <2>2 DEF Fail
  <2> QED
    BY <1>2, <2>3, FailKeeps
<1> QED
  BY <1>3, <1>4

LEMMA HandlerKeeps ==
    ASSUME UplinkInv, NEW h \in handlers,
           Dispatch(h) \/ Authenticate(h) \/ CommitReading(h) \/ FinishSubmit(h)
    PROVE  UplinkInv'
<1>1. /\ alerted \subseteq Submission /\ unanswered \subseteq Submission
      /\ SubmissionOf(h) \in Submission
  BY DEF UplinkInv, UplinkType, HandlerType, SubmissionOf, Submission
<1>2. ~Succeeded(500) /\ ~Succeeded(401) /\ Succeeded(201)
  BY DEF Succeeded
<1>3. CASE Dispatch(h)
  <2>1. h.pc = "arrived" /\ UNCHANGED <<alerted, committed, unanswered>>
    BY <1>3 DEF Dispatch
  <2>2. (Advance(h, "admitted") /\ UNCHANGED device) \/ Answer(h, 500)
    BY <1>3 DEF Dispatch
  <2> QED
    BY <1>1, <1>2, <2>1, <2>2, AdvanceKeeps, AnswerKeeps
<1>4. CASE Authenticate(h)
  <2>1. h.pc = "admitted" /\ UNCHANGED <<alerted, committed, unanswered>>
    BY <1>4 DEF Authenticate
  <2>2. (Advance(h, "verified") /\ UNCHANGED device) \/ Answer(h, 401)
    BY <1>4 DEF Authenticate
  <2> QED
    BY <1>1, <1>2, <2>1, <2>2, AdvanceKeeps, AnswerKeeps
<1>5. CASE CommitReading(h)
  BY <1>5, AdvanceKeeps DEF CommitReading
<1>6. CASE FinishSubmit(h)
  <2>1. h.pc = "committed" /\ committed' = committed
    BY <1>6 DEF FinishSubmit
  <2>2. CASE alerted' = alerted \cup {SubmissionOf(h)} /\ Answer(h, 201) /\ UNCHANGED unanswered
    <3>1. CASE Waiting(h)
      BY <1>2, <2>1, <2>2, <3>1, SendKeeps DEF Answer
    <3>2. CASE ~Waiting(h)
      BY <1>1, <2>1, <2>2, <3>2, AnswerKeeps
    <3> QED
      BY <3>1, <3>2
  <2>3. CASE /\ unanswered' = unanswered \cup {SubmissionOf(h)}
             /\ Answer(h, 500) /\ UNCHANGED alerted
    BY <1>1, <1>2, <2>1, <2>3, AnswerKeeps
  <2> QED
    BY <1>6, <2>2, <2>3 DEF FinishSubmit
<1> QED
  BY <1>3, <1>4, <1>5, <1>6

LEMMA DeviceKeeps ==
    ASSUME UplinkInv, now \in Nat, NEW d \in Devices,
           StartReading(d) \/ Retry(d) \/ BreakCall(d)
    PROVE  UplinkInv'
<1>1. /\ loop[d] \in Loop
      /\ loop[d].pc # "ready" => CurrentOf(d) \in Submission
  BY DEF UplinkInv, UplinkType
<1>2. CASE StartReading(d)
  <2>1. /\ Submit(d, loop[d].reading + 1, 1) /\ loop[d].pc = "ready"
        /\ loop[d].reading < MaxReadings
    BY <1>2 DEF StartReading
  <2>2. loop[d].reading + 1 \in 1..MaxReadings /\ 1 \in 1..MaxAttempts
    BY <1>1, <2>1, AttemptsAssumption DEF Loop
  <2> QED
    BY <2>1, <2>2, SubmitKeeps
<1>3. CASE Retry(d)
  <2>1. /\ Submit(d, loop[d].reading, loop[d].attempt + 1) /\ loop[d].pc = "backoff"
        /\ ~(loop[d].attempt >= MaxAttempts)
    BY <1>3 DEF Retry, LastAttempt
  <2>2. loop[d].reading \in 1..MaxReadings /\ loop[d].attempt \in 1..MaxAttempts
    BY <1>1, <2>1 DEF CurrentOf, Submission
  <2>3. loop[d].attempt + 1 \in 1..MaxAttempts
    BY <2>1, <2>2, AttemptsAssumption
  <2> QED
    BY <2>1, <2>2, <2>3, SubmitKeeps
<1>4. CASE BreakCall(d)
  <2>1. /\ loop[d].pc = "waiting" /\ Fail({d})
        /\ unanswered' = unanswered \cup {CurrentOf(d)}
        /\ handlers' \subseteq handlers
        /\ UNCHANGED <<alerted, committed>>
    BY <1>4 DEF BreakCall
  <2>2. CurrentOf(d) \in Submission /\ alerted \subseteq Submission /\ unanswered \subseteq Submission
    BY <1>1, <2>1 DEF UplinkInv, UplinkType
  <2>3. \A h \in handlers' :
          h.dev \in {d} /\ Awaited(SubmissionOf(h)) => SubmissionOf(h) \in unanswered'
    BY <2>1 DEF Awaited, SubmissionOf
  <2> QED
    BY <2>1, <2>2, <2>3, FailKeeps
<1> QED
  BY <1>2, <1>3, <1>4

LEMMA RestartKeeps ==
    ASSUME UplinkInv, Restart
    PROVE  UplinkInv'
<1> DEFINE cut == {d \in Devices : loop[d].pc = "waiting"}
<1>1. /\ handlers' = {} /\ Fail(cut)
      /\ unanswered' = unanswered \cup {CurrentOf(d) : d \in cut}
      /\ UNCHANGED <<alerted, committed>>
  BY DEF Restart
<1>2. \A d \in cut : CurrentOf(d) \in Submission
  BY DEF UplinkInv, UplinkType
<1>3. alerted \subseteq Submission /\ unanswered \subseteq Submission
  BY DEF UplinkInv, UplinkType
<1>4. cut \in SUBSET Devices /\ \A d \in cut : loop[d].pc = "waiting"
  OBVIOUS
<1> HIDE DEF cut
<1> QED
  BY <1>1, <1>2, <1>3, <1>4, FailKeeps

LEMMA UplinkInit == Init => Inv /\ UplinkInv
<1> SUFFICES ASSUME Init PROVE Inv /\ UplinkInv
  OBVIOUS
<1>1. Inv
  BY InitInv DEF Init
<1>2. loop \in [Devices -> Loop] /\ \A d \in Devices : loop[d].pc = "ready"
  BY AttemptsAssumption DEF Init, Loop
<1> QED
  BY <1>1, <1>2 DEF Init, UplinkInv, UplinkType, HandlersInv, KnownInv, SentWasStored, StoredAsReported

LEMMA UplinkStep == Inv /\ UplinkInv /\ [Next]_vars => Inv' /\ UplinkInv'
<1> SUFFICES ASSUME Inv, UplinkInv, [Next]_vars PROVE Inv' /\ UplinkInv'
  OBVIOUS
<1>1. \A h \in handlers : h.dev \in Devices
  BY DEF UplinkInv, UplinkType, HandlerType
<1>2. Inv'
  BY <1>1, LimiterStep, InvStep
<1>3. CASE UNCHANGED <<device, server, unanswered>>
  BY <1>2, <1>3 DEF device, server, UplinkInv, UplinkType, HandlersInv, KnownInv, SentWasStored,
       StoredAsReported, Reached, Awaited, Through, CurrentOf, SubmissionOf, ReadingOf
<1>4. now \in Nat
  BY DEF Inv
<1>5. CASE \E d \in Devices : StartReading(d) \/ Retry(d) \/ BreakCall(d)
  BY <1>2, <1>4, <1>5, DeviceKeeps
<1>6. CASE Handler
  BY <1>2, <1>6, HandlerKeeps DEF Handler
<1>7. CASE Restart
  BY <1>2, <1>7, RestartKeeps
<1> QED
  BY <1>3, <1>5, <1>6, <1>7 DEF Next, Clock, vars

LEMMA UplinkCorrect == Spec => [](Inv /\ UplinkInv)
BY UplinkInit, UplinkStep, PTL DEF Spec

(* Everything keeps its type; no reading gets an attempt too many.          *)
THEOREM UplinkTypeCorrect == Spec => []TypeOK
<1>1. Inv /\ UplinkInv => TypeOK
  BY DEF Inv, UplinkInv, UplinkType, HandlerType, TypeOK, SubmissionOf, Submission
<1> QED
  BY <1>1, UplinkCorrect, PTL

(* Seen from the limiter, the devices and handlers are any clients at all.  *)
THEOREM UplinkImplementsLimiter == Spec => LimiterSpec
<1>1. UplinkInv => \A h \in handlers : h.dev \in Devices
  BY DEF UplinkInv, UplinkType, HandlerType
<1>2. Init => LimiterInit
  BY DEF Init
<1> QED
  BY <1>1, <1>2, UplinkCorrect, LimiterStep, PTL DEF Spec, LimiterSpec

(* The devices' requests keep the window of the limiter they go through.    *)
THEOREM UplinkWindowCorrect == Spec => []WindowRespected
BY UplinkImplementsLimiter, WindowCorrect, PTL

(* A reading counted as sent is stored and its rules were evaluated.        *)
THEOREM SentWasStoredCorrect == Spec => []SentWasStored
BY UplinkCorrect, PTL DEF UplinkInv

(* Only unanswered commits store a reading twice, or one counted as failed. *)
THEOREM StoredAsReportedCorrect == Spec => []StoredAsReported
BY UplinkCorrect, PTL DEF UplinkInv
=============================================================================
