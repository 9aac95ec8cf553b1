---------------------------- MODULE ReadingUplink ----------------------------
(***************************************************************************)
(* A reading's way from the device's HTTP loop (client-cpp/src/main.cpp,   *)
(* retry_policy.hpp, backend_client.cpp) through the rate limiter and the  *)
(* signature check to submit_reading (app/main.py) and its alert           *)
(* evaluation.                                                             *)
(*                                                                         *)
(* An attempt fails when its connection breaks; the server may handle it   *)
(* all the same, then or later, beside the device's next attempt.  Each    *)
(* attempt is signed afresh, so its nonce is new and that check passes.    *)
(***************************************************************************)
EXTENDS RateLimiter

CONSTANTS
    Devices,
    Address,      \* Address[d]: the client address the server sees for d
    MaxAge,       \* max_age of verify_hmac
    MaxAttempts,  \* max_attempts of the device's RetryPolicy
    MaxReadings   \* bound: rounds of a device's loop

ASSUME AddressAssumption == Address \in [Devices -> Clients]
ASSUME AttemptsAssumption ==
    MaxAttempts \in Nat \ {0} /\ MaxAge \in Nat /\ MaxReadings \in Nat

VARIABLES
    loop,        \* loop[d]: where the device's loop is
    handlers,    \* the submissions the server is handling
    alerted,     \* submissions alert_engine.evaluate was called for
    sent,        \* readings the device counted as successes
    failed,      \* readings the device counted as failures
    committed,   \* submissions ever committed
    unanswered   \* submissions answered with a 500 after their commit, or not
                 \* at all because the connection broke

device == <<loop, sent, failed>>
server == <<handlers, alerted, committed>>
vars == <<limiter, device, server, unanswered>>

Reading == [dev : Devices, reading : 1..MaxReadings]
Submission == [dev : Devices, reading : 1..MaxReadings, attempt : 1..MaxAttempts]

ReadingOf(s) == [dev |-> s.dev, reading |-> s.reading]
SubmissionOf(h) == [dev |-> h.dev, reading |-> h.reading, attempt |-> h.attempt]
CurrentOf(d) == [dev |-> d, reading |-> loop[d].reading, attempt |-> loop[d].attempt]

Waiting(h) == loop[h.dev].pc = "waiting" /\ CurrentOf(h.dev) = SubmissionOf(h)

Init ==
    /\ LimiterInit
    /\ loop = [d \in Devices |-> [pc |-> "ready", reading |-> 0, attempt |-> 0]]
    /\ handlers = {}
    /\ alerted = {}
    /\ sent = {}
    /\ failed = {}
    /\ committed = {}
    /\ unanswered = {}

-----------------------------------------------------------------------------
(* Faulty variants of definitions below: bugs this code could well have.    *)

\* Faulty: anything but a server error counts.
SucceededUnder500(status) == status < 500

\* Faulty: the status of another kind of success.
SucceededOk(status) == status = 200

\* Faulty: off by one.
LastAttemptLate(n) == n > MaxAttempts

\* Faulty: a reading is given up without counting it.
FailedByNone(ds) == {}

-----------------------------------------------------------------------------
(* submit_reading of the device: a signed POST, true when answered 201.     *)
Succeeded(status) == status = 201

Submit(d, reading, attempt) ==
    /\ loop' = [loop EXCEPT ![d] =
                  [pc |-> "waiting", reading |-> reading, attempt |-> attempt]]
    /\ handlers' = handlers \cup
         {[dev |-> d, reading |-> reading, attempt |-> attempt, ts |-> now, pc |-> "arrived"]}
    /\ UNCHANGED <<limiter, sent, failed, alerted, committed, unanswered>>

(* The start of a turn of the loop.  Its two ways to skip a reading are not  *)
(* taken: connect() has succeeded once and nothing disconnects, and the     *)
(* values read_temperature makes up are always plausible.                   *)
StartReading(d) ==
    /\ loop[d].pc = "ready"
    /\ loop[d].reading < MaxReadings
    /\ Submit(d, loop[d].reading + 1, 1)

(* RetryPolicy.run: after a failed attempt sleep and try again, or give up. *)
LastAttempt(n) == n >= MaxAttempts

AfterFailure(l) == [l EXCEPT !.pc = IF LastAttempt(l.attempt) THEN "ready" ELSE "backoff"]

FailedBy(ds) ==
    {[dev |-> d, reading |-> loop[d].reading]
       : d \in {x \in ds : LastAttempt(loop[x].attempt)}}

Retry(d) ==
    /\ loop[d].pc = "backoff"
    /\ ~LastAttempt(loop[d].attempt)
    /\ Submit(d, loop[d].reading, loop[d].attempt + 1)

(* The devices in ds learn that their attempts failed.                      *)
Fail(ds) ==
    /\ loop' = [d \in Devices |-> IF d \in ds THEN AfterFailure(loop[d]) ELSE loop[d]]
    /\ failed' = failed \cup FailedBy(ds)
    /\ UNCHANGED sent

(* The server answers h; nobody reads the answer if the connection broke.   *)
Answer(h, status) ==
    /\ handlers' = handlers \ {h}
    /\ CASE ~Waiting(h) -> UNCHANGED device
         [] Waiting(h) /\ Succeeded(status) ->
              /\ loop' = [loop EXCEPT ![h.dev].pc = "ready"]
              /\ sent' = sent \cup {ReadingOf(h)}
              /\ UNCHANGED failed
         [] Waiting(h) /\ ~Succeeded(status) -> Fail({h.dev})

Advance(h, pc) == handlers' = (handlers \ {h}) \cup {[h EXCEPT !.pc = pc]}

-----------------------------------------------------------------------------
(* The limiter's HTTPException leaves the middleware stack as a 500.        *)
Dispatch(h) ==
    /\ h.pc = "arrived"
    /\ \/ Admit(Address[h.dev]) /\ Advance(h, "admitted") /\ UNCHANGED device
       \/ Refuse(Address[h.dev]) /\ Answer(h, 500)
    /\ UNCHANGED <<alerted, committed, unanswered>>

(* require_signed_sensor and the first checks of submit_reading: 401 for an *)
(* old timestamp, and 401 or 403 if the sensor was deleted, rotated its key *)
(* or was disabled meanwhile.                                               *)
Fresh(h) == now - h.ts <= MaxAge

Authenticate(h) ==
    /\ h.pc = "admitted"
    /\ \/ Fresh(h) /\ Advance(h, "verified") /\ UNCHANGED device
       \/ Answer(h, 401)
    /\ UNCHANGED <<limiter, alerted, committed, unanswered>>

CommitReading(h) ==
    /\ h.pc = "verified"
    /\ committed' = committed \cup {SubmissionOf(h)}
    /\ Advance(h, "committed")
    /\ UNCHANGED <<limiter, device, alerted, unanswered>>

(* refresh, evaluate the alert rules and answer.  If the row was deleted in *)
(* the meantime (SensorStore), the refresh fails before the rules are       *)
(* looked at.                                                               *)
FinishSubmit(h) ==
    /\ h.pc = "committed"
    /\ \/ /\ alerted' = alerted \cup {SubmissionOf(h)}
          /\ Answer(h, 201)
          /\ UNCHANGED unanswered
       \/ /\ unanswered' = unanswered \cup {SubmissionOf(h)}
          /\ Answer(h, 500)
          /\ UNCHANGED alerted
    /\ UNCHANGED <<limiter, committed>>

-----------------------------------------------------------------------------
(* The connection of d's attempt breaks; a request that had not arrived is  *)
(* lost with it.                                                            *)
BreakCall(d) ==
    /\ loop[d].pc = "waiting"
    /\ Fail({d})
    /\ unanswered' = unanswered \cup {CurrentOf(d)}
    /\ \/ UNCHANGED handlers
       \/ handlers' = {h \in handlers : ~(h.dev = d /\ h.pc = "arrived")}
    /\ UNCHANGED <<limiter, alerted, committed>>

(* The API process restarts: its requests and the limiter's entries go.     *)
Restart ==
    LET cut == {d \in Devices : loop[d].pc = "waiting"} IN
    /\ Forget
    /\ handlers' = {}
    /\ Fail(cut)
    /\ unanswered' = unanswered \cup {CurrentOf(d) : d \in cut}
    /\ UNCHANGED <<alerted, committed>>

Clock == Tick /\ UNCHANGED <<device, server, unanswered>>

Handler ==
    \E h \in handlers :
      Dispatch(h) \/ Authenticate(h) \/ CommitReading(h) \/ FinishSubmit(h)

Next ==
    \/ \E d \in Devices :
         StartReading(d) \/ Retry(d) \/ BreakCall(d)
    \/ Handler
    \/ Restart
    \/ Clock

Spec == Init /\ [][Next]_vars

(* Threads that serve a request go on, and so do devices between attempts.  *)
FairSpec ==
    /\ Spec
    /\ WF_vars(Handler)
    /\ \A d \in Devices : WF_vars(Retry(d))

-----------------------------------------------------------------------------
Loop == [pc : {"ready", "waiting", "backoff"}, reading : 0..MaxReadings,
         attempt : 0..MaxAttempts]

(* The limiter, the devices' loops, the handlers and the histories have     *)
(* their types; a device has at most MaxAttempts attempts per reading.      *)
TypeOK ==
    /\ now \in Nat /\ serial \in Nat
    /\ clients \in [Clients -> SUBSET Entry]
    /\ loop \in [Devices -> Loop]
    /\ \A h \in handlers :
         /\ SubmissionOf(h) \in Submission
         /\ h.ts \in Nat
         /\ h.pc \in {"arrived", "admitted", "verified", "committed"}
    /\ alerted \cup committed \cup unanswered \subseteq Submission
    /\ sent \cup failed \subseteq Reading

(* A reading the device counts as sent was committed and the alert rules    *)
(* were evaluated for it, and it is not also counted as failed.             *)
SentWasStored ==
    /\ sent \cap failed = {}
    /\ \A r \in sent : \E s \in committed \cap alerted : ReadingOf(s) = r

(* A reading is stored twice, or stored although the device counts it as    *)
(* failed, only by submissions whose answers were lost or were a 500 after  *)
(* the commit: the retries themselves never duplicate a reading.            *)
StoredAsReported ==
    LET known == committed \ unanswered IN
    /\ \A a, b \in known : ReadingOf(a) = ReadingOf(b) => a = b
    /\ \A s \in known : ReadingOf(s) \notin failed

(* Every reading a device starts is in the end counted as sent or failed.   *)
ReadingsResolved ==
    \A d \in Devices, n \in 1..MaxReadings :
      loop[d].reading = n ~> [dev |-> d, reading |-> n] \in sent \cup failed
=============================================================================
