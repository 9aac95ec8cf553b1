----------------------------- MODULE RateLimiter -----------------------------
(***************************************************************************)
(* RateLimiter.dispatch (app/middleware.py): a sliding window of admitted  *)
(* requests per client address.  dispatch does not await between dropping  *)
(* the old entries and appending the new one, so a dispatch is one step of *)
(* the event loop.  Requests without a client address are not limited and  *)
(* not modelled.  time.time() is taken not to be set back.                 *)
(***************************************************************************)
EXTENDS Naturals, FiniteSets

CONSTANTS
    Clients,      \* client addresses
    MaxRequests,  \* self.max_requests
    Window,       \* self.window
    MaxTime       \* bound: the clock

ASSUME LimitAssumption == MaxRequests \in Nat /\ Window \in Nat

VARIABLES
    now,       \* the clock
    clients,   \* self.clients: the entries of each address
    serial,    \* number of the next admission
    admitted   \* every admission so far, of each address

limiter == <<now, clients, serial, admitted>>

\* Two requests may be admitted at the same time, so entries are numbered.
Entry == [n : Nat, at : Nat]

LimiterInit ==
    /\ now = 0
    /\ clients = [c \in Clients |-> {}]
    /\ serial = 0
    /\ admitted = [c \in Clients |-> {}]

-----------------------------------------------------------------------------
(* Faulty variants of definitions below: bugs this code could well have.    *)

\* Faulty: one request too many.
AdmittableOneMore(recent) == Cardinality(recent) <= MaxRequests

\* Faulty: the window starts afresh once it is full.
RecentEmptied(c) ==
    IF Cardinality(clients[c]) >= MaxRequests THEN {}
    ELSE {a \in clients[c] : now - a.at < Window}

-----------------------------------------------------------------------------
Recent(c) == {a \in clients[c] : now - a.at < Window}

Admittable(recent) == Cardinality(recent) < MaxRequests

Admit(c) ==
    LET entry == [n |-> serial, at |-> now] IN
    /\ Admittable(Recent(c))
    /\ clients' = [clients EXCEPT ![c] = Recent(c) \cup {entry}]
    /\ admitted' = [admitted EXCEPT ![c] = @ \cup {entry}]
    /\ serial' = serial + 1
    /\ UNCHANGED now

Refuse(c) ==
    /\ ~Admittable(Recent(c))
    /\ clients' = [clients EXCEPT ![c] = Recent(c)]
    /\ UNCHANGED <<now, serial, admitted>>

Tick ==
    /\ now < MaxTime
    /\ now' = now + 1
    /\ UNCHANGED <<clients, serial, admitted>>

(* The API process restarts with no entries.                                *)
Forget ==
    /\ clients' = [c \in Clients |-> {}]
    /\ serial' = 0
    /\ admitted' = [c \in Clients |-> {}]
    /\ UNCHANGED now

LimiterNext ==
    \/ \E c \in Clients : Admit(c) \/ Refuse(c)
    \/ Tick
    \/ Forget

LimiterSpec == LimiterInit /\ [][LimiterNext]_limiter

-----------------------------------------------------------------------------
(* Between two restarts no address is admitted more than MaxRequests times  *)
(* in any period of length Window, wherever the period begins.              *)
WindowRespected ==
    \A c \in Clients : \A first \in admitted[c] :
      Cardinality({a \in admitted[c] : first.at <= a.at /\ a.at < first.at + Window})
        <= MaxRequests
=============================================================================
