---------------------------- MODULE RateLimiter ----------------------------
(***************************************************************************)
(* The rate limiter of the HTTP server (internal/api/ratelimit.go): a      *)
(* sliding window over the times of each client's allowed requests, kept   *)
(* in memory by one instance.  allow runs under a mutex and reads the      *)
(* clock inside it, so one call is one step.                               *)
(***************************************************************************)
EXTENDS Integers, Sequences, FiniteSets

CONSTANTS
    Clients,        \* addresses requests come from
    Limit, Window,  \* requests that are allowed in a window
    MaxTime,        \* bound: the clock
    MaxRequests     \* bound: requests of a client

VARIABLES
    clock,      \* the time
    times,      \* the limiter's map: the positions in allowed of the times it
                \* holds, which may be equal; a client it lacks has none
    allowed,    \* when requests of a client were allowed, kept for good
    refused     \* history variable: when its requests were refused

limits == <<clock, times, allowed, refused>>

LimitsAssumption ==
    /\ Limit \in Nat \ {0} /\ Window \in Nat \ {0}
    /\ MaxTime \in Nat /\ MaxRequests \in Nat

LimiterInit ==
    /\ clock = 1
    /\ times = [c \in Clients |-> {}]
    /\ allowed = [c \in Clients |-> <<>>]
    /\ refused = [c \in Clients |-> <<>>]

ClockTicks ==
    /\ clock < MaxTime /\ clock' = clock + 1
    /\ UNCHANGED <<times, allowed, refused>>

(* Mutant: a time at the cutoff still counts. *)
FilteredFrom(c) == {k \in times[c] : allowed[c][k] >= clock - Window}

(* times after the cutoff *)
Filtered(c) == {k \in times[c] : allowed[c][k] > clock - Window}

Requested(c) == Len(allowed[c]) + Len(refused[c]) < MaxRequests

Allow(c) ==
    /\ Requested(c) /\ Cardinality(Filtered(c)) < Limit
    /\ times' = [times EXCEPT ![c] = Filtered(c) \cup {Len(allowed[c]) + 1}]
    /\ allowed' = [allowed EXCEPT ![c] = Append(@, clock)]
    /\ UNCHANGED <<clock, refused>>

Refuse(c) ==
    /\ Requested(c) /\ Cardinality(Filtered(c)) >= Limit
    /\ times' = [times EXCEPT ![c] = Filtered(c)]
    /\ refused' = [refused EXCEPT ![c] = Append(@, clock)]
    /\ UNCHANGED <<clock, allowed>>

LimiterNext == ClockTicks \/ \E c \in Clients : Allow(c) \/ Refuse(c)

LimiterSpec == LimiterInit /\ [][LimiterNext]_limits

-----------------------------------------------------------------------------
(* Properties *)

(* The requests of a client allowed in the window that ends at time t *)
AllowedIn(c, t) == {k \in DOMAIN allowed[c] : t - Window < allowed[c][k] /\ allowed[c][k] <= t}

(* No window, wherever it starts, has more than Limit allowed requests of  *)
(* a client, and a request was refused only if the window that ended with  *)
(* it had Limit of them: allow forgets no time of the window, and refused  *)
(* requests and those of other clients do not count.                       *)
WindowExact ==
    \A c \in Clients :
        /\ \A t \in 1 .. clock : Cardinality(AllowedIn(c, t)) <= Limit
        /\ \A k \in DOMAIN refused[c] : Cardinality(AllowedIn(c, refused[c][k])) = Limit
=============================================================================
