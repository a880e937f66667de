----------------------------- MODULE RateLimiter -----------------------------
(***************************************************************************)
(* The rate limiters at the worker's door (rate_limiter.rs): one governor  *)
(* limiter per tenant, or per address, made when it is first seen.  The    *)
(* governor crate (external) keeps for each limiter the time by which all  *)
(* it let through will have been paid for, and lets a request through if   *)
(* that time is not further ahead than the burst allows.                   *)
(***************************************************************************)
EXTENDS Naturals, FiniteSets, Sequences

CONSTANTS Clients,      \* tenants, or addresses
          Rate,         \* requests_per_second, or requests_per_minute
          PerAddress,   \* TRUE: check_ip, FALSE: check_tenant
          Period,       \* the second, or the minute, in ticks of the clock
          MaxTime, MaxRequests

VARIABLES time,
          limiters,     \* client -> the time its limiter is paid up to, partial
          log           \* history: what each client asked, and the answer

vars == <<time, limiters, log>>

\* One request is paid for in this many ticks; Rate divides Period.
Interval == Period \div Rate

(***************************************************************************)
(* Quota::per_second allows a burst of the whole rate; check_ip allows     *)
(* half of it, or 5 if that is nothing.                                    *)
(***************************************************************************)
Burst ==
    IF ~PerAddress THEN Rate
    ELSE IF Rate \div 2 = 0 THEN 5 ELSE Rate \div 2

Max2(a, b) == IF a < b THEN b ELSE a

Init ==
    /\ time = 0
    /\ limiters = <<>>
    /\ log = [c \in Clients |-> <<>>]

\* Mutant: one limiter for all.
SharedLimiter(c) == CHOOSE d \in Clients : TRUE

\* The entry of the map that a request looks up.
LimiterOf(c) == c

\* The limiter as check finds it, made now if there is none.
PaidUpTo(k) == IF k \in DOMAIN limiters THEN limiters[k] ELSE time

Allowed(k) == PaidUpTo(k) <= time + (Burst - 1) * Interval

Check(c) ==
    LET k == LimiterOf(c)
        paid == IF Allowed(k) THEN Max2(PaidUpTo(k), time) + Interval
                              ELSE PaidUpTo(k)
    IN  /\ Len(log[c]) < MaxRequests
        /\ limiters' = [d \in DOMAIN limiters \cup {k} |->
                           IF d = k THEN paid ELSE limiters[d]]
        /\ log' = [log EXCEPT ![c] = Append(@, [at |-> time, allowed |-> Allowed(k)])]
        /\ UNCHANGED time

CheckTenant(c) == ~PerAddress /\ Check(c)
CheckIp(c) == PerAddress /\ Check(c)

Tick == time < MaxTime /\ time' = time + 1 /\ UNCHANGED <<limiters, log>>

Next == Tick \/ \E c \in Clients : CheckTenant(c) \/ CheckIp(c)

Spec == Init /\ [][Next]_vars

-----------------------------------------------------------------------------
\* The requests of a client that were let through from the i-th to the j-th.
LetThrough(c, i, j) == Cardinality({n \in i .. j : log[c][n].allowed})

\* What may pass in a window of that length.
QuotaOf(length) == Burst + length \div Interval

(***************************************************************************)
(* In every window of time a client gets through at most its burst and     *)
(* what the rate pays for in that window, and a request is refused only if *)
(* it would have been one too many in some window of that same client's    *)
(* requests: what the others ask is nothing to it.                         *)
(***************************************************************************)
QuotaPerClient ==
    \A c \in Clients :
        \A j \in DOMAIN log[c] :
            IF log[c][j].allowed
            THEN \A i \in 1 .. j :
                    LetThrough(c, i, j) <= QuotaOf(log[c][j].at - log[c][i].at)
            ELSE \E i \in 1 .. j - 1 :
                    LetThrough(c, i, j) + 1 > QuotaOf(log[c][j].at - log[c][i].at)
=============================================================================
