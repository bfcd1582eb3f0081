---------------------------- MODULE RateLimiter ----------------------------
(***************************************************************************)
(* The sliding-window limiter of the query endpoints:                      *)
(* app/services/rate_limit.py, as require_query_rate_limit of              *)
(* app/api/query.py uses it from the threads of the server.                *)
(*                                                                         *)
(* A thread obtains the limiter, which the first ones build without a      *)
(* lock, reads the clock, and records its request under the lock of the    *)
(* limiter.  Between these steps the other threads run and time passes.    *)
(***************************************************************************)
EXTENDS Integers, FiniteSets, Sequences

CONSTANTS
    Threads,   \* threads that serve requests
    Keys,      \* principals
    Quota,     \* max_requests
    Window,    \* window_seconds, in ticks
    MaxKeys,   \* max_keys
    MaxClock   \* bound: the clock stops here

Limiters == 1 .. Cardinality(Threads)   \* a thread builds at most one

VARIABLES
    clock,
    limiter,     \* _query_limiter; 0 is None
    configured,  \* _query_limiter_params is set
    hits,        \* each limiter's deques; an empty one is a key not tracked
    thread,      \* where each thread is, the key and the clock it has read
    admitted,    \* history: the admissions of each key in the window, <<moment, count>>
    promise      \* history: when a denied key was told to come back; 0 never

\* The part of the history that lies in the window before now.
Recent(s, now) == {a \in s : a[1] + Window > now}

\* One more at this moment.
Counted(s, moment) == s \cup {<<moment, 1 + Cardinality({a \in s : a[1] = moment})>>}

vars == <<clock, limiter, configured, hits, thread, admitted, promise>>

Waiting == [pc |-> "idle", key |-> CHOOSE k \in Keys : TRUE, moment |-> 0, use |-> 0]

Init ==
    /\ clock = 1
    /\ limiter = 0 /\ configured = FALSE
    /\ hits = [l \in Limiters |-> [k \in Keys |-> <<>>]]
    /\ thread = [t \in Threads |-> Waiting]
    /\ admitted = [k \in Keys |-> {}]
    /\ promise = [k \in Keys |-> 0]

-----------------------------------------------------------------------------
\* _get_query_limiter: the test ...
Request(t) ==
    /\ thread[t].pc = "idle"
    /\ \E k \in Keys :
          thread' = [thread EXCEPT ![t] =
            [pc |-> IF limiter = 0 \/ ~ configured THEN "build" ELSE "get",
             key |-> k, moment |-> 0, use |-> 0]]
    /\ UNCHANGED <<clock, limiter, configured, hits, admitted, promise>>

\* ... a new limiter, an empty one, for all that come ...
Build(t) ==
    /\ thread[t].pc = "build"
    /\ limiter' = limiter + 1
    /\ thread' = [thread EXCEPT ![t].pc = "configure"]
    /\ UNCHANGED <<clock, configured, hits, admitted, promise>>

\* ... its parameters ...
Configure(t) ==
    /\ thread[t].pc = "configure"
    /\ configured' = TRUE
    /\ thread' = [thread EXCEPT ![t].pc = "get"]
    /\ UNCHANGED <<clock, limiter, hits, admitted, promise>>

\* ... and the one that is there by then; check() reads the clock.
Get(t) ==
    /\ thread[t].pc = "get"
    /\ thread' = [thread EXCEPT ![t].pc = "check", ![t].moment = clock,
                                ![t].use = limiter]
    /\ UNCHANGED <<clock, limiter, configured, hits, admitted, promise>>

-----------------------------------------------------------------------------
(* check(), under the lock.                                                *)

Tracked(l) == {k \in Keys : hits[l][k] # <<>>}

Full(l) == Cardinality(Tracked(l)) >= MaxKeys

LastHit(l, k) == hits[l][k][Len(hits[l][k])]

\* The keys that may be evicted for k: those with the oldest last hit.
Victims(l, k) ==
    IF hits[l][k] # <<>> \/ ~ Full(l) THEN {}
    ELSE {v \in Tracked(l) : \A o \in Tracked(l) :
                                LastHit(l, v) <= LastHit(l, o)}

\* The deque after hits up to the cutoff were popped at its left.
Popped(s, cutoff) ==
    LET n == CHOOSE n \in 0 .. Len(s) : /\ \A i \in 1 .. n : s[i] <= cutoff
                                        /\ n < Len(s) => s[n + 1] > cutoff
    IN  SubSeq(s, n + 1, Len(s))

\* Mutant: a hit falls out of the window a tick early.
PrunedEarly(s, moment) == Popped(s, moment + 1 - Window)

\* Hits fall out at the front while they are out of the window.
Pruned(s, moment) == Popped(s, moment - Window)

OverQuota(s) == Len(s) >= Quota

\* check() for the key of t, after victim (a set of at most one key) is gone.
Decide(t, victim) ==
    LET l == thread[t].use   k == thread[t].key   m == thread[t].moment
        live == Pruned(hits[l][k], m)
        rest == [v \in Keys |-> IF v \in victim THEN <<>> ELSE hits[l][v]]
        gone == [v \in Keys |-> IF v \in victim THEN {} ELSE admitted[v]]
        told == [v \in Keys |-> IF v \in victim THEN 0 ELSE promise[v]]
    IN  /\ thread' = [thread EXCEPT ![t] = Waiting]
        /\ IF OverQuota(live)
           THEN /\ hits' = [hits EXCEPT ![l] = [rest EXCEPT ![k] = live]]
                /\ promise' = [told EXCEPT ![k] = Head(live) + Window]
                /\ admitted' = gone
           ELSE /\ hits' = [hits EXCEPT ![l] = [rest EXCEPT ![k] = Append(live, m)]]
                /\ admitted' = [gone EXCEPT ![k] = Recent(Counted(@, m), clock)]
                /\ promise' = [told EXCEPT ![k] = 0]

Check(t) ==
    /\ thread[t].pc = "check"
    /\ LET vs == Victims(thread[t].use, thread[t].key) IN
       \/ vs = {} /\ Decide(t, {})
       \/ \E v \in vs : Decide(t, {v})
    /\ UNCHANGED <<clock, limiter, configured>>

\* Time passes; the history forgets what has left the window.
Tick ==
    /\ clock < MaxClock
    /\ clock' = clock + 1
    /\ admitted' = [k \in Keys |-> Recent(admitted[k], clock + 1)]
    /\ UNCHANGED <<limiter, configured, hits, thread, promise>>

Next ==
    \/ \E t \in Threads : Request(t) \/ Build(t) \/ Configure(t) \/ Get(t) \/ Check(t)
    \/ Tick

Spec == Init /\ [][Next]_vars

-----------------------------------------------------------------------------
TypeOK ==
    /\ clock \in 1 .. MaxClock
    /\ limiter \in 0 .. Cardinality(Threads) /\ configured \in BOOLEAN
    /\ \A l \in Limiters, k \in Keys :
          hits[l][k] \in Seq(1 .. MaxClock) /\ Len(hits[l][k]) <= Quota
    /\ thread \in [Threads -> [pc : {"idle", "build", "configure", "get", "check"},
                               key : Keys, moment : 0 .. MaxClock,
                               use : 0 .. Cardinality(Threads)]]

\* "the in-memory window is exact": in every window a key is admitted at most
\* Quota times since it was last evicted.
QuotaExact == \A k \in Keys : Cardinality(admitted[k]) <= Quota

\* Threads that are late with the clock or come first exceed the quota by no
\* more than the limiters they have built.
QuotaBounded == limiter > 0 => \A k \in Keys : Cardinality(admitted[k]) <= Quota * limiter

\* "Bounded key space: at most max_keys principals are tracked".
KeysBounded == \A l \in Limiters : Cardinality(Tracked(l)) <= MaxKeys

\* Of every step.  Retry-After is enough: a key that comes back when it was told to, and was
\* not admitted meanwhile, is admitted.
RetryAfterHonoured ==
    \A t \in Threads :
       LET k == thread[t].key IN
       /\ thread[t].pc = "check" /\ thread'[t].pc = "idle"
       /\ promise[k] > 0 /\ thread[t].moment >= promise[k]
       => promise'[k] = 0

=============================================================================
