------------------------------ MODULE Sessions ------------------------------
(***************************************************************************)
(* Logging in, sessions and the throttle of one user: authenticate,        *)
(* validate_token, logout, disable_user and enable_user of                 *)
(* app/auth/service.py over the SQLite repository.                         *)
(*                                                                         *)
(* Time is relative: a failed login has an age, a session a rest of life,  *)
(* and a tick changes them all.  Only whether the failures of the window   *)
(* reach the limit matters, so the number of each age stops at the limit.  *)
(***************************************************************************)
EXTENDS Naturals, FiniteSets

CONSTANTS
    Clients,   \* logins that may be in progress at once
    Tokens,    \* bound: the sessions that exist at once
    Limit,     \* rate_limit_max_attempts
    Window,    \* rate_limit_window_seconds, in ticks
    TTL        \* session_ttl_seconds, in ticks

VARIABLES
    active,    \* the user is ACTIVE, not DISABLED
    failures,  \* failed attempts on record, by age
    session,   \* auth_sessions
    login,     \* the logins in progress
    disabling, \* disable_user between its two writes
    guesses    \* history: wrong passwords verified, by age

vars == <<active, failures, session, login, disabling, guesses>>

Ages == 0 .. Window
Most == Limit + Cardinality(Clients)   \* guesses counts to here

NoLife(state) == [state |-> state, left |-> 0, old |-> FALSE, late |-> FALSE]
NoSession     == NoLife("none")
At(step)      == [pc |-> step, age |-> 0, late |-> FALSE]

Init ==
    /\ active = TRUE /\ disabling = FALSE
    /\ failures = [a \in Ages |-> 0]
    /\ session = [s \in Tokens |-> NoSession]
    /\ login = [c \in Clients |-> At("idle")]
    /\ guesses = [a \in Ages |-> 0]

Capped(n, max) == IF n > max THEN max ELSE n
Total(f)       == Cardinality({p \in (DOMAIN f) \X (1 .. Most) : p[2] <= f[p[1]]})
Goto(c, pc)    == login' = [login EXCEPT ![c] = At(pc)]

-----------------------------------------------------------------------------
(* authenticate.                                                           *)

\* count_recent_failures reaches the limit.
Throttled == Total(failures) >= Limit

Count(c) ==
    /\ login[c].pc = "idle"
    /\ Goto(c, IF Throttled THEN "refused" ELSE "verify")
    /\ UNCHANGED <<active, failures, session, disabling, guesses>>

\* The user is read and the password verified; it is right or wrong.
Verify(c) ==
    /\ login[c].pc = "verify"
    /\ \/ /\ active
          /\ login' = [login EXCEPT ![c].pc = "granted"]
          /\ UNCHANGED guesses
       \/ /\ login' = [login EXCEPT ![c].pc = "refused"]
          /\ guesses' = [guesses EXCEPT ![0] = Capped(@ + 1, Most)]
    /\ UNCHANGED <<active, failures, session, disabling>>

\* A refused login is recorded, a throttled one as well.
RecordFailure(c) ==
    /\ login[c].pc = "refused"
    /\ failures' = [failures EXCEPT ![0] = Capped(@ + 1, Limit)]
    /\ Goto(c, "idle")
    /\ UNCHANGED <<active, session, disabling, guesses>>

\* _issue_session: the life of the session began with the login.  The user is not read
\* again, so the session is stored even if the user has been disabled since.
Issue(c) ==
    /\ login[c].pc = "granted"
    /\ \E s \in Tokens :
          /\ session[s].state = "none"
          /\ session' = [session EXCEPT ![s] =
               [state |-> "live", left |-> TTL - Capped(login[c].age, TTL),
                old |-> FALSE, late |-> login[c].late]]
    /\ Goto(c, "idle")
    /\ UNCHANGED <<active, failures, disabling, guesses>>

-----------------------------------------------------------------------------
\* validate_token.
Valid(s) == session[s].state = "live" /\ session[s].left > 0 /\ active

\* How long a revoked session would have lived does not matter any more.
Revoked(S) ==
    [s \in Tokens |-> IF s \in S /\ session[s].state = "live"
                      THEN NoLife("revoked")
                      ELSE session[s]]

\* What existed when a disable was complete is from before it.
Aged(f) == [s \in Tokens |-> IF f[s].state = "none" THEN f[s]
                             ELSE [f[s] EXCEPT !.old = TRUE]]

\* A login that is granted then will store its session later.
Late == [c \in Clients |-> IF login[c].pc = "granted" THEN [login[c] EXCEPT !.late = TRUE]
                           ELSE login[c]]

Logout(s) ==
    /\ session[s].state = "live"
    /\ session' = Revoked({s})
    /\ UNCHANGED <<active, failures, login, disabling, guesses>>

\* Mutant: the sessions are revoked before the user is disabled.
DisableRevokesFirst ==
    /\ \/ ~ disabling /\ active /\ session' = Revoked(Tokens) /\ disabling' = TRUE
          /\ UNCHANGED <<active, login>>
       \/ disabling /\ active' = FALSE /\ session' = Aged(session)
          /\ disabling' = FALSE /\ login' = Late
    /\ UNCHANGED <<failures, guesses>>

\* disable_user: first the status, then the sessions.
Disable ==
    /\ \/ ~ disabling /\ active /\ active' = FALSE /\ disabling' = TRUE
          /\ UNCHANGED <<session, login>>
       \/ disabling /\ session' = Aged(Revoked(Tokens)) /\ disabling' = FALSE
          /\ login' = Late /\ UNCHANGED active
    /\ UNCHANGED <<failures, guesses>>

Enable ==
    /\ ~ active /\ ~ disabling
    /\ active' = TRUE
    /\ UNCHANGED <<failures, session, login, disabling, guesses>>

\* One tick later: what was as old as the window is out of it.
Older(f, max) == [a \in Ages |-> IF a = 0 THEN 0 ELSE f[a - 1]]

\* Time passes.  A session at the end of its life, or revoked, is forgotten.
Tick ==
    /\ failures' = Older(failures, Limit)
    /\ guesses' = [a \in Ages |-> IF a = 0 THEN 0 ELSE guesses[a - 1]]
    /\ login' = [c \in Clients |->
                   IF login[c].pc \in {"verify", "granted"}
                   THEN [login[c] EXCEPT !.age = Capped(@ + 1, TTL)] ELSE login[c]]
    /\ session' = [s \in Tokens |->
                     IF session[s].state = "live" /\ session[s].left > 1
                     THEN [session[s] EXCEPT !.left = @ - 1] ELSE NoSession]
    /\ UNCHANGED <<active, disabling>>

LoginStep(c) == Count(c) \/ Verify(c) \/ RecordFailure(c) \/ Issue(c)

Next ==
    \/ \E c \in Clients : LoginStep(c)
    \/ \E s \in Tokens : Logout(s)
    \/ Disable \/ Enable \/ Tick

Spec     == Init /\ [][Next]_vars
\* Time passes.
FairSpec == Spec /\ WF_vars(Tick)

-----------------------------------------------------------------------------
TypeOK ==
    /\ active \in BOOLEAN /\ disabling \in BOOLEAN
    /\ failures \in [Ages -> 0 .. Limit]
    /\ guesses \in [Ages -> 0 .. Most]
    /\ session \in [Tokens -> [state : {"none", "live", "revoked"},
                               left : 0 .. TTL, old : BOOLEAN, late : BOOLEAN]]
    /\ login \in [Clients -> [pc : {"idle", "verify", "refused", "granted"},
                              age : 0 .. TTL, late : BOOLEAN]]

\* The throttle works although it counts before it records: in one window at
\* most Limit wrong passwords are looked at, and one more for each further
\* login that had been counted before.
GuessesBounded == Total(guesses) <= Limit + Cardinality(Clients) - 1

\* "sessions are revoked": no session that existed when a disable was complete
\* is ever valid again, also when the user has been enabled since.
DisableEndsSessions == \A s \in Tokens : Valid(s) => ~ session[s].old

\* A disable ends no login that had its password verified before: that one stores its
\* session afterwards, valid as soon as the user is enabled again.  There are never more
\* of them, stored or still to be, than logins that can be under way at once, however
\* often the user is disabled and enabled.
LateSessions == {s \in Tokens : session[s].state = "live" /\ session[s].late}
LateLogins   == {c \in Clients : login[c].late}
LateSessionsBounded == Cardinality(LateSessions) + Cardinality(LateLogins) <= Cardinality(Clients)

\* A lockout ends, []<>~ LockedOut: again and again the user is not throttled,
\* unless there are always logins going on, which prolong it.
LockedOut == Throttled /\ \A c \in Clients : login[c].pc = "idle"

=============================================================================
