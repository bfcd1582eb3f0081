----------------------------- MODULE MCService -----------------------------
(***************************************************************************)
(* The instances of the modules about what surrounds the processing of a   *)
(* meeting: members, logins, the rate limiter, scans and queries.          *)
(*                                                                         *)
(* These parts share no state.  A behaviour is one of one part, "part",    *)
(* whose variables are kept in s1, s2, ...; that leaves out nothing: what  *)
(* a property says of one part holds when the others move too.             *)
(***************************************************************************)
EXTENDS QueryData

CONSTANTS
    Client, Clients,            \* of the members: the client that is alone, those that are not,
    Users, FewUsers, Orgs,      \* the users each of these cases has, the organisations
    LoginClients, Tokens,       \* the logins that overlap, the sessions there may be,
    Limit, LoginWindow, TTL,    \* the throttle and the life of a session
    Worker, SignalIds,          \* of the scans: the worker process, the ids of signals,
    MaxBucket, MaxAttempts,     \* bounds on time and on the attempts of a job,
    MaxSignals, MaxNew,         \* and on the lists
    Thread, Threads,            \* of the limiter: the thread that is alone, those that are not,
    Keys, FewKeys,              \* the keys each of these cases has,
    Quota, Window, MaxKeys,     \* what the limiter is built with,
    MaxClock,                   \* a bound on time
    Entities, Meetings, Nobody, \* of the queries: what they are about, and what is none of it,
    Forms, Requests,            \* the names of the entities, what is asked,
    Mentions, Report(_),        \* what may be mentioned, and what is reported of it,
    Parts,                      \* what a run may write of its evidence,
    EvidenceKeys, Hash(_),      \* what tells signals apart, the hash of an id,
    Budget,                     \* the characters of a context,
    MinOverlap, ProbeTopK,      \* what an unclear question is probed with,
    MaxRevision, MaxMoments     \* bounds on the revisions and on what has been

ASSUME LoginsAssumption ==
    /\ IsFiniteSet(LoginClients) /\ IsFiniteSet(Tokens)
    /\ Limit \in Nat \ {0} /\ LoginWindow \in Nat /\ TTL \in Nat
\* A limit that is not positive is a ValueError.
ASSUME LimiterAssumption ==
    /\ IsFiniteSet(Threads) /\ IsFiniteSet(Keys) /\ Keys # {}
    /\ IsFiniteSet(FewKeys) /\ FewKeys # {}
    /\ {Quota, Window, MaxKeys, MaxClock} \subseteq Nat \ {0}
ASSUME ScansAssumption == MaxBucket \in Nat \ {0} /\ MaxAttempts \in Nat \ {0}

VARIABLES part, s1, s2, s3, s4, s5, s6, s7

vars == <<part, s1, s2, s3, s4, s5, s6, s7>>

-----------------------------------------------------------------------------
\* One request at a time; several, of fewer users.
Members == INSTANCE Membership WITH
    Clients <- {Client}, user <- s1, orgs <- s2, member <- s3, req <- s4
Together == INSTANCE Membership WITH
    Users <- FewUsers, user <- s1, orgs <- s2, member <- s3, req <- s4

\* Several logins at a time, several sessions.
Logins == INSTANCE Sessions WITH
    Clients <- LoginClients, Window <- LoginWindow,
    active <- s1, failures <- s2, session <- s3, login <- s4, disabling <- s5, guesses <- s6

\* One thread, more keys than are tracked; several threads at a time.
Limiter(threads, keys) == INSTANCE RateLimiter WITH
    Threads <- threads, Keys <- keys, clock <- s1, limiter <- s2, configured <- s3, hits <- s4,
    thread <- s5, admitted <- s6, promise <- s7

\* One worker that may restart.
Scans == INSTANCE ProactiveScan WITH
    Workers <- {Worker}, Signals <- SignalIds,
    bucket <- s1, signals <- s2, job <- s3, scans <- s4, worker <- s5

-----------------------------------------------------------------------------
(* Queries                                                                 *)
Retrieval == INSTANCE EvidenceRetrieval WITH
    None <- Nobody, MaxCharacters <- Budget

Corpora == [S \in SUBSET Mentions |->
               [es \in SUBSET Entities |-> Retrieval!CorpusOf(Report(S), es)]]

Queries == INSTANCE Query WITH
    None <- Nobody, Keys <- EvidenceKeys, MaxCharacters <- Budget, Fails <- BOOLEAN,
    revision <- s1, observed <- s2, index <- s3, q <- s4, shown <- s5, was <- s6

ASSUME QueriesAssumption == Queries!ConstantsOK

-----------------------------------------------------------------------------
Unused7 == s7 = {}
Unused6 == s6 = {} /\ Unused7
Unused5 == s5 = {} /\ Unused6

Init ==
    \/ part = "members"  /\ Members!Init  /\ Unused5
    \/ part = "together" /\ Together!Init /\ Unused5
    \/ part = "logins"   /\ Logins!Init   /\ Unused7
    \/ part = "keys"     /\ Limiter({Thread}, Keys)!Init
    \/ part = "threads"  /\ Limiter(Threads, FewKeys)!Init
    \/ part = "scans"    /\ Scans!Init    /\ Unused6
    \/ part = "queries"  /\ Queries!Init  /\ Unused7

Next ==
    \/ part = "members"  /\ Members!Next  /\ UNCHANGED <<part, s5, s6, s7>>
    \/ part = "together" /\ Together!Next /\ UNCHANGED <<part, s5, s6, s7>>
    \/ part = "logins"   /\ Logins!Next   /\ UNCHANGED <<part, s7>>
    \/ part = "keys"     /\ Limiter({Thread}, Keys)!Next    /\ UNCHANGED part
    \/ part = "threads"  /\ Limiter(Threads, FewKeys)!Next  /\ UNCHANGED part
    \/ part = "scans"    /\ Scans!Next    /\ UNCHANGED <<part, s6, s7>>
    \/ part = "queries"  /\ Queries!Next  /\ UNCHANGED <<part, s7>>

Spec == Init /\ [][Next]_vars

-----------------------------------------------------------------------------
(* The properties of the parts; each module says more of its own.          *)

\* One request at a time, no change of role and no removal takes the
\* last owner of an organisation; two at a time, a change of role under way never
\* revives a removed member.  A membership, also one of a request that was cut off, is
\* of a user and an organisation that exist.
MembershipKept ==
    /\ [](/\ part = "members"  => Members!TypeOK /\ Members!MembersExist
          /\ part = "together" => Together!TypeOK)
    /\ [][/\ part = "members"  => Members!LastOwnerProtected
          /\ part = "together" => Together!RemovalSticks]_vars

\* Logins: the wrong passwords looked at in one window are bounded, though logins that
\* overlap are counted together; a disable ends every session there was for good, but not
\* the logins verified before, which leave one session each, valid when the user is enabled.
LoginsSafe ==
    part = "logins" => /\ Logins!TypeOK /\ Logins!GuessesBounded
                       /\ Logins!DisableEndsSessions /\ Logins!LateSessionsBounded

\* The rate limiter with one thread: a window of a key that is tracked
\* holds at most the quota, the keys tracked are bounded, and who comes back when told
\* to is admitted.  With several threads: at most the quota for each limiter built.
QuotaKept ==
    /\ [](/\ part = "keys"    => /\ Limiter({Thread}, Keys)!TypeOK
                                /\ Limiter({Thread}, Keys)!QuotaExact
                                /\ Limiter({Thread}, Keys)!KeysBounded
          /\ part = "threads" => /\ Limiter(Threads, FewKeys)!TypeOK
                                /\ Limiter(Threads, FewKeys)!QuotaBounded)
    /\ [][part = "keys" => Limiter({Thread}, Keys)!RetryAfterHonoured]_vars

\* Over restarts and retries one scan is outstanding at most, and what a scan reports
\* as new is what the previous successful one had not.
ScansReportOnce == part = "scans" => Scans!TypeOK /\ Scans!OneOutstanding /\ Scans!NewIsDifference

\* Queries: an answer cites only evidence it shows; the evidence is about the one
\* entity the question can mean; what the search found was reported while its meeting
\* was at the revision looked up last; a search that fails costs no structured evidence; a clear question
\* is answered from the evidence of its preview.
AnswersGrounded ==
    part = "queries" => /\ Queries!TypeOK /\ Queries!CitationsGrounded /\ Queries!EntityFocus
                        /\ Queries!SemanticOfRevision /\ Queries!FailureKeepsStructured
                        /\ Queries!PreviewAgrees

=============================================================================
