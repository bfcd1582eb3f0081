-------------------------- MODULE MembershipProofs --------------------------
(***************************************************************************)
(* Theorems about Membership, for any users, organisations and clients:    *)
(* memberships are of users and organisations that exist, and a removal    *)
(* sticks; for one client at a time, the last owner stays.                 *)
(***************************************************************************)
EXTENDS Membership, TLAPS

Pcs     == {"user", "org", "lookup", "add", "check", "write"}
Request == [pc : Pcs, op : Ops, by : Users, org : Orgs, target : Users, role : Roles]
Row     == [role : Roles, status : {"ABSENT", "ACTIVE", "REMOVED"}]

\* An organisation has had a member.
Begun(o) == \E u \in Users : member[o][u].status # "ABSENT"

\* What a request that is under way has established, by its next step.
ReqOK(r) ==
    /\ r.pc = "user"   => r.op \in {"bootstrap", "provision"}
    /\ r.pc = "org"    => r.op \in {"bootstrap", "found"} /\ user[r.target] # "ABSENT"
    /\ r.pc = "lookup" => r.op = "provision"
    /\ r.pc = "add"    => /\ r.op \in {"bootstrap", "found", "provision"}
                          /\ r.org \in orgs /\ user[r.target] # "ABSENT"
                          /\ r.op # "provision" => ~ Begun(r.org)
    /\ r.pc = "check"  => r.op \in {"role", "remove"}
    /\ r.pc # "idle" /\ r.op = "provision" => Begun(r.org)
    /\ r.pc = "write" /\ r.op = "remove" => member[r.org][r.target].status # "ABSENT"

\* Only one request has created an organisation that has no member yet.
OneFounder ==
    \A c, d \in Clients :
        /\ req[c].pc = "add" /\ req[c].op # "provision"
        /\ req[d].pc = "add" /\ req[d].op # "provision"
        /\ req[c].org = req[d].org
        => c = d

\* The inductive invariant.
IInv ==
    /\ TypeOK
    /\ MembersExist
    /\ \A c \in Clients : ReqOK(req[c])
    /\ OneFounder

\* With one client, what the check has seen is still so.
StillOwned ==
    \A c \in Clients :
        LET o == req[c].org   t == req[c].target IN
        /\ req[c].pc = "write" /\ req[c].op \in {"role", "remove"}
        /\ member[o][t].role = "OWNER" /\ (req[c].op = "remove" \/ req[c].role # "OWNER")
        => OthersOwn(o, t)

OneClient == \A c, d \in Clients : c = d

-----------------------------------------------------------------------------
\* The types, as the steps use them.
LEMMA Typed ==
  ASSUME TypeOK
  PROVE  /\ user \in [Users -> {"ABSENT", "ACTIVE", "DISABLED"}] /\ orgs \subseteq Orgs
         /\ member \in [Orgs -> [Users -> Row]]
         /\ req \in [Clients -> {Idle} \cup Request]
         /\ \A c \in Clients : req[c].pc # "idle" => req[c] \in Request
BY DEF TypeOK, Row, Request, Pcs, Idle

\* A request becomes r, the others stay.
LEMMA ReqBecomes ==
  ASSUME TypeOK, NEW c \in Clients, NEW r \in {Idle} \cup Request, req' = [req EXCEPT ![c] = r]
  PROVE  /\ req' \in [Clients -> {Idle} \cup Request]
         /\ req'[c] = r
         /\ \A d \in Clients : d # c => req'[d] = req[d]
BY Typed

\* It goes to its next step.
LEMMA Going ==
  ASSUME TypeOK, NEW c \in Clients, req[c].pc # "idle", NEW p \in Pcs, Go(c, p)
  PROVE  /\ req' \in [Clients -> {Idle} \cup Request]
         /\ req'[c].pc = p /\ req'[c].op = req[c].op /\ req'[c].by = req[c].by
         /\ req'[c].org = req[c].org /\ req'[c].target = req[c].target
         /\ req'[c].role = req[c].role
         /\ \A d \in Clients : d # c => req'[d] = req[d]
<1> DEFINE k == req[c]
           r == [k EXCEPT !.pc = p]
<1>1. k \in Request
  BY Typed
<1>2. req' = [req EXCEPT ![c] = r]
  BY DEF Go
<1>3. /\ r \in Request /\ r.pc = p /\ r.op = k.op /\ r.by = k.by /\ r.org = k.org
      /\ r.target = k.target /\ r.role = k.role
  <2> HIDE DEF k
  <2> QED
    BY <1>1 DEF Request
<1> HIDE DEF r
<1>4. /\ req' \in [Clients -> {Idle} \cup Request]
      /\ req'[c] = r
      /\ \A d \in Clients : d # c => req'[d] = req[d]
  BY <1>2, <1>3, ReqBecomes
<1> QED
  BY <1>3, <1>4

\* One row of the members becomes x.
LEMMA RowBecomes ==
  ASSUME TypeOK, NEW o \in Orgs, NEW t \in Users, NEW x \in Row,
         member' = [member EXCEPT ![o][t] = x]
  PROVE  /\ member' \in [Orgs -> [Users -> Row]]
         /\ member'[o][t] = x
         /\ \A p \in Orgs, u \in Users : p # o \/ u # t => member'[p][u] = member[p][u]
<1>1. member \in [Orgs -> [Users -> Row]]
  BY Typed
<1>2. member' = [member EXCEPT ![o] = [member[o] EXCEPT ![t] = x]]
  BY <1>1
<1> DEFINE m == [member[o] EXCEPT ![t] = x]
<1>3. member[o] \in [Users -> Row]
  BY <1>1
<1>4. m \in [Users -> Row] /\ m[t] = x /\ \A u \in Users : u # t => m[u] = member[o][u]
  BY <1>3
<1> HIDE DEF m
<1>5. /\ member' \in [Orgs -> [Users -> Row]]
      /\ member'[o] = m /\ \A p \in Orgs : p # o => member'[p] = member[p]
  BY <1>1, <1>2, <1>4 DEF m
<1> QED
  BY <1>4, <1>5

\* What stays so, whatever the requests do.
Kept ==
    /\ \A u \in Users : user[u] # "ABSENT" => user'[u] # "ABSENT"
    /\ orgs \subseteq orgs'
    /\ \A o \in Orgs, u \in Users :
          member[o][u].status # "ABSENT" => member'[o][u].status # "ABSENT"

\* A request that does not move keeps what it has established, unless it is of a
\* founder and somebody joins.
LEMMA StaysOK ==
  ASSUME IInv, NEW d \in Clients, req'[d] = req[d], Kept,
         req[d].pc = "add" /\ req[d].op # "provision" => (Begun(req[d].org))' = Begun(req[d].org)
  PROVE  ReqOK(req[d])'
<1> DEFINE r == req[d]
<1>1. ReqOK(r) /\ (r.pc # "idle" => r \in Request)
  BY Typed DEF IInv
<1>2. CASE r.pc = "idle"
  BY <1>2 DEF ReqOK
<1>3. CASE r.pc # "idle"
  <2>1. r.org \in Orgs /\ r.target \in Users /\ r \in Request
    BY <1>1, <1>3 DEF Request
  <2>2. Begun(r.org) => \E u \in Users : member'[r.org][u].status # "ABSENT"
    BY <2>1 DEF Begun, Kept
  <2>3. r.pc \in {"user", "lookup", "check"} => ReqOK(req[d])'
    BY <1>1, <2>2 DEF ReqOK, Begun
  <2>4. r.pc = "org" => ReqOK(req[d])'
    BY <1>1, <2>1, <2>2 DEF ReqOK, Begun, Kept
  <2>5. r.pc = "add" => ReqOK(req[d])'
    BY <1>1, <2>1, <2>2 DEF ReqOK, Begun, Kept
  <2>6. r.pc = "write" => ReqOK(req[d])'
    BY <1>1, <2>1, <2>2 DEF ReqOK, Begun, Kept
  <2> QED
    BY <2>1, <2>3, <2>4, <2>5, <2>6 DEF Request, Pcs
<1> QED
  BY <1>2, <1>3

\* First state.
LEMMA InitHolds == Init => IInv /\ StillOwned
BY DEF Init, IInv, StillOwned, TypeOK, MembersExist, ReqOK, OneFounder, Idle, NoMember, Roles

\* What has to be shown of a step of client c.
LEMMA StepOf ==
  ASSUME IInv, NEW c \in Clients, TypeOK', MembersExist', Kept,
         \A d \in Clients : d # c => req'[d] = req[d],
         ReqOK(req[c])',
         \A d \in Clients : d # c /\ req[d].pc = "add" /\ req[d].op # "provision"
                           => (Begun(req[d].org))' = Begun(req[d].org),
         req'[c].pc = "add" /\ req'[c].op # "provision" => req'[c].org \notin orgs
  PROVE  IInv'
<1>1. \A d \in Clients : ReqOK(req[d])'
  <2> SUFFICES ASSUME NEW d \in Clients, d # c PROVE ReqOK(req[d])'
    OBVIOUS
  <2> QED
    BY StaysOK
<1>2. \A d \in Clients : req[d].pc = "add" => req[d].org \in orgs
  BY DEF IInv, ReqOK
<1>3. OneFounder'
  BY <1>2 DEF IInv, OneFounder
<1> QED
  BY <1>1, <1>3 DEF IInv

\* A step of c that writes nothing.
LEMMA NothingWritten ==
  ASSUME IInv, NEW c \in Clients, UNCHANGED <<user, orgs, member>>,
         req' \in [Clients -> {Idle} \cup Request],
         \A d \in Clients : d # c => req'[d] = req[d],
         ReqOK(req[c])',
         req'[c].pc # "add" \/ req'[c].op = "provision"
  PROVE  IInv'
<1>1. TypeOK' /\ MembersExist' /\ Kept
  BY DEF IInv, TypeOK, MembersExist, Kept, Request, Pcs
<1>2. \A o : (Begun(o))' = Begun(o)
  BY DEF Begun
<1>3. \A d \in Clients : d # c /\ req[d].pc = "add" /\ req[d].op # "provision"
                        => (Begun(req[d].org))' = Begun(req[d].org)
  BY DEF Begun
<1> QED
  BY <1>1, <1>3, StepOf

\* The request of c is over, nothing was written.
LEMMA Ends ==
  ASSUME IInv, NEW c \in Clients, UNCHANGED <<user, orgs, member>>, Done(c)
  PROVE  IInv'
<1>1. /\ req' \in [Clients -> {Idle} \cup Request] /\ req'[c] = Idle
      /\ \A d \in Clients : d # c => req'[d] = req[d]
  BY ReqBecomes DEF Done, IInv
<1>2. ReqOK(req[c])' /\ req'[c].pc = "idle"
  BY <1>1 DEF ReqOK, Idle
<1> QED
  BY <1>1, <1>2, NothingWritten

\* A request that is let in.
LEMMA LetIn ==
  ASSUME IInv, NEW c \in Clients, Begin(c)
  PROVE  \E r \in Request :
            /\ req' = [req EXCEPT ![c] = r] /\ UNCHANGED <<user, orgs, member>>
            /\ ReqOK(r) /\ r.pc # "add"
            /\ r.pc = "write" => r.op \notin {"role", "remove"}
<1>1. PICK op \in Ops, u \in Users, o \in Orgs, t \in Users, role \in Roles :
        /\ At(c, "idle")
        /\ op \in {"bootstrap", "found"} => t = u /\ role = "OWNER"
        /\ op \in {"remove", "disable", "enable"} => role = "MEMBER"
        /\ CASE op = "bootstrap" -> \A v \in Users : user[v] = "ABSENT"
             [] op = "found"     -> user[u] = "ACTIVE"
             [] OTHER            -> Authorised(o, u, op, role)
        /\ req' = [req EXCEPT ![c] =
                     [pc |-> CASE op = "bootstrap" -> "user"
                               [] op = "found" -> "org"
                               [] op = "provision" -> "lookup"
                               [] op \in {"role", "remove"} -> "check"
                               [] OTHER -> "write",
                      op |-> op, by |-> u, org |-> o, target |-> t, role |-> role]]
        /\ UNCHANGED <<user, orgs, member>>
  BY Zenon DEF Begin
<1> DEFINE p == CASE op = "bootstrap" -> "user"
                  [] op = "found" -> "org"
                  [] op = "provision" -> "lookup"
                  [] op \in {"role", "remove"} -> "check"
                  [] OTHER -> "write"
           r == [pc |-> p, op |-> op, by |-> u, org |-> o, target |-> t, role |-> role]
<1>2. /\ p \in {"user", "org", "lookup", "check", "write"}
      /\ p = "user" => op = "bootstrap"
      /\ p = "org" => op = "found"
      /\ p = "lookup" => op = "provision"
      /\ p = "check" => op \in {"role", "remove"}
      /\ p = "write" => op \notin {"role", "remove", "provision"}
  BY DEF Ops
<1>3. req' = [req EXCEPT ![c] = r]
  BY <1>1
<1>4. op = "found" => user[t] # "ABSENT"
  BY <1>1
<1>5. op = "provision" => Begun(o)
  BY <1>1 DEF Authorised, ActiveMember, Begun
<1> HIDE DEF p
<1>6. r \in Request
  BY <1>2 DEF Request, Pcs
<1>7. ReqOK(r)
  BY <1>2, <1>4, <1>5 DEF ReqOK
<1>8. r.pc # "add" /\ (r.pc = "write" => r.op \notin {"role", "remove"})
  BY <1>2
<1> HIDE DEF r
<1> QED
  BY <1>1, <1>3, <1>6, <1>7, <1>8

LEMMA BeginStep ==
  ASSUME IInv, NEW c \in Clients, Begin(c)
  PROVE  IInv'
<1>1. PICK r \in Request :
         /\ req' = [req EXCEPT ![c] = r] /\ UNCHANGED <<user, orgs, member>>
         /\ ReqOK(r) /\ r.pc # "add"
  BY LetIn
<1>2. /\ req' \in [Clients -> {Idle} \cup Request] /\ req'[c] = r
      /\ \A d \in Clients : d # c => req'[d] = req[d]
  BY <1>1, ReqBecomes DEF IInv
<1>3. ReqOK(req[c])'
  BY <1>1, <1>2 DEF ReqOK, Begun
<1> QED
  BY <1>1, <1>2, <1>3, NothingWritten

LEMMA LookupStep ==
  ASSUME IInv, NEW c \in Clients, Lookup(c)
  PROVE  IInv'
<1>1. /\ req[c].pc = "lookup" /\ req[c].op = "provision" /\ Begun(req[c].org)
      /\ req[c] \in Request /\ req[c].org \in Orgs /\ UNCHANGED <<user, orgs, member>>
      /\ TypeOK /\ MembersExist
  BY Typed DEF IInv, ReqOK, Lookup, At, Request
<1>2. CASE Done(c)
  BY <1>1, <1>2, Ends
<1>3. ASSUME NEW p \in {"user", "add"}, Go(c, p), p = "add" => user[req[c].target] # "ABSENT"
      PROVE  IInv'
  <2>1. /\ req' \in [Clients -> {Idle} \cup Request]
        /\ req'[c].pc = p /\ req'[c].op = req[c].op
        /\ req'[c].org = req[c].org /\ req'[c].target = req[c].target
        /\ \A d \in Clients : d # c => req'[d] = req[d]
    BY <1>1, <1>3, Going DEF Pcs
  <2>2. req[c].org \in orgs
    BY <1>1 DEF MembersExist, Begun
  <2>3. ReqOK(req[c])'
    BY <1>1, <1>3, <2>1, <2>2 DEF ReqOK, Begun
  <2> QED
    BY <1>1, <2>1, <2>3, NothingWritten
<1> QED
  BY <1>2, <1>3 DEF Lookup

LEMMA CreateUserStep ==
  ASSUME IInv, NEW c \in Clients, CreateUser(c)
  PROVE  IInv'
<1> DEFINE u == req[c].target
<1>1. /\ TypeOK /\ MembersExist /\ ReqOK(req[c]) /\ req[c].pc = "user" /\ req[c] \in Request
      /\ u \in Users /\ req[c].op \in {"bootstrap", "provision"}
      /\ req[c].op = "provision" => Begun(req[c].org)
  BY Typed DEF IInv, ReqOK, CreateUser, At, Request
<1>2. CASE user[u] # "ABSENT"
  BY <1>2, Ends DEF CreateUser
<1>3. CASE user[u] = "ABSENT"
  <2> DEFINE p == IF req[c].op = "bootstrap" THEN "org" ELSE "add"
  <2>1. user' = [user EXCEPT ![u] = "ACTIVE"] /\ Go(c, p) /\ UNCHANGED <<orgs, member>>
    BY <1>3 DEF CreateUser
  <2>2. /\ user' \in [Users -> {"ABSENT", "ACTIVE", "DISABLED"}] /\ user'[u] = "ACTIVE"
        /\ \A v \in Users : v # u => user'[v] = user[v]
    BY <1>1, <2>1, Typed
  <2>3. p \in {"org", "add"} /\ (p = "org" <=> req[c].op = "bootstrap")
    OBVIOUS
  <2> HIDE DEF p
  <2>4. /\ req' \in [Clients -> {Idle} \cup Request]
        /\ req'[c].pc = p /\ req'[c].op = req[c].op
        /\ req'[c].org = req[c].org /\ req'[c].target = u
        /\ \A d \in Clients : d # c => req'[d] = req[d]
    BY <1>1, <2>1, <2>3, Going DEF Pcs
  <2>5. TypeOK' /\ MembersExist' /\ Kept
    BY <1>1, <2>1, <2>2, <2>4 DEF TypeOK, MembersExist, Kept, Request, Pcs
  <2>6. p = "add" => req[c].org \in orgs
    BY <1>1, <2>3 DEF MembersExist, Begun, Request
  <2>7. ReqOK(req[c])'
    BY <1>1, <2>1, <2>2, <2>3, <2>4, <2>6 DEF ReqOK, Begun
  <2>8. \A d \in Clients : (Begun(req[d].org))' = Begun(req'[d].org)
    BY <2>1 DEF Begun
  <2>9. \A d \in Clients : d # c /\ req[d].pc = "add" /\ req[d].op # "provision"
                         => (Begun(req[d].org))' = Begun(req[d].org)
    BY <2>4, <2>8
  <2> QED
    BY <1>1, <2>3, <2>4, <2>5, <2>7, <2>9, StepOf
<1> QED
  BY <1>2, <1>3

LEMMA CreateOrganisationStep ==
  ASSUME IInv, NEW c \in Clients, CreateOrganisation(c)
  PROVE  IInv'
<1> DEFINE o == req[c].org
<1>1. /\ TypeOK /\ MembersExist /\ req[c].pc = "org" /\ req[c] \in Request
      /\ o \in Orgs /\ req[c].op \in {"bootstrap", "found"} /\ user[req[c].target] # "ABSENT"
  BY Typed DEF IInv, ReqOK, CreateOrganisation, At, Request
<1>2. CASE o \in orgs
  BY <1>2, Ends DEF CreateOrganisation
<1>3. CASE o \notin orgs
  <2>1. orgs' = orgs \cup {o} /\ Go(c, "add") /\ UNCHANGED <<user, member>>
    BY <1>3 DEF CreateOrganisation
  <2>2. /\ req' \in [Clients -> {Idle} \cup Request]
        /\ req'[c].pc = "add" /\ req'[c].op = req[c].op
        /\ req'[c].org = o /\ req'[c].target = req[c].target
        /\ \A d \in Clients : d # c => req'[d] = req[d]
    BY <1>1, <2>1, Going DEF Pcs
  <2>3. TypeOK' /\ MembersExist' /\ Kept
    BY <1>1, <2>1, <2>2 DEF TypeOK, MembersExist, Kept, Request, Pcs
  <2>4. ~ Begun(o)
    BY <1>1, <1>3 DEF MembersExist, Begun
  <2>5. ReqOK(req[c])'
    BY <1>1, <2>1, <2>2, <2>4 DEF ReqOK, Begun
  <2>6. \A d \in Clients : (Begun(req[d].org))' = Begun(req'[d].org)
    BY <2>1 DEF Begun
  <2>7. \A d \in Clients : d # c /\ req[d].pc = "add" /\ req[d].op # "provision"
                         => (Begun(req[d].org))' = Begun(req[d].org)
    BY <2>2, <2>6
  <2> QED
    BY <1>3, <2>2, <2>3, <2>5, <2>7, StepOf
<1> QED
  BY <1>2, <1>3

LEMMA CheckStep ==
  ASSUME IInv, NEW c \in Clients, Check(c)
  PROVE  IInv'
<1>1. /\ TypeOK /\ req[c].pc = "check" /\ req[c] \in Request /\ req[c].op \in {"role", "remove"}
      /\ UNCHANGED <<user, orgs, member>>
  BY Typed DEF IInv, ReqOK, Check, At
<1>2. CASE Done(c)
  BY <1>1, <1>2, Ends
<1>3. CASE Go(c, "write") /\ ActiveMember(req[c].org, req[c].target)
  <2>1. /\ req' \in [Clients -> {Idle} \cup Request]
        /\ req'[c].pc = "write" /\ req'[c].op = req[c].op
        /\ req'[c].org = req[c].org /\ req'[c].target = req[c].target
        /\ \A d \in Clients : d # c => req'[d] = req[d]
    BY <1>1, <1>3, Going DEF Pcs
  <2>2. ReqOK(req[c])'
    BY <1>1, <1>3, <2>1 DEF ReqOK, ActiveMember
  <2> QED
    BY <1>1, <2>1, <2>2, NothingWritten
<1> QED
  BY <1>2, <1>3 DEF Check

\* A write to the row of a member that is over with it.
LEMMA RowWritten ==
  ASSUME IInv, NEW c \in Clients, NEW x \in Row, NEW o \in Orgs, NEW t \in Users,
         o = req[c].org, t = req[c].target,
         member' \in [Orgs -> [Users -> Row]], member'[o][t] = x,
         \A p \in Orgs, u \in Users : p # o \/ u # t => member'[p][u] = member[p][u],
         Done(c), UNCHANGED <<user, orgs>>,
         member[o][t].status # "ABSENT" => x.status # "ABSENT",
         x.status # "ABSENT" => o \in orgs /\ user[t] # "ABSENT",
         \A d \in Clients : d # c /\ req[d].pc = "add" /\ req[d].op # "provision"
                           /\ req[d].org = o /\ x.status # "ABSENT" => Begun(o)
  PROVE  IInv'
<1>1. TypeOK /\ MembersExist
  BY DEF IInv
<1>2. /\ member' \in [Orgs -> [Users -> Row]] /\ member'[o][t] = x
      /\ \A p \in Orgs, u \in Users : p # o \/ u # t => member'[p][u] = member[p][u]
  OBVIOUS
<1>3. /\ req' \in [Clients -> {Idle} \cup Request] /\ req'[c] = Idle
      /\ \A d \in Clients : d # c => req'[d] = req[d]
  BY <1>1, ReqBecomes DEF Done
<1>4. TypeOK'
  BY <1>1, <1>2, <1>3 DEF TypeOK, Request, Pcs, Row
<1>5. MembersExist'
  BY <1>1, <1>2 DEF MembersExist
<1>6. Kept
  BY <1>1, <1>2 DEF Kept
<1>7. ASSUME NEW d \in Clients, d # c, req[d].pc = "add", req[d].op # "provision"
      PROVE  (Begun(req[d].org))' = Begun(req[d].org)
  <2>1. req[d].org \in Orgs /\ ~ Begun(req[d].org) /\ req'[d].org = req[d].org
    BY <1>1, <1>3, <1>7, Typed DEF IInv, ReqOK, Request
  <2>2. \A u \in Users : member[req[d].org][u].status = "ABSENT"
    BY <2>1 DEF Begun
  <2>3. req[d].org = o => x.status = "ABSENT"
    BY <1>7, <2>1
  <2>4. \A u \in Users : member'[req[d].org][u].status = "ABSENT"
    BY <1>1, <1>2, <2>1, <2>2, <2>3
  <2> QED
    BY <2>1, <2>4 DEF Begun
<1>8. ReqOK(req[c])' /\ req'[c].pc = "idle"
  BY <1>3 DEF ReqOK, Idle
<1> QED
  BY <1>3, <1>4, <1>5, <1>6, <1>7, <1>8, StepOf

\* Rows are the only thing these three write; only the first makes a member active.
LEMMA AddStep ==
  ASSUME IInv, NEW c \in Clients, AddMember(c)
  PROVE  IInv' /\ RemovalSticks
<1> DEFINE o == req[c].org   t == req[c].target   x == [role |-> req[c].role, status |-> "ACTIVE"]
<1>1. /\ TypeOK /\ req[c].pc = "add" /\ req[c] \in Request /\ ReqOK(req[c])
      /\ o \in Orgs /\ t \in Users /\ x \in Row
  BY Typed DEF IInv, AddMember, At, Request, Row
<1>2. member' = [member EXCEPT ![o][t] = x] /\ Done(c) /\ UNCHANGED <<user, orgs>>
  BY DEF AddMember
<1>3. /\ o \in orgs /\ user[t] # "ABSENT" /\ req[c].op \in {"bootstrap", "found", "provision"}
      /\ req[c].op = "provision" => Begun(o)
      /\ req[c].op # "provision" => ~ Begun(o)
  BY <1>1 DEF ReqOK
<1>4. \A d \in Clients : d # c /\ req[d].pc = "add" /\ req[d].op # "provision" /\ req[d].org = o
                        => Begun(o)
  BY <1>1, <1>3 DEF IInv, OneFounder
<1>5. x.status = "ACTIVE"
  OBVIOUS
<1>6. /\ member' \in [Orgs -> [Users -> Row]] /\ member'[o][t] = x
      /\ \A p \in Orgs, u \in Users : p # o \/ u # t => member'[p][u] = member[p][u]
  <2>1. member' = [member EXCEPT ![o][t] = x]
    BY <1>2
  <2> HIDE DEF o, t, x
  <2> QED
    BY <1>1, <2>1, RowBecomes, ZenonT(60)
<1>7. IInv'
  <2> HIDE DEF x
  <2> QED
    BY <1>1, <1>2, <1>3, <1>4, <1>5, <1>6, RowWritten
<1>8. RemovalSticks
  BY <1>1, <1>3, <1>6 DEF RemovalSticks, At, Begun
<1> QED
  BY <1>7, <1>8

LEMMA RoleStep ==
  ASSUME IInv, NEW c \in Clients, SetRole(c)
  PROVE  IInv' /\ RemovalSticks
<1> DEFINE o == req[c].org   t == req[c].target   y == member[o][t]
           x == [y EXCEPT !.role = req[c].role]
<1>1. /\ TypeOK /\ MembersExist /\ req[c].pc = "write" /\ req[c] \in Request /\ req[c].role \in Roles
      /\ o \in Orgs /\ t \in Users /\ member \in [Orgs -> [Users -> Row]]
  BY Typed DEF IInv, SetRole, At, Request
<1>2. member' = [member EXCEPT ![o][t] = x] /\ Done(c) /\ UNCHANGED <<user, orgs>>
  BY <1>1 DEF SetRole
<1>3. y \in Row
  BY <1>1
<1>4. x \in Row /\ x.status = y.status
  <2> HIDE DEF y
  <2> QED
    BY <1>1, <1>3 DEF Row
<1>5. y.status # "ABSENT" => o \in orgs /\ user[t] # "ABSENT" /\ Begun(o)
  BY <1>1 DEF MembersExist, Begun
<1>6. /\ member' \in [Orgs -> [Users -> Row]] /\ member'[o][t] = x
      /\ \A p \in Orgs, u \in Users : p # o \/ u # t => member'[p][u] = member[p][u]
  <2> HIDE DEF o, t, x
  <2> QED
    BY <1>1, <1>2, <1>4, RowBecomes
<1>7. IInv'
  <2> HIDE DEF x
  <2> QED
    BY <1>1, <1>2, <1>4, <1>5, <1>6, RowWritten
<1>8. RemovalSticks
  <2> HIDE DEF x
  <2> QED
    BY <1>1, <1>4, <1>6 DEF RemovalSticks
<1> QED
  BY <1>7, <1>8

LEMMA RemoveStep ==
  ASSUME IInv, NEW c \in Clients, Remove(c)
  PROVE  IInv' /\ RemovalSticks
<1> DEFINE o == req[c].org   t == req[c].target   y == member[o][t]
           x == [y EXCEPT !.status = "REMOVED"]
<1>1. /\ TypeOK /\ MembersExist /\ req[c].pc = "write" /\ req[c].op = "remove" /\ req[c] \in Request
      /\ o \in Orgs /\ t \in Users /\ member \in [Orgs -> [Users -> Row]] /\ ReqOK(req[c])
  BY Typed DEF IInv, Remove, At, Request
<1>2. member' = [member EXCEPT ![o][t] = x] /\ Done(c) /\ UNCHANGED <<user, orgs>>
  BY <1>1 DEF Remove
<1>3. y \in Row /\ y.status # "ABSENT"
  BY <1>1 DEF ReqOK
<1>4. x \in Row /\ x.status = "REMOVED"
  <2> HIDE DEF y
  <2> QED
    BY <1>1, <1>3 DEF Row
<1>5. o \in orgs /\ user[t] # "ABSENT" /\ Begun(o)
  BY <1>1, <1>3 DEF MembersExist, Begun
<1>6. /\ member' \in [Orgs -> [Users -> Row]] /\ member'[o][t] = x
      /\ \A p \in Orgs, u \in Users : p # o \/ u # t => member'[p][u] = member[p][u]
  <2> HIDE DEF o, t, x
  <2> QED
    BY <1>1, <1>2, <1>4, RowBecomes
<1>7. IInv'
  <2> HIDE DEF x
  <2> QED
    BY <1>1, <1>2, <1>4, <1>5, <1>6, RowWritten
<1>8. RemovalSticks
  <2> HIDE DEF x
  <2> QED
    BY <1>1, <1>4, <1>6 DEF RemovalSticks
<1> QED
  BY <1>7, <1>8

LEMMA SetStatusStep ==
  ASSUME IInv, NEW c \in Clients, SetStatus(c)
  PROVE  IInv'
<1> DEFINE t == req[c].target
<1>1. TypeOK /\ MembersExist /\ t \in Users
  BY Typed DEF IInv, SetStatus, At, Request
<1>2. /\ user' \in [Users -> {"ABSENT", "ACTIVE", "DISABLED"}] /\ UNCHANGED <<orgs, member>>
      /\ \A u \in Users : user[u] # "ABSENT" => user'[u] # "ABSENT"
  BY <1>1, Typed DEF SetStatus
<1>3. /\ req' \in [Clients -> {Idle} \cup Request] /\ req'[c] = Idle
      /\ \A d \in Clients : d # c => req'[d] = req[d]
  BY <1>1, ReqBecomes DEF Done, SetStatus
<1>4. TypeOK' /\ MembersExist' /\ Kept
  BY <1>1, <1>2, <1>3 DEF TypeOK, MembersExist, Kept, Request, Pcs
<1>5. \A d \in Clients : (Begun(req[d].org))' = Begun(req'[d].org)
  BY <1>2 DEF Begun
<1>6. \A d \in Clients : d # c /\ req[d].pc = "add" /\ req[d].op # "provision"
                       => (Begun(req[d].org))' = Begun(req[d].org)
  BY <1>3, <1>5
<1>7. ReqOK(req[c])' /\ req'[c].pc = "idle"
  BY <1>3 DEF ReqOK, Idle
<1> QED
  BY <1>3, <1>4, <1>6, <1>7, StepOf

LEMMA CrashStep == IInv /\ Crash => IInv'
<1> SUFFICES ASSUME IInv, Crash PROVE IInv'
  OBVIOUS
<1>1. \A c \in Clients : req'[c] = Idle
  BY DEF Crash
<1> QED
  BY <1>1 DEF IInv, Crash, TypeOK, MembersExist, ReqOK, OneFounder, Idle

\* Every step keeps the invariant, and no step but an addition makes a removed
\* member active.
LEMMA StepHolds == IInv /\ [Next]_vars => IInv' /\ [RemovalSticks]_vars
<1> SUFFICES ASSUME IInv, [Next]_vars PROVE IInv' /\ [RemovalSticks]_vars
  OBVIOUS
<1>1. member' = member => RemovalSticks
  BY DEF RemovalSticks
<1>2. ASSUME NEW c \in Clients, Step(c) PROVE IInv' /\ RemovalSticks
  <2>1. CASE Begin(c)
    BY <1>1, <2>1, BeginStep DEF Begin
  <2>2. CASE Lookup(c)
    BY <1>1, <2>2, LookupStep DEF Lookup
  <2>3. CASE CreateUser(c)
    BY <1>1, <2>3, CreateUserStep DEF CreateUser
  <2>4. CASE CreateOrganisation(c)
    BY <1>1, <2>4, CreateOrganisationStep DEF CreateOrganisation
  <2>5. CASE AddMember(c)
    BY <2>5, AddStep
  <2>6. CASE Check(c)
    BY <1>1, <2>6, CheckStep DEF Check
  <2>7. CASE SetRole(c)
    BY <2>7, RoleStep
  <2>8. CASE Remove(c)
    BY <2>8, RemoveStep
  <2>9. CASE SetStatus(c)
    BY <1>1, <2>9, SetStatusStep DEF SetStatus
  <2> QED
    BY <1>2, <2>1, <2>2, <2>3, <2>4, <2>5, <2>6, <2>7, <2>8, <2>9 DEF Step
<1>3. CASE Crash
  BY <1>1, <1>3, CrashStep DEF Crash
<1>4. CASE UNCHANGED vars
  BY <1>4 DEF vars, IInv, TypeOK, MembersExist, ReqOK, OneFounder, Begun
<1> QED
  BY <1>2, <1>3, <1>4 DEF Next

-----------------------------------------------------------------------------
(* One client at a time.                                                   *)

\* A change of role or a removal whose check still stands leaves an owner.
LEMMA OwnerLeft ==
  ASSUME IInv, StillOwned, NEW c \in Clients, SetRole(c) \/ Remove(c)
  PROVE  LastOwnerProtected
<1> DEFINE o == req[c].org   t == req[c].target   y == member[o][t]
           x == IF req[c].op = "role" THEN [y EXCEPT !.role = req[c].role]
                                      ELSE [y EXCEPT !.status = "REMOVED"]
<1>1. /\ TypeOK /\ req[c].pc = "write" /\ req[c].op \in {"role", "remove"} /\ req[c] \in Request
      /\ req[c].role \in Roles /\ o \in Orgs /\ t \in Users /\ member \in [Orgs -> [Users -> Row]]
  BY Typed DEF IInv, SetRole, Remove, At, Request
<1>2. member' = [member EXCEPT ![o][t] = x]
  BY <1>1 DEF SetRole, Remove
<1>3. y \in Row
  BY <1>1
<1>4. x \in Row /\ (req[c].op = "role" => x.status = y.status /\ x.role = req[c].role)
  <2> HIDE DEF y
  <2> QED
    BY <1>1, <1>3 DEF Row
<1>5. /\ member'[o][t] = x
      /\ \A p \in Orgs, u \in Users : p # o \/ u # t => member'[p][u] = member[p][u]
  <2> HIDE DEF o, t, x
  <2> QED
    BY <1>1, <1>2, <1>4, RowBecomes
<1> SUFFICES ASSUME NEW p \in Orgs, NEW v \in Users, v \in Owners(p)
             PROVE  \E u \in Users : u \in Owners(p)'
  BY DEF LastOwnerProtected, Owners
<1> HIDE DEF x
<1>6. CASE p # o \/ v # t
  <2>1. member'[p][v] = member[p][v]
    BY <1>5, <1>6
  <2> QED
    BY <2>1 DEF Owners, ActiveMember
<1>7. CASE p = o /\ v = t
  <2>1. y.status = "ACTIVE" /\ y.role = "OWNER"
    BY <1>7 DEF Owners, ActiveMember
  <2>2. CASE req[c].op = "role" /\ req[c].role = "OWNER"
    <3>1. member'[p][v] = x /\ x.status = "ACTIVE" /\ x.role = "OWNER"
      BY <1>4, <1>5, <1>7, <2>1, <2>2
    <3> QED
      BY <3>1 DEF Owners, ActiveMember
  <2>3. CASE ~ (req[c].op = "role" /\ req[c].role = "OWNER")
    <3>1. OthersOwn(o, t)
      BY <1>1, <2>1, <2>3 DEF StillOwned
    <3>2. PICK u \in Users : u \in Owners(o) /\ u # t
      BY <3>1 DEF OthersOwn, Owners
    <3>3. member'[p][u] = member[p][u]
      BY <1>5, <1>7, <3>2
    <3> QED
      BY <1>7, <3>2, <3>3 DEF Owners, ActiveMember
  <2> QED
    BY <2>2, <2>3
<1> QED
  BY <1>6, <1>7

\* Every step keeps what the check has seen, and protects the last owner.
LEMMA OwnerStep ==
  ASSUME IInv, StillOwned, OneClient, [Next]_vars
  PROVE  StillOwned' /\ [LastOwnerProtected]_vars
<1> DEFINE Wants(c) == req[c].pc = "write" /\ req[c].op \in {"role", "remove"}
<1>1. member' = member => LastOwnerProtected
  BY DEF LastOwnerProtected, Owners, ActiveMember
<1>2. ASSUME NEW c \in Clients, ~ Wants(c)' PROVE StillOwned'
  BY <1>2 DEF OneClient, StillOwned
<1>3. ASSUME NEW c \in Clients, Done(c) PROVE ~ Wants(c)'
  <2>1. req'[c] = Idle
    BY <1>3, ReqBecomes DEF Done, IInv
  <2> QED
    BY <2>1 DEF Idle
<1>4. ASSUME NEW c \in Clients, NEW p \in Pcs \ {"write"}, req[c].pc # "idle", Go(c, p)
      PROVE  ~ Wants(c)'
  <2>1. req'[c].pc = p
    BY <1>4, Going DEF IInv
  <2> QED
    BY <2>1
<1> HIDE DEF Wants
<1>5. ASSUME NEW c \in Clients, Step(c) PROVE StillOwned' /\ LastOwnerProtected
  <2>1. CASE Begin(c)
    <3>1. ~ Wants(c)'
      <4>1. PICK r \in Request :
               req' = [req EXCEPT ![c] = r] /\ (r.pc = "write" => r.op \notin {"role", "remove"})
        BY <2>1, LetIn
      <4>2. req'[c] = r
        BY <4>1, ReqBecomes DEF IInv
      <4> QED
        BY <4>1, <4>2 DEF Wants
    <3> QED
      BY <1>1, <1>2, <2>1, <3>1 DEF Begin
  <2>2. CASE Lookup(c)
    BY <1>1, <1>2, <1>3, <1>4, <2>2 DEF Lookup, At, Pcs
  <2>3. CASE CreateUser(c)
    <3>1. /\ req[c].pc = "user" /\ member' = member
          /\ Done(c) \/ Go(c, "org") \/ Go(c, "add")
      BY <2>3 DEF CreateUser, At
    <3> QED
      BY <1>1, <1>2, <1>3, <1>4, <3>1 DEF Pcs
  <2>4. CASE CreateOrganisation(c)
    BY <1>1, <1>2, <1>3, <1>4, <2>4 DEF CreateOrganisation, At, Pcs
  <2>5. CASE AddMember(c)
    BY <1>2, <1>3, <2>5 DEF AddMember, At, LastOwnerProtected
  <2>6. CASE Check(c)
    <3>1. LastOwnerProtected
      BY <1>1, <2>6 DEF Check
    <3>2. CASE Done(c)
      BY <1>2, <1>3, <3>1, <3>2
    <3>3. CASE Go(c, "write") /\ ~ Done(c)
      <4>1. /\ req'[c].pc = "write" /\ req'[c].op = req[c].op /\ req'[c].role = req[c].role
            /\ req'[c].org = req[c].org /\ req'[c].target = req[c].target
        BY <2>6, <3>3, Going DEF Check, At, IInv, Pcs
      <4>2. LET o == req[c].org   t == req[c].target IN
            member[o][t].role = "OWNER" /\ (req[c].op = "remove" \/ req[c].role # "OWNER")
            => OthersOwn(o, t)
        BY <2>6, <3>3 DEF Check
      <4>3. member' = member
        BY <2>6 DEF Check
      <4>4. \A d \in Clients : d = c
        BY DEF OneClient
      <4> DEFINE o == req[c].org   t == req[c].target
      <4>5. OthersOwn(o, t) => OthersOwn(o, t)'
        BY <4>1, <4>3 DEF OthersOwn, Owners, ActiveMember
      <4>6. member'[o][t] = member[o][t]
        BY <4>3
      <4>7. LET p == req'[c].org   u == req'[c].target IN
            member'[p][u].role = "OWNER" /\ (req'[c].op = "remove" \/ req'[c].role # "OWNER")
            => OthersOwn(o, t)'
        BY <4>1, <4>2, <4>5, <4>6
      <4>8. StillOwned'
        BY <4>1, <4>4, <4>7 DEF StillOwned
      <4> QED
        BY <3>1, <4>8
    <3> QED
      BY <2>6, <3>2, <3>3 DEF Check
  <2>7. CASE SetRole(c) \/ Remove(c)
    BY <1>2, <1>3, <2>7, OwnerLeft DEF SetRole, Remove
  <2>8. CASE SetStatus(c)
    BY <1>1, <1>2, <1>3, <2>8 DEF SetStatus
  <2> QED
    BY <1>5, <2>1, <2>2, <2>3, <2>4, <2>5, <2>6, <2>7, <2>8 DEF Step
<1>6. CASE Crash
  BY <1>1, <1>6 DEF Crash, StillOwned, Idle
<1>7. CASE UNCHANGED vars
  BY <1>7 DEF vars, StillOwned, OthersOwn, Owners, ActiveMember
<1> QED
  BY <1>5, <1>6, <1>7 DEF Next

-----------------------------------------------------------------------------
\* Of any requests the invariant holds: it includes the types, that memberships are of
\* users and organisations that exist, and that one request at most has founded an
\* organisation nobody has joined.
THEOREM Invariant == Spec => []IInv
<1>1. IInv /\ [Next]_vars => IInv'
  BY StepHolds
<1> QED
  BY <1>1, InitHolds, PTL DEF Spec

\* Every membership, also that of a request that was cut off, is of a user and an
\* organisation that were stored before.
THEOREM Members == Spec => [](TypeOK /\ MembersExist)
<1>1. IInv => TypeOK /\ MembersExist
  BY DEF IInv
<1> QED
  BY <1>1, Invariant, PTL

\* Only adding the member again brings a removed one back, whatever overlaps.
THEOREM Removals == Spec => [][RemovalSticks]_vars
<1>1. IInv /\ [Next]_vars => [RemovalSticks]_vars
  BY StepHolds
<1> QED
  BY <1>1, Invariant, PTL DEF Spec

\* One request at a time: no change of role and no removal takes the last owner.
THEOREM LastOwner == OneClient /\ Spec => [][LastOwnerProtected]_vars
<1> SUFFICES ASSUME OneClient PROVE Spec => [][LastOwnerProtected]_vars
  OBVIOUS
<1>1. Init => IInv /\ StillOwned
  BY InitHolds
<1>2. IInv /\ StillOwned /\ [Next]_vars => IInv' /\ StillOwned' /\ [LastOwnerProtected]_vars
  BY StepHolds, OwnerStep
<1> QED
  BY <1>1, <1>2, PTL DEF Spec
=============================================================================
