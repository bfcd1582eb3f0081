----------------------------- MODULE Membership -----------------------------
(***************************************************************************)
(* Users, organisations and their members: app/auth/service.py over the    *)
(* SQLite repository, behind the endpoints of app/api/auth.py and          *)
(* app/api/organisations.py.                                               *)
(*                                                                         *)
(* A request is authorised, checks what it needs in a few reads and then   *)
(* writes; every write is a transaction of its own.  Other requests run    *)
(* between these steps, and the server may stop between any two of them.   *)
(* A refused request changes nothing, so it is not a step of its own.      *)
(***************************************************************************)
EXTENDS FiniteSets, Naturals

CONSTANTS
    Clients,  \* requests that may be in progress at once
    Users,    \* users, named by their normalised email
    Orgs      \* organisations, named by their slug

Roles == {"OWNER", "ADMIN", "MEMBER"}
Ops   == {"bootstrap", "found", "provision", "role", "remove",
          "disable", "enable"}

VARIABLES
    user,    \* users: absent, active or disabled
    orgs,    \* the organisations that exist
    member,  \* organisation_members: role and status of each membership
    req      \* the requests

vars == <<user, orgs, member, req>>

Idle     == [pc |-> "idle"]
NoMember == [role |-> "MEMBER", status |-> "ABSENT"]

Init ==
    /\ user = [u \in Users |-> "ABSENT"]
    /\ orgs = {}
    /\ member = [o \in Orgs |-> [u \in Users |-> NoMember]]
    /\ req = [c \in Clients |-> Idle]

At(c, pc) == req[c].pc = pc
Go(c, pc) == req' = [req EXCEPT ![c].pc = pc]
Done(c)   == req' = [req EXCEPT ![c] = Idle]

ActiveMember(o, u) == member[o][u].status = "ACTIVE"
Owners(o)          == {u \in Users : ActiveMember(o, u) /\ member[o][u].role = "OWNER"}

-----------------------------------------------------------------------------
\* MEMBER_MANAGE and ROLE_MANAGE; ORG_MANAGE is the owner's alone.
May(role, op) ==
    \/ role = "OWNER"
    \/ role = "ADMIN" /\ op \in {"provision", "role", "remove"}

\* require_org_permission, and the grant rule of add_member.
Authorised(o, u, op, role) ==
    /\ user[u] = "ACTIVE" /\ o \in orgs /\ ActiveMember(o, u)
    /\ May(member[o][u].role, op)
    /\ op = "provision" /\ role = "OWNER" => member[o][u].role = "OWNER"

\* A request arrives and is let in.
Begin(c) ==
    \E op \in Ops, u \in Users, o \in Orgs, t \in Users, r \in Roles :
        /\ At(c, "idle")
        /\ op \in {"bootstrap", "found"} => t = u /\ r = "OWNER"
        /\ op \in {"remove", "disable", "enable"} => r = "MEMBER"
        /\ CASE op = "bootstrap" -> \A v \in Users : user[v] = "ABSENT"
             [] op = "found"     -> user[u] = "ACTIVE"
             [] OTHER            -> Authorised(o, u, op, r)
        /\ req' = [req EXCEPT ![c] =
                     [pc |-> CASE op = "bootstrap" -> "user"
                               [] op = "found" -> "org"
                               [] op = "provision" -> "lookup"
                               [] op \in {"role", "remove"} -> "check"
                               [] OTHER -> "write",
                      op |-> op, by |-> u, org |-> o, target |-> t, role |-> r]]
        /\ UNCHANGED <<user, orgs, member>>

\* provision_member looks for the user; a new one needs a password.
Lookup(c) ==
    /\ At(c, "lookup")
    /\ IF user[req[c].target] = "ABSENT"
       THEN Go(c, "user") \/ Done(c)
       ELSE Go(c, "add")
    /\ UNCHANGED <<user, orgs, member>>

\* create_user: the email is unique.
CreateUser(c) ==
    LET u == req[c].target IN
    /\ At(c, "user")
    /\ IF user[u] = "ABSENT"
       THEN /\ user' = [user EXCEPT ![u] = "ACTIVE"]
            /\ Go(c, IF req[c].op = "bootstrap" THEN "org" ELSE "add")
       ELSE Done(c) /\ UNCHANGED user
    /\ UNCHANGED <<orgs, member>>

\* create_organisation: the slug is unique.
CreateOrganisation(c) ==
    /\ At(c, "org")
    /\ IF req[c].org \in orgs THEN Done(c) /\ UNCHANGED orgs
       ELSE orgs' = orgs \cup {req[c].org} /\ Go(c, "add")
    /\ UNCHANGED <<user, member>>

\* add_member: a new row, a removed one revived, or the role of an active one.
AddMember(c) ==
    /\ At(c, "add")
    /\ member' = [member EXCEPT ![req[c].org][req[c].target] =
                    [role |-> req[c].role, status |-> "ACTIVE"]]
    /\ Done(c)
    /\ UNCHANGED <<user, orgs>>

\* _ensure_not_last_owner.
OthersOwn(o, u) == Owners(o) \ {u} # {}

\* The reads of change_member_role and remove_member.
Check(c) ==
    LET o == req[c].org   u == req[c].by
        t == req[c].target   op == req[c].op   r == req[c].role
        demotes == member[o][t].role = "OWNER" /\ (op = "remove" \/ r # "OWNER")
        passes  == /\ ActiveMember(o, u) /\ ActiveMember(o, t)
                   /\ op = "role" /\ r = "OWNER" => member[o][u].role = "OWNER"
                   /\ demotes => OthersOwn(o, t)
    IN  /\ At(c, "check")
        /\ IF passes THEN Go(c, "write") ELSE Done(c)
        /\ UNCHANGED <<user, orgs, member>>

\* Mutant: the row read by the check is written back with the new role.
SetRoleWritesRow(c) ==
    /\ At(c, "write") /\ req[c].op = "role"
    /\ member' = [member EXCEPT ![req[c].org][req[c].target] =
                    [role |-> req[c].role, status |-> "ACTIVE"]]
    /\ Done(c)
    /\ UNCHANGED <<user, orgs>>

\* set_member_role: the role, whatever has become of the row.
SetRole(c) ==
    /\ At(c, "write") /\ req[c].op = "role"
    /\ member' = [member EXCEPT ![req[c].org][req[c].target].role = req[c].role]
    /\ Done(c)
    /\ UNCHANGED <<user, orgs>>

\* remove_member: a tombstone.
Remove(c) ==
    /\ At(c, "write") /\ req[c].op = "remove"
    /\ member' = [member EXCEPT ![req[c].org][req[c].target].status = "REMOVED"]
    /\ Done(c)
    /\ UNCHANGED <<user, orgs>>

\* disable_user and enable_user.
SetStatus(c) ==
    LET t == req[c].target IN
    /\ At(c, "write") /\ req[c].op \in {"disable", "enable"}
    /\ user' = [user EXCEPT ![t] = IF @ = "ABSENT" THEN @
                                   ELSE IF req[c].op = "disable" THEN "DISABLED"
                                   ELSE "ACTIVE"]
    /\ Done(c)
    /\ UNCHANGED <<orgs, member>>

\* The server stops: what is written stays, what is in progress is gone.
Crash ==
    /\ \E c \in Clients : ~ At(c, "idle")
    /\ req' = [c \in Clients |-> Idle]
    /\ UNCHANGED <<user, orgs, member>>

Step(c) ==
    \/ Begin(c) \/ Lookup(c) \/ CreateUser(c) \/ CreateOrganisation(c)
    \/ AddMember(c) \/ Check(c) \/ SetRole(c) \/ Remove(c) \/ SetStatus(c)

Next == (\E c \in Clients : Step(c)) \/ Crash

Spec == Init /\ [][Next]_vars

-----------------------------------------------------------------------------
TypeOK ==
    /\ user \in [Users -> {"ABSENT", "ACTIVE", "DISABLED"}]
    /\ orgs \subseteq Orgs
    /\ member \in [Orgs -> [Users -> [role : Roles,
                                      status : {"ABSENT", "ACTIVE", "REMOVED"}]]]
    /\ req \in [Clients -> {Idle} \cup
                 [pc : {"user", "org", "lookup", "add", "check", "write"},
                  op : Ops, by : Users, org : Orgs, target : Users, role : Roles]]

\* Every membership, also that of a request that was cut off, is of a user and
\* an organisation that were stored before.
MembersExist ==
    \A o \in Orgs, u \in Users :
        member[o][u].status # "ABSENT" => o \in orgs /\ user[u] # "ABSENT"

\* Of every step.  "The last OWNER is protected": no change of role and no removal
\* leaves an organisation without an owner that had one.
LastOwnerProtected ==
    \A o \in Orgs :
       Owners(o) # {} /\ Owners(o)' = {}
       => \E c \in Clients : req[c].pc = "add"

\* Of every step.  "Removal is a tombstone: access ends immediately": only adding the
\* member again brings a removed one back, never a change of role that was under way.
RemovalSticks ==
    \A o \in Orgs, u \in Users :
       member[o][u].status = "REMOVED" /\ member'[o][u].status = "ACTIVE"
       => \E c \in Clients : /\ At(c, "add") /\ req[c].op = "provision"
                             /\ req[c].org = o /\ req[c].target = u

=============================================================================
