------------------------------ MODULE Accounts ------------------------------
(***************************************************************************)
(* Accounts, roles, grants, bucket ownership and sessions (db/rbac.rs,     *)
(* server/session_auth.rs and the /auth, /accounts, /roles and /buckets    *)
(* routes of server/settings_routes.rs).                                   *)
(*                                                                         *)
(* A handler is admitted by its session, then checked, then writes, each   *)
(* in a statement of its own, so that what it was allowed to do may have   *)
(* been taken back when it does it.  Account, role and bucket ids are      *)
(* AUTOINCREMENT and never used again; a token stands for any random token *)
(* no session has.  The four CRUD flags of a grant are treated alike: a    *)
(* grant is one of them.  Names, positions and display names are left out; *)
(* the one name that decides something, `storage`, is the seeded bucket's. *)
(***************************************************************************)
EXTENDS Naturals, FiniteSets

CONSTANTS
    Accounts,
    Roles,
    OwnerRole,      \* the role with is_owner = 1, seeded by migration 0003
    Buckets,
    Seeded,         \* those that exist at the start: `storage`, or none
    Tokens,
    Requests,
    Nobody

ASSUME AccountsAssumption ==
    /\ OwnerRole \in Roles
    /\ Seeded \subseteq Buckets
    /\ Nobody \notin Accounts \cup Roles \cup Buckets
    /\ Requests \cap Tokens = {}

VARIABLES
    account,  \* [Accounts -> "none", "enabled", "disabled" or "deleted"]
    creator,  \* created_by_account_id, ON DELETE SET NULL
    roles,    \* [Roles -> "none", "live" or "deleted"]
    holds,    \* rows of account_role
    buckets,  \* [Buckets -> "none", "live" or "deleted"]
    owner,    \* owner_account_id, ON DELETE SET NULL
    grants,   \* rows of role_bucket_permission
    session,  \* [Tokens -> the account_id of the session, or Nobody]
    \* handlers
    op,       \* the route
    pc,       \* the await it is at
    actor,    \* the account the session belongs to
    subject,  \* the account it works on
    target,   \* the bucket it works on
    \* history
    outdated, \* handlers in auth_login, and tokens, whose password was reset
    astray,   \* tokens of sessions that no sweep has seen or could delete
    excused   \* something has happened that may leave nobody in charge

tables  == <<account, creator, roles, holds, buckets, owner, grants>>
control == <<op, pc, actor, subject, target>>
history == <<outdated, astray, excused>>
vars    == <<account, creator, roles, holds, buckets, owner, grants, session,
             op, pc, actor, subject, target, outdated, astray, excused>>

\* "admin" stands for the routes that begin with require_owner: which one it is
\* shows in what it writes.
Ops == {"admin", "deleteAccount", "patchBucket", "login", "bootstrap", "none"}
Pcs == {"idle", "check", "write", "assign", "claim", "open", "grant", "sweep"}

TypeOK ==
    /\ account \in [Accounts -> {"none", "enabled", "disabled", "deleted"}]
    /\ creator \in [Accounts -> Accounts \cup {Nobody}]
    /\ roles \in [Roles -> {"none", "live", "deleted"}]
    /\ holds \subseteq Accounts \X Roles
    /\ buckets \in [Buckets -> {"none", "live", "deleted"}]
    /\ owner \in [Buckets -> Accounts \cup {Nobody}]
    /\ grants \subseteq Roles \X Buckets
    /\ session \in [Tokens -> Accounts \cup {Nobody}]
    /\ op \in [Requests -> Ops]
    /\ pc \in [Requests -> Pcs]
    /\ actor \in [Requests -> Accounts \cup {Nobody}]
    /\ subject \in [Requests -> Accounts \cup {Nobody}]
    /\ target \in [Requests -> Buckets \cup {Nobody}]
    /\ outdated \subseteq Requests \cup Tokens
    /\ astray \subseteq Tokens
    /\ excused \in BOOLEAN

Exists(a)   == account[a] \in {"enabled", "disabled"}
IsOwner(a)  == <<a, OwnerRole>> \in holds
Live(table) == {x \in DOMAIN table : table[x] = "live"}
SessionsOf(a) == {t \in Tokens : session[t] = a}

\* Who could still administer the server.
InCharge == {a \in Accounts : account[a] = "enabled" /\ IsOwner(a)}

Init ==
    /\ account = [a \in Accounts |-> "none"]
    /\ creator = [a \in Accounts |-> Nobody]
    /\ roles = [r \in Roles |-> IF r = OwnerRole THEN "live" ELSE "none"]
    /\ holds = {}
    /\ buckets = [b \in Buckets |-> IF b \in Seeded THEN "live" ELSE "none"]
    /\ owner = [b \in Buckets |-> Nobody]
    /\ grants = {OwnerRole} \X Seeded
    /\ session = [t \in Tokens |-> Nobody]
    /\ op = [r \in Requests |-> "none"]
    /\ pc = [r \in Requests |-> "idle"]
    /\ actor = [r \in Requests |-> Nobody]
    /\ subject = [r \in Requests |-> Nobody]
    /\ target = [r \in Requests |-> Nobody]
    /\ outdated = {}
    /\ astray = {}
    /\ excused = FALSE

Begin(r, o, a) ==
    /\ pc[r] = "idle"
    /\ op' = [op EXCEPT ![r] = o]
    /\ pc' = [pc EXCEPT ![r] = "check"]
    /\ actor' = [actor EXCEPT ![r] = a]
    /\ UNCHANGED <<subject, target>>

At(r, o, label) == op[r] = o /\ pc[r] = label

Goto(r, label) ==
    /\ pc' = [pc EXCEPT ![r] = label]
    /\ UNCHANGED <<op, actor, target>>

Finish(r) ==
    /\ op' = [op EXCEPT ![r] = "none"]
    /\ pc' = [pc EXCEPT ![r] = "idle"]
    /\ actor' = [actor EXCEPT ![r] = Nobody]
    /\ subject' = [subject EXCEPT ![r] = Nobody]
    /\ target' = [target EXCEPT ![r] = Nobody]
-----------------------------------------------------------------------------
(***************************************************************************)
(* Sessions                                                                *)
(***************************************************************************)

\* resolve_session admits the request.
Admit(r, t, o) ==
    /\ o \in {"admin", "deleteAccount", "patchBucket"}
    /\ session[t] # Nobody
    /\ account[session[t]] = "enabled"
    /\ Begin(r, o, session[t])
    /\ UNCHANGED <<tables, session, history>>

Forget(T) ==
    /\ session' = [t \in Tokens |-> IF t \in T THEN Nobody ELSE session[t]]
    /\ outdated' = outdated \ T
    /\ astray' = astray \ T

\* resolve_session deletes an expired session, or one of a disabled account;
\* auth_logout any.
Close(t) ==
    /\ session[t] # Nobody
    /\ Forget({t})
    /\ UNCHANGED <<tables, control, excused>>

\* auth_login has read the account, enabled, and verified the password ...
Login(r, a) ==
    /\ account[a] = "enabled"
    /\ pc[r] = "idle"
    /\ op' = [op EXCEPT ![r] = "login"]
    /\ pc' = [pc EXCEPT ![r] = "open"]
    /\ actor' = [actor EXCEPT ![r] = a]
    /\ UNCHANGED <<tables, session, subject, target, history>>

\* ... and create_session inserts the row, whatever the account is by now.
\* (auth_bootstrap ends in the same way.)
OpenSession(r, t) ==
    /\ pc[r] = "open"
    /\ session[t] = Nobody
    /\ IF Exists(actor[r])
       THEN /\ session' = [session EXCEPT ![t] = actor[r]]
            /\ outdated' = (outdated \ {r}) \cup (IF r \in outdated THEN {t} ELSE {})
            /\ astray' = IF r \in outdated \/ account[actor[r]] = "disabled"
                         THEN astray \cup {t} ELSE astray
       ELSE /\ outdated' = outdated \ {r}
            /\ UNCHANGED <<session, astray>>
    /\ Finish(r)
    /\ UNCHANGED <<tables, excused>>
-----------------------------------------------------------------------------
(***************************************************************************)
(* auth_bootstrap                                                          *)
(***************************************************************************)

\* account_count = 0.
BootCheck(r) ==
    /\ \A a \in Accounts : ~ Exists(a)
    /\ Begin(r, "bootstrap", Nobody)
    /\ UNCHANGED <<tables, session, history>>

Fresh(a) == account[a] = "none"

BootCreate(r, a) ==
    /\ At(r, "bootstrap", "check")
    /\ Fresh(a)
    /\ account' = [account EXCEPT ![a] = "enabled"]
    /\ op' = op
    /\ pc' = [pc EXCEPT ![r] = "assign"]
    /\ actor' = [actor EXCEPT ![r] = a]
    /\ UNCHANGED <<creator, roles, holds, buckets, owner, grants, session,
                   subject, target, history>>

\* assign_role.
BootAssign(r) ==
    /\ At(r, "bootstrap", "assign")
    /\ Exists(actor[r])
    /\ holds' = holds \cup {<<actor[r], OwnerRole>>}
    /\ Goto(r, "claim")
    /\ UNCHANGED <<account, creator, roles, buckets, owner, grants, session, subject, history>>

\* claim_unowned_buckets.
BootClaim(r) ==
    /\ At(r, "bootstrap", "claim")
    /\ Exists(actor[r])
    /\ owner' = [b \in Buckets |-> IF buckets[b] = "live" /\ owner[b] = Nobody
                                   THEN actor[r] ELSE owner[b]]
    /\ Goto(r, "open")
    /\ UNCHANGED <<account, creator, roles, holds, buckets, grants, session, subject, history>>
-----------------------------------------------------------------------------
(***************************************************************************)
(* /accounts                                                               *)
(***************************************************************************)

\* require_owner.
RequireOwner(r) ==
    /\ At(r, "admin", "check")
    /\ IF IsOwner(actor[r]) THEN Goto(r, "write") /\ UNCHANGED subject ELSE Finish(r)
    /\ UNCHANGED <<tables, session, history>>

\* create_account inserts the row; its creator must still exist.
CreateAccount(r, a) ==
    /\ At(r, "admin", "write")
    /\ Fresh(a)
    /\ IF Exists(actor[r])
       THEN /\ account' = [account EXCEPT ![a] = "enabled"]
            /\ creator' = [creator EXCEPT ![a] = actor[r]]
            /\ subject' = [subject EXCEPT ![r] = a]
            /\ Goto(r, "assign")
       ELSE Finish(r) /\ UNCHANGED <<account, creator>>
    /\ UNCHANGED <<roles, holds, buckets, owner, grants, session, history>>

\* set_account_roles, one transaction: the account's roles become R, or
\* nothing happens because the account or a role is gone.
SetAccountRoles(a, R) ==
    IF R \subseteq Live(roles) /\ (Exists(a) \/ R = {})
    THEN /\ holds' = {h \in holds : h[1] # a} \cup {a} \X R
         /\ excused' = (excused \/ (IsOwner(a) /\ OwnerRole \notin R))
    ELSE UNCHANGED <<holds, excused>>

CreateAccountRoles(r, R) ==
    /\ At(r, "admin", "assign")
    /\ SetAccountRoles(subject[r], R)
    /\ Finish(r)
    /\ UNCHANGED <<account, creator, roles, buckets, owner, grants, session, outdated, astray>>

SetRoles(r, a, R) ==
    /\ At(r, "admin", "write")
    /\ Exists(a)
    /\ SetAccountRoles(a, R)
    /\ Finish(r)
    /\ UNCHANGED <<account, creator, roles, buckets, owner, grants, session, outdated, astray>>

\* Mutated: an owner may disable its own account.
MayDisable_Self(r, a) == r \in Requests /\ a \in Accounts

MayDisable(r, a) == a # actor[r]

\* patch_account with is_disabled = true; its second half is Sweep.
Disable(r, a) ==
    /\ At(r, "admin", "write")
    /\ Exists(a)
    /\ MayDisable(r, a)
    /\ account' = [account EXCEPT ![a] = "disabled"]
    /\ excused' = (excused \/ (a \in InCharge /\ actor[r] \notin InCharge))
    /\ subject' = [subject EXCEPT ![r] = a]
    /\ Goto(r, "sweep")
    /\ UNCHANGED <<creator, roles, holds, buckets, owner, grants, session, outdated, astray>>

Enable(r, a) ==
    /\ At(r, "admin", "write")
    /\ Exists(a)
    /\ account' = [account EXCEPT ![a] = "enabled"]
    /\ Finish(r)
    /\ UNCHANGED <<creator, roles, holds, buckets, owner, grants, session, history>>

\* regenerate_password: every session, and every login under way, was opened
\* with the old one.
RegeneratePassword(r, a) ==
    /\ At(r, "admin", "write")
    /\ Exists(a)
    /\ outdated' = outdated \cup SessionsOf(a)
                   \cup {q \in Requests : op[q] \in {"login", "bootstrap"} /\ actor[q] = a}
    /\ subject' = [subject EXCEPT ![r] = a]
    /\ Goto(r, "sweep")
    /\ UNCHANGED <<tables, session, astray, excused>>

\* Mutated: only sessions of a disabled account are deleted.
Swept_DisabledOnly(r) == IF account[subject[r]] = "disabled" THEN SessionsOf(subject[r]) ELSE {}

\* delete_sessions_for_account.
Swept(r) == SessionsOf(subject[r])

Sweep(r) ==
    /\ pc[r] = "sweep"
    /\ Forget(Swept(r))
    /\ Finish(r)
    /\ UNCHANGED <<tables, excused>>

\* Mutated: an owner may delete any account.
MayDelete_AnyOwner(r, a) == a # actor[r] /\ IsOwner(actor[r])

\* delete_account asks for the creator, not for an owner.
MayDelete(r, a) == a # actor[r] /\ Exists(a) /\ creator[a] = actor[r]

DeleteCheck(r, a) ==
    /\ At(r, "deleteAccount", "check")
    /\ MayDelete(r, a)
    /\ subject' = [subject EXCEPT ![r] = a]
    /\ Goto(r, "write")
    /\ UNCHANGED <<tables, session, history>>

\* Mutated: the sessions of a deleted account stay.
Orphaned_None(a) == {}

\* What ON DELETE CASCADE removes with an account.
Orphaned(a) == SessionsOf(a)

\* DELETE FROM account by id: cascades to sessions and account_role, clears
\* bucket owners and creators.  (A share link that names the account refuses
\* it; that is CutOff here.)
DeleteAccount(r) ==
    /\ At(r, "deleteAccount", "write")
    /\ LET a == subject[r] IN
         /\ account' = [account EXCEPT ![a] = "deleted"]
         /\ creator' = [c \in Accounts |-> IF creator[c] = a \/ c = a THEN Nobody ELSE creator[c]]
         /\ holds' = {h \in holds : h[1] # a}
         /\ owner' = [b \in Buckets |-> IF owner[b] = a THEN Nobody ELSE owner[b]]
         /\ Forget(Orphaned(a))
         /\ excused' = (excused \/ IsOwner(a))
    /\ Finish(r)
    /\ UNCHANGED <<roles, buckets, grants>>
-----------------------------------------------------------------------------
(***************************************************************************)
(* /roles                                                                  *)
(***************************************************************************)

CreateRole(r, x) ==
    /\ At(r, "admin", "write")
    /\ roles[x] = "none"
    /\ roles' = [roles EXCEPT ![x] = "live"]
    /\ Finish(r)
    /\ UNCHANGED <<account, creator, holds, buckets, owner, grants, session, history>>

\* Mutated: any role can be deleted.
MayDeleteRole_Any(x) == roles[x] = "live"

MayDeleteRole(x) == roles[x] = "live" /\ x # OwnerRole

\* delete_role cascades to account_role and role_bucket_permission.
DeleteRole(r, x) ==
    /\ At(r, "admin", "write")
    /\ MayDeleteRole(x)
    /\ roles' = [roles EXCEPT ![x] = "deleted"]
    /\ holds' = {h \in holds : h[2] # x}
    /\ grants' = {g \in grants : g[1] # x}
    /\ Finish(r)
    /\ UNCHANGED <<account, creator, buckets, owner, session, history>>

\* put_role_permissions replaces the role's grants in one transaction.
PutPermissions(r, x, B) ==
    /\ At(r, "admin", "write")
    /\ roles[x] = "live"
    /\ B \subseteq Live(buckets)
    /\ grants' = {g \in grants : g[1] # x} \cup {x} \X B
    /\ Finish(r)
    /\ UNCHANGED <<account, creator, roles, holds, buckets, owner, session, history>>
-----------------------------------------------------------------------------
(***************************************************************************)
(* /buckets                                                                *)
(***************************************************************************)

\* create_bucket: the row, then the Owner role's grant.
CreateBucket(r, b) ==
    /\ At(r, "admin", "write")
    /\ buckets[b] = "none"
    /\ Exists(actor[r])
    /\ buckets' = [buckets EXCEPT ![b] = "live"]
    /\ owner' = [owner EXCEPT ![b] = actor[r]]
    /\ op' = op /\ actor' = actor /\ subject' = subject
    /\ pc' = [pc EXCEPT ![r] = "grant"]
    /\ target' = [target EXCEPT ![r] = b]
    /\ UNCHANGED <<account, creator, roles, holds, grants, session, history>>

GrantOwner(r) ==
    /\ pc[r] = "grant"
    /\ grants' = IF buckets[target[r]] = "live" THEN grants \cup {<<OwnerRole, target[r]>>}
                 ELSE grants
    /\ Finish(r)
    /\ UNCHANGED <<account, creator, roles, holds, buckets, owner, session, history>>

\* patch_bucket: the bucket's owner ...
OwnsBucket(r, b) ==
    /\ At(r, "patchBucket", "check")
    /\ buckets[b] = "live" /\ owner[b] = actor[r]
    /\ op' = op /\ actor' = actor /\ subject' = subject
    /\ pc' = [pc EXCEPT ![r] = "assign"]
    /\ target' = [target EXCEPT ![r] = b]
    /\ UNCHANGED <<tables, session, history>>

\* ... names an enabled account ...
NewOwnerEnabled(r, a) ==
    /\ At(r, "patchBucket", "assign")
    /\ account[a] = "enabled"
    /\ subject' = [subject EXCEPT ![r] = a]
    /\ Goto(r, "write")
    /\ UNCHANGED <<tables, session, history>>

\* ... and set_bucket_owner writes it, if both rows are still there.
SetBucketOwner(r) ==
    /\ At(r, "patchBucket", "write")
    /\ owner' = IF buckets[target[r]] = "live" /\ Exists(subject[r])
                THEN [owner EXCEPT ![target[r]] = subject[r]] ELSE owner
    /\ Finish(r)
    /\ UNCHANGED <<account, creator, roles, holds, buckets, grants, session, history>>

\* ensure_bucket creates a bucket for a replicated object: nobody owns it.
EnsureBucket(b) ==
    /\ buckets[b] = "none"
    /\ buckets' = [buckets EXCEPT ![b] = "live"]
    /\ grants' = grants \cup {<<OwnerRole, b>>}
    /\ UNCHANGED <<account, creator, roles, holds, owner, session, control, history>>

\* The last statement of delete_bucket, whose purge loop is in ObjectStore.
DeleteBucket(b) ==
    /\ buckets[b] = "live" /\ b \notin Seeded
    /\ buckets' = [buckets EXCEPT ![b] = "deleted"]
    /\ owner' = [owner EXCEPT ![b] = Nobody]
    /\ grants' = {g \in grants : g[2] # b}
    /\ UNCHANGED <<account, creator, roles, holds, session, control, history>>
-----------------------------------------------------------------------------
\* A handler ends where it is: a check it fails, a database error, or the
\* client or the process gone.  What it has written stays.
CutOff(r) ==
    /\ pc[r] # "idle"
    /\ outdated' = outdated \ {r}
    /\ astray' = IF pc[r] = "sweep" THEN astray \cup SessionsOf(subject[r]) ELSE astray
    /\ excused' = (excused \/ At(r, "bootstrap", "assign"))
    /\ Finish(r)
    /\ UNCHANGED <<tables, session>>

Sessions(r) ==
    \/ \E t \in Tokens, o \in Ops : Admit(r, t, o)
    \/ \E t \in Tokens : OpenSession(r, t)
    \/ \E a \in Accounts : Login(r, a)

Bootstrap(r) ==
    \/ BootCheck(r) \/ BootAssign(r) \/ BootClaim(r)
    \/ \E a \in Accounts : BootCreate(r, a)

Administer(r) ==
    \/ RequireOwner(r) \/ Sweep(r) \/ DeleteAccount(r)
    \/ \E a \in Accounts : \/ CreateAccount(r, a) \/ Disable(r, a) \/ Enable(r, a)
                           \/ RegeneratePassword(r, a) \/ DeleteCheck(r, a)
    \/ \E R \in SUBSET Roles : \/ CreateAccountRoles(r, R)
                               \/ \E a \in Accounts : SetRoles(r, a, R)
    \/ \E x \in Roles : CreateRole(r, x) \/ DeleteRole(r, x)
    \/ \E x \in Roles, B \in SUBSET Buckets : PutPermissions(r, x, B)

PatchBucket(r) ==
    \/ GrantOwner(r) \/ SetBucketOwner(r)
    \/ \E b \in Buckets : CreateBucket(r, b) \/ OwnsBucket(r, b)
    \/ \E a \in Accounts : NewOwnerEnabled(r, a)

Next ==
    \/ \E r \in Requests : \/ Sessions(r) \/ Bootstrap(r) \/ Administer(r)
                           \/ PatchBucket(r) \/ CutOff(r)
    \/ \E t \in Tokens : Close(t)
    \/ \E b \in Buckets : EnsureBucket(b) \/ DeleteBucket(b)

Spec == Init /\ [][Next]_vars
-----------------------------------------------------------------------------
(***************************************************************************)
(* Properties                                                              *)
(***************************************************************************)

\* However deletions race the handlers that were checked before them, no
\* session, role assignment, grant, bucket owner or creator names a row that
\* is gone (the foreign keys of migrations 0003 to 0005).
References ==
    /\ \A t \in Tokens : session[t] # Nobody => Exists(session[t])
    /\ \A h \in holds : Exists(h[1]) /\ roles[h[2]] = "live"
    /\ \A g \in grants : roles[g[1]] = "live" /\ buckets[g[2]] = "live"
    /\ \A b \in Buckets : owner[b] # Nobody => buckets[b] = "live" /\ Exists(owner[b])
    /\ \A a \in Accounts : creator[a] # Nobody => Exists(a) /\ Exists(creator[a])

\* "bootstrap already completed": delete_account lets creators delete their
\* accounts, even after the creator itself is deleted, but the server is never
\* without an account again, and so never open to a new bootstrap.
NeverRebootstrapped ==
    [][(\E a \in Accounts : Exists(a)) => (\E a \in Accounts : Exists(a))']_vars

\* Some enabled account holds the Owner role, unless the bootstrap was cut
\* off before it assigned it, somebody took it away or deleted its holder, or
\* two owners disabled each other.  "cannot disable your own account" and
\* "cannot delete Owner role" rule out the rest.
LockoutExplained ==
    (\E a \in Accounts : Exists(a)) =>
        \/ InCharge # {}
        \/ excused
        \/ \E r \in Requests : At(r, "bootstrap", "assign")

\* patch_account and regenerate_password end the account's sessions.  One
\* that was opened with a replaced password, or that a disabled account has,
\* is about to be swept, or came from a login checked before, or its sweep
\* failed (its error is ignored).
OldSessionsExplained ==
    \A t \in Tokens :
        session[t] # Nobody /\ (t \in outdated \/ account[session[t]] = "disabled") =>
            \/ t \in astray
            \/ \E r \in Requests : pc[r] = "sweep" /\ subject[r] = session[t]
=============================================================================
