------------------------------- MODULE Shares -------------------------------
(***************************************************************************)
(* Share links and media access tokens (db/shares.rs, server/              *)
(* share_routes.rs, server/media_access.rs and the media routes of         *)
(* server/web_routes.rs): creating and revoking a link, minting a token,   *)
(* and a request for content, which loads the link, authorises, looks the  *)
(* object up in the link's bucket and then reads it, each in a statement   *)
(* of its own.                                                             *)
(*                                                                         *)
(* A target is a file or a folder; Scope gives the keys it covers.  Time   *)
(* is counted in a unit of choice.  Who may read a bucket (effective_perms,*)
(* changed by the routes of module Accounts) is a set that changes at any  *)
(* time.  A token stands for its payload: the signature cannot be forged.  *)
(***************************************************************************)
EXTENDS Naturals, FiniteSets

CONSTANTS
    Accounts,
    Owners,       \* accounts with the Owner role
    Buckets,
    Names,        \* object keys
    Targets,      \* files and folders that can be shared
    Scope,        \* [Targets -> SUBSET Names]
    Shares,       \* ids of share_link
    Asks,         \* bound: the links clients ask create_share for
    Requests,
    ShareTTL,     \* SHARE_TOKEN_MAX_SECS
    PersonalTTL,  \* PERSONAL_TTL_SECS
    Forever,      \* expires_at IS NULL, or not revoked
    MaxTime,      \* bound: the clock
    MaxTokens,    \* bound: tokens minted
    None

Times == 0..MaxTime
Modes == {"public", "bucket_readers", "specific_users"}

\* A row of share_link (revoked_at apart) with the recipients asked for.
Link == [bucket : Buckets, target : Targets, mode : Modes,
         exp : Times \cup {Forever}, by : Accounts, wanted : SUBSET Accounts]

ASSUME SharesAssumption ==
    /\ Owners \subseteq Accounts
    /\ Scope \in [Targets -> SUBSET Names]
    /\ Asks \subseteq Link
    /\ {ShareTTL, PersonalTTL, MaxTime, MaxTokens} \subseteq Nat
    /\ Forever \in Nat /\ Forever > MaxTime + ShareTTL + PersonalTTL
    /\ None \notin Accounts \cup Buckets \cup Names \cup Shares \cup Link

\* `at` is history: when the token was minted.
ShareToken    == [share : Shares, exp : 0..(MaxTime + ShareTTL), at : Times]
PersonalToken == [bucket : Buckets, name : Names,
                  exp : 0..(MaxTime + PersonalTTL), at : Times]

VARIABLES
    now,
    accounts, buckets,  \* rows of account and bucket
    objects,    \* (bucket, key) of the live objects
    readers,    \* (account, bucket) with the Read permission
    link,       \* [Shares -> Link or None]
    users,      \* [Shares -> rows of share_link_user]
    revokedAt,  \* [Shares -> revoked_at, or Forever]
    tokens,     \* tokens that have been handed out
    \* handlers
    pc,
    draft,      \* the link create_share is about to insert
    todo,       \* its recipients still to be inserted
    share,      \* the link the handler has loaded (or inserted, or revokes)
    access,     \* the token, if any, that authorised the request
    name,       \* the key found
    stamp,      \* when the link was loaded or the personal token verified
    \* history
    announced   \* links whose creator has been given the URL

rows     == <<accounts, buckets, objects, readers, link, users, revokedAt, tokens>>
handlers == <<pc, draft, todo, share, access, name, stamp>>
vars     == <<now, accounts, buckets, objects, readers, link, users, revokedAt, tokens,
              pc, draft, todo, share, access, name, stamp, announced>>

Pcs == {"idle", "insert", "users", "revoke", "authorise", "find", "read"}

TypeOK ==
    /\ now \in Times
    /\ accounts \subseteq Accounts /\ buckets \subseteq Buckets
    /\ objects \subseteq Buckets \X Names
    /\ readers \subseteq Accounts \X Buckets
    /\ link \in [Shares -> Link \cup {None}]
    /\ users \in [Shares -> SUBSET Accounts]
    /\ revokedAt \in [Shares -> Times \cup {Forever}]
    /\ tokens \subseteq ShareToken \cup PersonalToken
    /\ pc \in [Requests -> Pcs]
    /\ draft \in [Requests -> Link \cup {None}]
    /\ todo \in [Requests -> SUBSET Accounts]
    /\ share \in [Requests -> Shares \cup {None}]
    /\ access \in [Requests -> ShareToken \cup PersonalToken \cup {None}]
    /\ name \in [Requests -> Names \cup {None}]
    /\ stamp \in [Requests -> Times]
    /\ announced \subseteq Shares

Init ==
    /\ now = 0
    /\ accounts = Accounts /\ buckets = Buckets
    /\ objects = Buckets \X Names
    /\ readers = Accounts \X Buckets
    /\ link = [s \in Shares |-> None]
    /\ users = [s \in Shares |-> {}]
    /\ revokedAt = [s \in Shares |-> Forever]
    /\ tokens = {}
    /\ pc = [r \in Requests |-> "idle"]
    /\ draft = [r \in Requests |-> None]
    /\ todo = [r \in Requests |-> {}]
    /\ share = [r \in Requests |-> None]
    /\ access = [r \in Requests |-> None]
    /\ name = [r \in Requests |-> None]
    /\ stamp = [r \in Requests |-> 0]
    /\ announced = {}

Finish(r) ==
    /\ pc' = [pc EXCEPT ![r] = "idle"]
    /\ draft' = [draft EXCEPT ![r] = None]
    /\ todo' = [todo EXCEPT ![r] = {}]
    /\ share' = [share EXCEPT ![r] = None]
    /\ access' = [access EXCEPT ![r] = None]
    /\ name' = [name EXCEPT ![r] = None]
    /\ stamp' = [stamp EXCEPT ![r] = 0]
-----------------------------------------------------------------------------
(***************************************************************************)
(* Creating and revoking a link                                            *)
(***************************************************************************)

\* A file share needs its object, a folder share some object below it.
TargetExists(b, t) == \E n \in Scope[t] : <<b, n>> \in objects

\* create_share up to the INSERT: permission, expiry, target, recipients.
CreateCheck(r, l) ==
    /\ pc[r] = "idle"
    /\ <<l.by, l.bucket>> \in readers
    /\ l.exp > now
    /\ TargetExists(l.bucket, l.target)
    /\ l.mode = "specific_users" => l.wanted # {}
    /\ pc' = [pc EXCEPT ![r] = "insert"]
    /\ draft' = [draft EXCEPT ![r] = l]
    /\ UNCHANGED <<now, rows, todo, share, access, name, stamp, announced>>

\* Mutated: no foreign keys.
InsertAllowed_NoForeignKeys(l) == l # None

\* share_link.bucket_id and created_by_account_id are foreign keys.
InsertAllowed(l) == l.bucket \in buckets /\ l.by \in accounts

\* Only a link to specific users has any.
Recipients(l) == IF l.mode = "specific_users" THEN l.wanted ELSE {}

CreateInsert(r, s) ==
    /\ pc[r] = "insert"
    /\ link[s] = None
    /\ InsertAllowed(draft[r])
    /\ link' = [link EXCEPT ![s] = draft[r]]
    /\ pc' = [pc EXCEPT ![r] = "users"]
    /\ draft' = [draft EXCEPT ![r] = None]
    /\ todo' = [todo EXCEPT ![r] = Recipients(draft[r])]
    /\ share' = [share EXCEPT ![r] = s]
    /\ UNCHANGED <<now, accounts, buckets, objects, readers, users, revokedAt, tokens,
                   access, name, stamp, announced>>

\* Mutated: a recipient that cannot be inserted is skipped.
CreateUser_SkipsMissing(r, u) ==
    /\ pc[r] = "users"
    /\ u \in todo[r]
    /\ todo' = [todo EXCEPT ![r] = @ \ {u}]
    /\ users' = [users EXCEPT ![share[r]] = IF u \in accounts THEN @ \cup {u} ELSE @]
    /\ UNCHANGED <<now, accounts, buckets, objects, readers, link, revokedAt, tokens,
                   pc, draft, share, access, name, stamp, announced>>

\* The recipients, one INSERT each on the pool; an account that is gone is an
\* error, and what has been inserted stays.
CreateUser(r, u) ==
    /\ pc[r] = "users"
    /\ u \in todo[r]
    /\ IF u \in accounts
       THEN /\ todo' = [todo EXCEPT ![r] = @ \ {u}]
            /\ users' = [users EXCEPT ![share[r]] = @ \cup {u}]
            /\ UNCHANGED <<pc, draft, share, access, name, stamp>>
       ELSE Finish(r) /\ UNCHANGED users
    /\ UNCHANGED <<now, accounts, buckets, objects, readers, link, revokedAt, tokens, announced>>

\* 201 CREATED with the URL.
CreateDone(r) ==
    /\ pc[r] = "users"
    /\ todo[r] = {}
    /\ announced' = announced \cup {share[r]}
    /\ Finish(r)
    /\ UNCHANGED <<now, rows>>

\* revoke_share reads the row, not revoked yet: its creator, who must still be
\* able to read the bucket, or an Owner.
RevokeCheck(r, a, s) ==
    /\ pc[r] = "idle"
    /\ link[s] # None /\ revokedAt[s] = Forever
    /\ a \in Owners \/ (link[s].by = a /\ <<a, link[s].bucket>> \in readers)
    /\ pc' = [pc EXCEPT ![r] = "revoke"]
    /\ share' = [share EXCEPT ![r] = s]
    /\ UNCHANGED <<now, rows, draft, todo, access, name, stamp, announced>>

\* UPDATE ... SET revoked_at = CURRENT_TIMESTAMP WHERE revoked_at IS NULL.
RevokeTime(s) == IF revokedAt[s] = Forever THEN now ELSE revokedAt[s]

RevokeWrite(r) ==
    /\ pc[r] = "revoke"
    /\ revokedAt' = [revokedAt EXCEPT ![share[r]] = RevokeTime(share[r])]
    /\ Finish(r)
    /\ UNCHANGED <<now, accounts, buckets, objects, readers, link, users, tokens, announced>>
-----------------------------------------------------------------------------
(***************************************************************************)
(* Media links                                                             *)
(***************************************************************************)

\* Mutated: past its date a link still counts.
InTime_NotChecked(exp) == exp \in Nat

\* Neither a link nor a token is used after its expiry.
InTime(exp) == now <= exp

\* list_shares_covering_key and share_is_usable.  (Its LIKE would also return a
\* link to a folder that differs from the key's in case only, whose token does
\* not open the key: the scope is asked again.  Such targets are left out.)
Covering(b, n) ==
    {s \in Shares : /\ link[s] # None /\ link[s].bucket = b /\ n \in Scope[link[s].target]
                    /\ revokedAt[s] = Forever /\ InTime(link[s].exp)}

\* prefer_share_for_link when no link is public: a link to the very file (a
\* file's target is its key) before a folder's; the newest, which is any.
Preferred(b, n) ==
    LET exact == {s \in Covering(b, n) : link[s].target = n}
    IN IF exact # {} THEN exact ELSE Covering(b, n)

\* mint_share_token: the link's own expiry, if that comes first.
TokenFor(s) ==
    [share |-> s, at |-> now,
     exp |-> IF link[s].exp < now + ShareTTL THEN link[s].exp ELSE now + ShareTTL]

\* create_media_link for a file.  It writes nothing and is one step.  A public
\* link needs no token; without any link the token is a personal one.
MintForFile(a, b, n) ==
    /\ Cardinality(tokens) < MaxTokens
    /\ <<a, b>> \in readers
    /\ <<b, n>> \in objects
    /\ \A s \in Covering(b, n) : link[s].mode # "public"
    /\ \/ /\ Covering(b, n) = {}
          /\ tokens' = tokens \cup {[bucket |-> b, name |-> n, at |-> now,
                                     exp |-> now + PersonalTTL]}
       \/ \E s \in Preferred(b, n) :
             /\ TokenFor(s).exp > now
             /\ tokens' = tokens \cup {TokenFor(s)}
    /\ UNCHANGED <<now, accounts, buckets, objects, readers, link, users, revokedAt,
                   handlers, announced>>

\* create_media_link for a folder: only a link to that very folder will do.
MintForFolder(a, b, t) ==
    /\ Cardinality(tokens) < MaxTokens
    /\ <<a, b>> \in readers
    /\ t \notin Names
    /\ LET here == {s \in Shares : /\ link[s] # None /\ link[s].bucket = b /\ link[s].target = t
                                   /\ revokedAt[s] = Forever /\ InTime(link[s].exp)}
       IN /\ \A s \in here : link[s].mode # "public"
          /\ \E s \in here : /\ TokenFor(s).exp > now
                             /\ tokens' = tokens \cup {TokenFor(s)}
    /\ UNCHANGED <<now, accounts, buckets, objects, readers, link, users, revokedAt,
                   handlers, announced>>
-----------------------------------------------------------------------------
(***************************************************************************)
(* Content                                                                 *)
(***************************************************************************)

\* Mutated: a revoked link is loaded like any other.
Loadable_Revoked(s) == link[s] # None

\* load_share_by_token and by_code; share_is_usable refuses a row that was
\* revoked when it was read.
Loadable(s) == link[s] # None /\ revokedAt[s] = Forever

Load(r, s) ==
    /\ pc[r] = "idle"
    /\ Loadable(s)
    /\ pc' = [pc EXCEPT ![r] = "authorise"]
    /\ share' = [share EXCEPT ![r] = s]
    /\ stamp' = [stamp EXCEPT ![r] = now]
    /\ UNCHANGED <<now, rows, draft, todo, access, name, announced>>

\* access_token_grants_share.
Grants(tok, s) == tok \in ShareToken /\ tok.share = s /\ InTime(tok.exp)

\* authorize_share for the account of the session, if any.
Entitled(a, s) ==
    CASE link[s].mode = "public"         -> TRUE
      [] link[s].mode = "bucket_readers" -> <<a, link[s].bucket>> \in readers
      [] link[s].mode = "specific_users" -> a \in users[s]

Authorise(r) ==
    /\ pc[r] = "authorise"
    /\ InTime(link[share[r]].exp)
    /\ \/ \E a \in Accounts \cup {None} : Entitled(a, share[r]) /\ UNCHANGED access
       \/ \E tok \in tokens : /\ Grants(tok, share[r])
                              /\ access' = [access EXCEPT ![r] = tok]
    /\ pc' = [pc EXCEPT ![r] = "find"]
    /\ UNCHANGED <<now, rows, draft, todo, share, name, stamp, announced>>

\* media_content_by_access: the token names bucket and key, and nobody asks
\* for the account's permission again.
Personal(r, tok) ==
    /\ pc[r] = "idle"
    /\ tok \in tokens \cap PersonalToken
    /\ InTime(tok.exp)
    /\ pc' = [pc EXCEPT ![r] = "find"]
    /\ access' = [access EXCEPT ![r] = tok]
    /\ stamp' = [stamp EXCEPT ![r] = now]
    /\ UNCHANGED <<now, rows, draft, todo, share, name, announced>>

\* Where the request looks, and the keys it may ask for (key_in_share_scope).
Place(r) == IF share[r] # None THEN link[share[r]].bucket ELSE access[r].bucket
Asked(r) == IF share[r] # None THEN Scope[link[share[r]].target] ELSE {access[r].name}

\* get_object_by_filename_in_bucket finds the key ...
Find(r, n) ==
    /\ pc[r] = "find"
    /\ n \in Asked(r)
    /\ <<Place(r), n>> \in objects
    /\ pc' = [pc EXCEPT ![r] = "read"]
    /\ name' = [name EXCEPT ![r] = n]
    /\ UNCHANGED <<now, rows, draft, todo, share, access, stamp, announced>>

\* ... and get_object_by_filename opens a live object of that key, in
\* whatever bucket, and sends its body.
Read(r) ==
    /\ pc[r] = "read"
    /\ \E b \in Buckets : <<b, name[r]>> \in objects
    /\ Finish(r)
    /\ UNCHANGED <<now, rows, announced>>

\* meta_for_share, or for a folder list_for_share, answers instead with what
\* the rows of the link's bucket say; an empty folder is an empty answer.
Describe(r) ==
    /\ pc[r] = "find"
    /\ share[r] # None
    /\ Finish(r)
    /\ UNCHANGED <<now, rows, announced>>

\* At any step a check or the database fails, or
\* the client is gone.
End(r) ==
    /\ pc[r] # "idle"
    /\ Finish(r)
    /\ UNCHANGED <<now, rows, announced>>
-----------------------------------------------------------------------------
(***************************************************************************)
(* What goes on around                                                     *)
(***************************************************************************)

Tick ==
    /\ now < MaxTime
    /\ now' = now + 1
    /\ UNCHANGED <<rows, handlers, announced>>

\* Uploads, deletes, restores and renames.
ChangeObject(b, n) ==
    /\ b \in buckets
    /\ objects' = IF <<b, n>> \in objects THEN objects \ {<<b, n>>} ELSE objects \cup {<<b, n>>}
    /\ UNCHANGED <<now, accounts, buckets, readers, link, users, revokedAt, tokens,
                   handlers, announced>>

\* A change of roles, grants or bucket ownership.
ChangeReader(a, b) ==
    /\ a \in accounts \ Owners /\ b \in buckets
    /\ readers' = IF <<a, b>> \in readers THEN readers \ {<<a, b>>} ELSE readers \cup {<<a, b>>}
    /\ UNCHANGED <<now, accounts, buckets, objects, link, users, revokedAt, tokens,
                   handlers, announced>>

\* Mutated: ON DELETE CASCADE on share_link, and not on its users.
Referenced_LinksOnly(x) == \E s \in Shares : link[s] # None /\ link[s].bucket = x

\* A row that any link names, revoked or not, cannot be deleted.
Referenced(x) ==
    \E s \in Shares : link[s] # None /\ (link[s].bucket = x \/ link[s].by = x \/ x \in users[s])

\* delete_bucket has purged the objects; the row goes unless it was shared.
DropBucket(b) ==
    /\ b \in buckets
    /\ \A n \in Names : <<b, n>> \notin objects
    /\ ~ Referenced(b)
    /\ buckets' = buckets \ {b}
    /\ readers' = {p \in readers : p[2] # b}
    /\ UNCHANGED <<now, accounts, objects, link, users, revokedAt, tokens, handlers, announced>>

DeleteAccount(a) ==
    /\ a \in accounts \ Owners
    /\ ~ Referenced(a)
    /\ accounts' = accounts \ {a}
    /\ readers' = {p \in readers : p[1] # a}
    /\ UNCHANGED <<now, buckets, objects, link, users, revokedAt, tokens, handlers, announced>>
-----------------------------------------------------------------------------
Manage(r) ==
    \/ \E l \in Asks : CreateCheck(r, l)
    \/ \E s \in Shares : CreateInsert(r, s)
    \/ \E u \in Accounts : CreateUser(r, u)
    \/ CreateDone(r) \/ RevokeWrite(r)
    \/ \E a \in Accounts, s \in Shares : RevokeCheck(r, a, s)

Content(r) ==
    \/ \E s \in Shares : Load(r, s)
    \/ Authorise(r)
    \/ \E tok \in tokens : Personal(r, tok)
    \/ \E n \in Names : Find(r, n)
    \/ Read(r) \/ Describe(r)

Around ==
    \/ Tick
    \/ \E b \in Buckets : DropBucket(b) \/ \E n \in Names : ChangeObject(b, n)
    \/ \E a \in Accounts : DeleteAccount(a) \/ \E b \in Buckets : ChangeReader(a, b)

Next ==
    \/ \E r \in Requests : Manage(r) \/ Content(r) \/ End(r)
    \/ \E a \in Accounts, b \in Buckets : \/ \E n \in Names : MintForFile(a, b, n)
                                          \/ \E t \in Targets : MintForFolder(a, b, t)
    \/ Around

Spec == Init /\ [][Next]_vars
-----------------------------------------------------------------------------
(***************************************************************************)
(* Properties                                                              *)
(***************************************************************************)

\* However account and bucket deletions race create_share, a link names a
\* bucket, a creator and recipients that exist (migration 0007).  Because
\* links are only ever revoked, a bucket that was shared once is never dropped:
\* delete_bucket empties it and then fails.
ShareReferences ==
    \A s \in Shares : link[s] # None =>
        link[s].bucket \in buckets /\ link[s].by \in accounts /\ users[s] \subseteq accounts

\* The recipients of a link are among those asked for, and all of them once
\* its creator has been given the URL, although each is inserted by itself and
\* any may fail.
RecipientsAsRequested ==
    \A s \in Shares : link[s] # None =>
        /\ users[s] \subseteq Recipients(link[s])
        /\ s \in announced => users[s] = Recipients(link[s])

\* A request that got past its checks started before the link was revoked and
\* before it expired.
RevocationBites ==
    \A r \in Requests : pc[r] \in {"find", "read"} /\ share[r] # None =>
        stamp[r] <= revokedAt[share[r]] /\ stamp[r] <= link[share[r]].exp

\* Tokens are not revocable, and permissions are not looked at again: content
\* is served to the holder of a token at most SHARE_TOKEN_MAX_SECS (for a
\* personal token PERSONAL_TTL_SECS) after somebody who could read the bucket
\* minted it.
StaleAccessBounded ==
    \A r \in Requests : pc[r] \in {"find", "read"} /\ access[r] # None =>
        stamp[r] <= access[r].at + (IF access[r] \in ShareToken THEN ShareTTL ELSE PersonalTTL)
=============================================================================
