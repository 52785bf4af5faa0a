---------------------------- MODULE SharesProofs -----------------------------
(***************************************************************************)
(* Share links and tokens, for any number of accounts, buckets, keys,      *)
(* links and concurrent requests and every lifetime: what a link refers to *)
(* exists, its recipients are those asked for, and nobody gets past a      *)
(* revocation, an expiry or the lifetime of a token.                       *)
(***************************************************************************)
EXTENDS Shares, TLAPS

\* What a handler holds: nothing between requests, a link to insert, or one
\* that has been read.  Links are never deleted.
HandlersOK ==
    \A r \in Requests :
        /\ pc[r] = "idle" => share[r] = None /\ access[r] = None
        /\ pc[r] = "insert" => draft[r] \in Link
        /\ pc[r] \in {"users", "revoke", "authorise"} => share[r] # None
        /\ share[r] # None => link[share[r]] # None

\* The recipients inserted and those still to come are those asked for.
CreationOK ==
    /\ \A s \in Shares : link[s] = None => users[s] = {} /\ s \notin announced
    /\ \A r \in Requests : pc[r] = "users" =>
          users[share[r]] \cup todo[r] = Recipients(link[share[r]])

\* A link that was loaded was not revoked at that time.
StampsOK ==
    \A r \in Requests :
        /\ stamp[r] <= now
        /\ pc[r] \in {"authorise", "find", "read"} /\ share[r] # None =>
              stamp[r] <= revokedAt[share[r]]
        /\ access[r] # None => access[r] \in tokens /\ stamp[r] <= access[r].exp

Lifetime(tok) == IF tok \in ShareToken THEN ShareTTL ELSE PersonalTTL

\* A token's expiry is set when it is minted.
TokensOK == \A tok \in tokens : tok.exp <= tok.at + Lifetime(tok)

SInv ==
    /\ TypeOK /\ HandlersOK /\ CreationOK /\ ShareReferences /\ RecipientsAsRequested
    /\ StampsOK /\ TokensOK /\ RevocationBites

-----------------------------------------------------------------------------
\* What a row of share_link holds.
LEMMA LinkFields ==
    ASSUME NEW l \in Link
    PROVE  /\ l # None /\ l.bucket \in Buckets /\ l.by \in Accounts
           /\ l.exp \in Nat /\ l.wanted \subseteq Accounts
           /\ Recipients(l) \subseteq Accounts
<1>1. l # None /\ l.bucket \in Buckets /\ l.by \in Accounts /\ l.wanted \subseteq Accounts
  BY SharesAssumption DEF Link
<1>2. l.exp \in Nat
  BY SharesAssumption DEF Link, Times
<1> QED BY <1>1, <1>2 DEF Recipients

\* Both kinds of token carry times.
LEMMA TokenFields ==
    ASSUME NEW tok \in ShareToken \cup PersonalToken
    PROVE  tok.exp \in Nat /\ tok.at \in Nat /\ Lifetime(tok) \in Nat
<1>1. ShareTTL \in Nat /\ PersonalTTL \in Nat /\ MaxTime \in Nat
  BY SharesAssumption
<1>2. CASE tok \in ShareToken
  BY <1>1, <1>2 DEF ShareToken, Times, Lifetime
<1>3. CASE tok \in PersonalToken
  BY <1>1, <1>3 DEF PersonalToken, Times, Lifetime
<1> QED BY <1>2, <1>3

\* mint_share_token cuts the token at the link's expiry and at its lifetime.
LEMMA ShareTokenMinted ==
    ASSUME TypeOK, NEW s \in Shares, link[s] # None
    PROVE  /\ TokenFor(s) \in ShareToken
           /\ TokenFor(s).exp <= TokenFor(s).at + Lifetime(TokenFor(s))
<1> DEFINE e == IF link[s].exp < now + ShareTTL THEN link[s].exp ELSE now + ShareTTL
<1>1. ShareTTL \in Nat /\ MaxTime \in Nat /\ now \in Nat /\ now <= MaxTime
  BY SharesAssumption DEF TypeOK, Times
<1>2. link[s].exp \in Nat
  BY LinkFields DEF TypeOK
<1>3. e \in 0..(MaxTime + ShareTTL) /\ e <= now + ShareTTL
  BY <1>1, <1>2
<1>4. TokenFor(s) = [share |-> s, at |-> now, exp |-> e]
  BY DEF TokenFor
<1>5. TokenFor(s) \in ShareToken
  BY <1>3, <1>4 DEF ShareToken, TypeOK
<1> QED BY <1>3, <1>4, <1>5 DEF Lifetime

\* A personal token is no share token.
LEMMA PersonalTokenMinted ==
    ASSUME TypeOK, NEW b \in Buckets, NEW n \in Names,
           NEW tok, tok = [bucket |-> b, name |-> n, at |-> now, exp |-> now + PersonalTTL]
    PROVE  /\ tok \in PersonalToken
           /\ tok.exp <= tok.at + Lifetime(tok)
<1>1. PersonalTTL \in Nat /\ MaxTime \in Nat /\ now \in 0..MaxTime
  BY SharesAssumption DEF TypeOK, Times
<1>2. tok \in PersonalToken
  BY <1>1 DEF PersonalToken, TypeOK
<1>3. "bucket" \in DOMAIN tok
  OBVIOUS
<1>4. tok \notin ShareToken
  <2>1. ASSUME tok \in ShareToken PROVE FALSE
    <3>1. DOMAIN tok = {"share", "exp", "at"}
      BY <2>1 DEF ShareToken
    <3> QED BY <1>3, <3>1
  <2> QED BY <2>1
<1> QED BY <1>1, <1>2, <1>4 DEF Lifetime
-----------------------------------------------------------------------------
\* The invariant holds at the start.
LEMMA InitInv == Init => SInv
<1> SUFFICES ASSUME Init PROVE SInv
  OBVIOUS
<1> USE DEF Init
<1>1. 0 \in Times /\ now = 0
  BY SharesAssumption DEF Times
<1>2. TypeOK
  BY <1>1 DEF TypeOK, Pcs
<1>3. HandlersOK /\ CreationOK /\ ShareReferences /\ RecipientsAsRequested
  BY DEF HandlersOK, CreationOK, ShareReferences, RecipientsAsRequested
<1>4. StampsOK /\ TokensOK /\ RevocationBites
  BY <1>1 DEF StampsOK, TokensOK, RevocationBites
<1> QED BY <1>2, <1>3, <1>4 DEF SInv

\* Types, one step per action.
LEMMA TypeStep == TypeOK /\ HandlersOK /\ [Next]_vars => TypeOK'
<1> SUFFICES ASSUME TypeOK, HandlersOK, [Next]_vars PROVE TypeOK'
  OBVIOUS
<1> USE DEF TypeOK, rows, handlers, Pcs
<1>0. 0 \in Times
  BY SharesAssumption DEF Times
<1>f. ASSUME NEW r \in Requests, Finish(r)
      PROVE  /\ pc' \in [Requests -> Pcs]
             /\ draft' \in [Requests -> Link \cup {None}]
             /\ todo' \in [Requests -> SUBSET Accounts]
             /\ share' \in [Requests -> Shares \cup {None}]
             /\ access' \in [Requests -> ShareToken \cup PersonalToken \cup {None}]
             /\ name' \in [Requests -> Names \cup {None}]
             /\ stamp' \in [Requests -> Times]
  BY <1>0, <1>f DEF Finish
<1>1. ASSUME NEW r \in Requests, NEW l \in Asks, CreateCheck(r, l) PROVE TypeOK'
  BY <1>1, SharesAssumption DEF CreateCheck
<1>2. ASSUME NEW r \in Requests, NEW s \in Shares, CreateInsert(r, s) PROVE TypeOK'
  <2>1. draft[r] \in Link /\ Recipients(draft[r]) \subseteq Accounts
    BY <1>2, LinkFields DEF CreateInsert, HandlersOK
  <2> QED BY <1>2, <2>1 DEF CreateInsert
<1>3. ASSUME NEW r \in Requests, NEW u \in Accounts, CreateUser(r, u) PROVE TypeOK'
  <2>1. CASE u \in accounts
    BY <1>3, <2>1 DEF CreateUser
  <2>2. CASE u \notin accounts
    BY <1>3, <2>2, <1>f DEF CreateUser
  <2> QED BY <2>1, <2>2
<1>4. ASSUME NEW r \in Requests, CreateDone(r) PROVE TypeOK'
  <2>1. share[r] \in Shares
    BY <1>4 DEF CreateDone, HandlersOK
  <2> QED BY <1>4, <2>1, <1>f DEF CreateDone
<1>5. ASSUME NEW r \in Requests, RevokeWrite(r) PROVE TypeOK'
  <2>1. share[r] \in Shares /\ RevokeTime(share[r]) \in Times \cup {Forever}
    BY <1>5 DEF RevokeWrite, HandlersOK, RevokeTime
  <2> QED BY <1>5, <2>1, <1>f DEF RevokeWrite
<1>6. ASSUME NEW r \in Requests, NEW a \in Accounts, NEW s \in Shares, RevokeCheck(r, a, s) PROVE TypeOK'
  BY <1>6 DEF RevokeCheck
<1>7. ASSUME NEW r \in Requests, NEW s \in Shares, Load(r, s) PROVE TypeOK'
  BY <1>7 DEF Load
<1>8. ASSUME NEW r \in Requests, Authorise(r) PROVE TypeOK'
  <2>1. access' \in [Requests -> ShareToken \cup PersonalToken \cup {None}]
    BY <1>8 DEF Authorise
  <2> QED BY <1>8, <2>1 DEF Authorise
<1>9. ASSUME NEW r \in Requests, NEW tok \in tokens, Personal(r, tok) PROVE TypeOK'
  BY <1>9 DEF Personal
<1>10. ASSUME NEW r \in Requests, NEW n \in Names, Find(r, n) PROVE TypeOK'
  BY <1>10 DEF Find
<1>11. ASSUME NEW r \in Requests, Read(r) \/ Describe(r) \/ End(r) PROVE TypeOK'
  BY <1>11, <1>f DEF Read, Describe, End
<1>12. ASSUME NEW a \in Accounts, NEW b \in Buckets, NEW n \in Names, MintForFile(a, b, n) PROVE TypeOK'
  <2>1. tokens' \subseteq ShareToken \cup PersonalToken
    BY <1>12, ShareTokenMinted, PersonalTokenMinted DEF MintForFile, Preferred, Covering
  <2> QED BY <1>12, <2>1 DEF MintForFile
<1>13. ASSUME NEW a \in Accounts, NEW b \in Buckets, NEW t \in Targets, MintForFolder(a, b, t) PROVE TypeOK'
  <2>1. tokens' \subseteq ShareToken \cup PersonalToken
    BY <1>13, ShareTokenMinted DEF MintForFolder
  <2> QED BY <1>13, <2>1 DEF MintForFolder
<1>14. CASE Tick
  <2>1. now' \in Times
    BY <1>14, SharesAssumption DEF Tick, Times
  <2> QED BY <1>14, <2>1 DEF Tick
<1>15. ASSUME NEW b \in Buckets, NEW n \in Names, ChangeObject(b, n) PROVE TypeOK'
  BY <1>15 DEF ChangeObject
<1>16. ASSUME NEW a \in Accounts, NEW b \in Buckets, ChangeReader(a, b) PROVE TypeOK'
  BY <1>16 DEF ChangeReader
<1>17. ASSUME NEW b \in Buckets, DropBucket(b) PROVE TypeOK'
  BY <1>17 DEF DropBucket
<1>18. ASSUME NEW a \in Accounts, DeleteAccount(a) PROVE TypeOK'
  BY <1>18 DEF DeleteAccount
<1>19. CASE UNCHANGED vars
  BY <1>19 DEF vars
<1> HIDE DEF TypeOK
<1>20. ASSUME NEW r \in Requests, Manage(r) \/ Content(r) \/ End(r) PROVE TypeOK'
  BY <1>20, <1>1, <1>2, <1>3, <1>4, <1>5, <1>6, <1>7, <1>8, <1>9, <1>10, <1>11 DEF Manage, Content
<1>21. CASE Around
  BY <1>21, <1>14, <1>15, <1>16, <1>17, <1>18 DEF Around
<1> QED BY <1>12, <1>13, <1>19, <1>20, <1>21 DEF Next
-----------------------------------------------------------------------------
\* A handler that ends holds nothing.
LEMMA Finished ==
    ASSUME TypeOK, NEW r \in Requests, Finish(r), NEW q \in Requests
    PROVE  /\ q = r => pc'[q] = "idle" /\ share'[q] = None /\ access'[q] = None /\ stamp'[q] = 0
           /\ q # r => /\ pc'[q] = pc[q] /\ share'[q] = share[q] /\ access'[q] = access[q]
                       /\ stamp'[q] = stamp[q] /\ draft'[q] = draft[q] /\ todo'[q] = todo[q]
BY DEF TypeOK, Finish

\* Handlers, and the links they insert.  links is what these facts are about.
links == <<accounts, buckets, link, users, pc, draft, todo, share, access, announced>>

LInv == HandlersOK /\ CreationOK /\ ShareReferences /\ RecipientsAsRequested

\* Nothing it speaks of changes.
LEMMA LinksUnchanged == LInv /\ UNCHANGED links => LInv'
BY DEF links, LInv, HandlersOK, CreationOK, ShareReferences, RecipientsAsRequested

\* A handler ends and changes no link.
LEMMA LinksFinished ==
    ASSUME TypeOK, LInv, NEW r \in Requests, Finish(r),
           UNCHANGED <<accounts, buckets, link, users, announced>>
    PROVE  LInv'
<1>1. HandlersOK'
  BY Finished DEF LInv, HandlersOK
<1>2. CreationOK'
  BY Finished DEF LInv, CreationOK
<1>3. (ShareReferences /\ RecipientsAsRequested)'
  BY DEF LInv, ShareReferences, RecipientsAsRequested
<1> QED BY <1>1, <1>2, <1>3 DEF LInv

\* A handler goes on and changes no link.
LEMMA LinksRead ==
    ASSUME TypeOK, LInv, NEW r \in Requests,
           \/ \E l \in Asks : CreateCheck(r, l)
           \/ \E s \in Shares : Load(r, s) \/ \E a \in Accounts : RevokeCheck(r, a, s)
           \/ \E tok \in tokens : Personal(r, tok)
           \/ \E n \in Names : Find(r, n)
           \/ Authorise(r)
    PROVE  LInv'
<1> USE DEF TypeOK, LInv, rows
<1>1. UNCHANGED <<accounts, buckets, link, users, announced>>
  BY DEF CreateCheck, Load, RevokeCheck, Personal, Find, Authorise
<1>2. (ShareReferences /\ RecipientsAsRequested)'
  BY <1>1 DEF ShareReferences, RecipientsAsRequested
<1>3. pc'[r] \notin {"idle", "users"} /\ \A q \in Requests \ {r} : pc'[q] = pc[q] /\ share'[q] = share[q]
                                   /\ access'[q] = access[q] /\ draft'[q] = draft[q] /\ todo'[q] = todo[q]
  <2>1. CASE \/ \E l \in Asks : CreateCheck(r, l)
             \/ \E s \in Shares : Load(r, s) \/ \E a \in Accounts : RevokeCheck(r, a, s)
    BY <2>1 DEF CreateCheck, Load, RevokeCheck
  <2>2. CASE (\E tok \in tokens : Personal(r, tok)) \/ \E n \in Names : Find(r, n)
    BY <2>2 DEF Personal, Find
  <2>3. CASE Authorise(r)
    BY <2>3 DEF Authorise
  <2> QED BY <2>1, <2>2, <2>3
<1>4. CreationOK'
  BY <1>1, <1>3 DEF CreationOK
<1>5. /\ pc'[r] = "insert" => draft'[r] \in Link
      /\ pc'[r] \in {"users", "revoke", "authorise"} => share'[r] # None
      /\ share'[r] # None => link[share'[r]] # None
  <2>1. /\ pc[r] = "idle" => share[r] = None
        /\ pc[r] = "authorise" => share[r] # None
        /\ share[r] # None => link[share[r]] # None
    BY DEF HandlersOK
  <2>2. ASSUME NEW s \in Shares PROVE s # None
    BY SharesAssumption
  <2>3. CASE \E l \in Asks : CreateCheck(r, l)
    BY <2>1, <2>3, SharesAssumption DEF CreateCheck
  <2>4. CASE \E s \in Shares : Load(r, s) \/ \E a \in Accounts : RevokeCheck(r, a, s)
    <3>1. PICK s \in Shares : Load(r, s) \/ \E a \in Accounts : RevokeCheck(r, a, s)
      BY <2>4
    <3>2. share'[r] = s /\ link[s] # None /\ pc'[r] # "insert"
      BY <3>1 DEF Load, Loadable, RevokeCheck
    <3> QED BY <2>2, <3>2
  <2>5. CASE \E tok \in tokens : Personal(r, tok)
    BY <2>1, <2>5 DEF Personal
  <2>6. CASE Authorise(r) \/ \E n \in Names : Find(r, n)
    BY <2>1, <2>6 DEF Authorise, Find
  <2> QED BY <2>3, <2>4, <2>5, <2>6
<1>6. HandlersOK'
  BY <1>1, <1>3, <1>5 DEF HandlersOK
<1> QED BY <1>2, <1>4, <1>6

\* create_share: the row ...
LEMMA LinksInsert ==
    ASSUME TypeOK, LInv, NEW r \in Requests, NEW s \in Shares, CreateInsert(r, s)
    PROVE  LInv'
<1> USE DEF TypeOK, LInv
<1> DEFINE l == draft[r]
<1>1. l \in Link /\ l # None /\ l.bucket \in buckets /\ l.by \in accounts
  BY LinkFields DEF CreateInsert, InsertAllowed, HandlersOK
<1>2. link' = [link EXCEPT ![s] = l] /\ users' = users /\ announced' = announced
      /\ accounts' = accounts /\ buckets' = buckets
  BY DEF CreateInsert
<1>3. link[s] = None /\ users[s] = {} /\ s \notin announced
  BY DEF CreateInsert, CreationOK
<1>4. /\ pc'[r] = "users" /\ share'[r] = s /\ todo'[r] = Recipients(l) /\ access' = access
      /\ \A q \in Requests \ {r} : pc'[q] = pc[q] /\ share'[q] = share[q]
                                   /\ draft'[q] = draft[q] /\ todo'[q] = todo[q]
  BY DEF CreateInsert
<1>5. \A q \in Requests \ {r} : share[q] # None => share[q] \in Shares \ {s}
  BY <1>3 DEF HandlersOK
<1>6. HandlersOK'
  BY <1>1, <1>2, <1>4, <1>5, SharesAssumption DEF HandlersOK
<1>7. \A q \in Requests : pc'[q] = "users" => users'[share'[q]] \cup todo'[q] = Recipients(link'[share'[q]])
  <2>1. users'[share'[r]] \cup todo'[r] = Recipients(link'[share'[r]])
    BY <1>2, <1>3, <1>4
  <2>2. ASSUME NEW q \in Requests \ {r}, pc'[q] = "users"
        PROVE  users'[share'[q]] \cup todo'[q] = Recipients(link'[share'[q]])
    <3>1. share[q] # None /\ pc[q] = "users"
      BY <1>4, <2>2 DEF HandlersOK
    <3>2. link'[share[q]] = link[share[q]]
      BY <1>2, <1>5, <3>1
    <3> QED BY <1>2, <1>4, <2>2, <3>1, <3>2 DEF CreationOK
  <2> QED BY <2>1, <2>2
<1>8. CreationOK'
  BY <1>1, <1>2, <1>3, <1>7 DEF CreationOK
<1>9. ShareReferences'
  BY <1>1, <1>2, <1>3 DEF ShareReferences
<1>10. RecipientsAsRequested'
  BY <1>2, <1>3 DEF RecipientsAsRequested
<1> QED BY <1>6, <1>8, <1>9, <1>10

\* ... its recipients ...
LEMMA LinksUser ==
    ASSUME TypeOK, LInv, NEW r \in Requests, NEW u \in Accounts, CreateUser(r, u)
    PROVE  LInv'
<1>1. CASE u \notin accounts
  BY <1>1, LinksFinished DEF CreateUser
<1>2. CASE u \in accounts
  <2> USE DEF TypeOK, LInv
  <2> DEFINE s == share[r]
  <2>1. /\ pc[r] = "users" /\ s \in Shares /\ link[s] # None
        /\ u \in Recipients(link[s])
    BY DEF CreateUser, HandlersOK, CreationOK
  <2>2. /\ users' = [users EXCEPT ![s] = @ \cup {u}]
        /\ todo' = [todo EXCEPT ![r] = @ \ {u}]
        /\ UNCHANGED <<accounts, buckets, link, announced, pc, draft, share, access>>
    BY <1>2 DEF CreateUser
  <2>3. HandlersOK'
    BY <2>2 DEF HandlersOK
  <2>4. CreationOK'
    <3>1. \A t \in Shares : link'[t] = None => users'[t] = {} /\ t \notin announced'
      BY <2>1, <2>2 DEF CreationOK
    <3>2. ASSUME NEW q \in Requests, pc'[q] = "users"
          PROVE  users'[share'[q]] \cup todo'[q] = Recipients(link'[share'[q]])
      <4>1. pc[q] = "users" /\ share[q] \in Shares
        BY <2>2, <3>2 DEF HandlersOK
      <4>2. users[share[q]] \cup todo[q] = Recipients(link[share[q]])
        BY <4>1 DEF CreationOK
      <4>3. CASE q = r
        BY <2>1, <2>2, <4>1, <4>2, <4>3
      <4>4. CASE q # r
        BY <2>1, <2>2, <4>1, <4>2, <4>4
      <4> QED BY <4>3, <4>4
    <3> QED BY <3>1, <3>2 DEF CreationOK
  <2>5. ShareReferences'
    BY <1>2, <2>1, <2>2 DEF ShareReferences
  <2>6. RecipientsAsRequested'
    BY <2>1, <2>2 DEF RecipientsAsRequested
  <2> QED BY <2>3, <2>4, <2>5, <2>6
<1> QED BY <1>1, <1>2

\* ... and the answer, when none is left.
LEMMA LinksDone ==
    ASSUME TypeOK, LInv, NEW r \in Requests, CreateDone(r)
    PROVE  LInv'
<1> USE DEF TypeOK, LInv, rows
<1>1. /\ share[r] \in Shares /\ link[share[r]] # None
      /\ users[share[r]] = Recipients(link[share[r]])
  BY DEF CreateDone, HandlersOK, CreationOK
<1>2. announced' = announced \cup {share[r]} /\ Finish(r)
      /\ UNCHANGED <<accounts, buckets, link, users>>
  BY DEF CreateDone
<1>3. HandlersOK'
  BY <1>2, Finished DEF HandlersOK
<1>4. CreationOK'
  BY <1>1, <1>2, Finished DEF CreationOK
<1>5. ShareReferences' /\ RecipientsAsRequested'
  BY <1>1, <1>2 DEF ShareReferences, RecipientsAsRequested
<1> QED BY <1>3, <1>4, <1>5

\* The foreign keys keep what a link refers to.
LEMMA LinksDrop ==
    ASSUME TypeOK, LInv,
           \/ \E b \in Buckets : DropBucket(b)
           \/ \E a \in Accounts : DeleteAccount(a)
    PROVE  LInv'
<1> USE DEF LInv
<1>1. UNCHANGED <<link, users, pc, draft, todo, share, access, announced>>
  BY DEF DropBucket, DeleteAccount, handlers
<1>2. (HandlersOK /\ CreationOK /\ RecipientsAsRequested)'
  BY <1>1 DEF HandlersOK, CreationOK, RecipientsAsRequested
<1>3. ShareReferences'
  BY <1>1 DEF ShareReferences, DropBucket, DeleteAccount, Referenced
<1> QED BY <1>2, <1>3

\* Every step keeps it.
LEMMA LinksStep == TypeOK /\ LInv /\ [Next]_vars => LInv'
<1> SUFFICES ASSUME TypeOK, LInv, [Next]_vars PROVE LInv'
  OBVIOUS
<1>1. ASSUME NEW r \in Requests, Manage(r) PROVE LInv'
  <2>1. CASE RevokeWrite(r)
    BY <2>1, LinksFinished DEF RevokeWrite
  <2> QED BY <1>1, <2>1, LinksRead, LinksInsert, LinksUser, LinksDone DEF Manage
<1>2. ASSUME NEW r \in Requests, Content(r) \/ End(r) PROVE LInv'
  <2>1. CASE Read(r) \/ Describe(r) \/ End(r)
    BY <2>1, LinksFinished DEF Read, Describe, End, rows
  <2> QED BY <1>2, <2>1, LinksRead DEF Content
<1>3. ASSUME NEW a \in Accounts, NEW b \in Buckets,
             \/ \E n \in Names : MintForFile(a, b, n)
             \/ \E t \in Targets : MintForFolder(a, b, t)
      PROVE  LInv'
  BY <1>3, LinksUnchanged DEF MintForFile, MintForFolder, handlers, links
<1>4. CASE Around
  <2>1. CASE Tick \/ \E b \in Buckets : \/ \E n \in Names : ChangeObject(b, n)
                                        \/ \E a \in Accounts : ChangeReader(a, b)
    BY <2>1, LinksUnchanged DEF Tick, ChangeObject, ChangeReader, handlers, rows, links
  <2> QED BY <1>4, <2>1, LinksDrop DEF Around
<1>5. CASE UNCHANGED vars
  BY <1>5, LinksUnchanged DEF vars, links
<1> QED BY <1>1, <1>2, <1>3, <1>4, <1>5 DEF Next
-----------------------------------------------------------------------------
\* Times.  What these facts are about:
times == <<now, link, revokedAt, tokens, pc, share, access, stamp>>

TInv == StampsOK /\ TokensOK /\ RevocationBites

\* Nothing it speaks of changes.
LEMMA TimesUnchanged == TInv /\ UNCHANGED times => TInv'
BY DEF times, TInv, StampsOK, TokensOK, RevocationBites

\* A handler ends.
LEMMA TimesFinished ==
    ASSUME TypeOK, TInv, NEW r \in Requests, Finish(r),
           UNCHANGED <<now, link, revokedAt, tokens>>
    PROVE  TInv'
<1>1. 0 <= now
  BY SharesAssumption DEF TypeOK, Times
<1>2. StampsOK'
  BY <1>1, Finished DEF TInv, StampsOK
<1>3. TokensOK' /\ RevocationBites'
  BY Finished DEF TInv, TokensOK, RevocationBites
<1> QED BY <1>2, <1>3 DEF TInv

\* create_share, and the check of revoke_share, do not get past "authorise".
LEMMA TimesManage ==
    ASSUME TypeOK, HandlersOK, TInv, NEW r \in Requests,
           \/ \E l \in Asks : CreateCheck(r, l)
           \/ \E s \in Shares : CreateInsert(r, s) \/ \E a \in Accounts : RevokeCheck(r, a, s)
    PROVE  TInv'
<1> USE DEF TypeOK, TInv, rows
<1>1. UNCHANGED <<now, revokedAt, tokens, access, stamp>>
  BY DEF CreateCheck, CreateInsert, RevokeCheck
<1>2. pc'[r] \notin {"authorise", "find", "read"}
  BY DEF CreateCheck, CreateInsert, RevokeCheck
<1>3. \A q \in Requests \ {r} : pc'[q] = pc[q] /\ share'[q] = share[q]
  BY DEF CreateCheck, CreateInsert, RevokeCheck
<1>4. \A q \in Requests : share[q] # None => link'[share[q]] = link[share[q]]
  BY DEF CreateCheck, CreateInsert, RevokeCheck, HandlersOK
<1>5. StampsOK' /\ TokensOK'
  BY <1>1, <1>2, <1>3 DEF StampsOK, TokensOK
<1>6. RevocationBites'
  BY <1>1, <1>2, <1>3, <1>4 DEF RevocationBites
<1> QED BY <1>5, <1>6

\* A revocation comes after every load so far.
LEMMA TimesRevoke ==
    ASSUME TypeOK, HandlersOK, TInv, NEW r \in Requests, RevokeWrite(r)
    PROVE  TInv'
<1> USE DEF TypeOK, TInv
<1>1. share[r] \in Shares /\ now \in Nat
  BY SharesAssumption DEF RevokeWrite, HandlersOK, Times
<1>2. Finish(r) /\ UNCHANGED <<now, link, tokens>>
  BY DEF RevokeWrite
<1>3. \A s \in Shares : \/ revokedAt'[s] = revokedAt[s]
                        \/ revokedAt'[s] = now
  BY <1>1 DEF RevokeWrite, RevokeTime
<1>4. StampsOK'
  BY <1>1, <1>2, <1>3, Finished DEF StampsOK
<1>5. TokensOK'
  BY <1>2 DEF TokensOK
<1>6. RevocationBites'
  BY <1>2, <1>3, Finished DEF RevocationBites, StampsOK
<1> QED BY <1>4, <1>5, <1>6

\* Requests for content.
LEMMA TimesContent ==
    ASSUME TypeOK, HandlersOK, TInv, NEW r \in Requests,
           \/ \E s \in Shares : Load(r, s)
           \/ \E tok \in tokens : Personal(r, tok)
           \/ \E n \in Names : Find(r, n)
           \/ Authorise(r)
    PROVE  TInv'
<1> USE DEF TypeOK, TInv, rows
<1>1. UNCHANGED <<now, link, revokedAt, tokens>>
  BY DEF Load, Personal, Find, Authorise
<1>2. TokensOK'
  BY <1>1 DEF TokensOK
<1>3. now \in Nat /\ Forever \in Nat /\ now < Forever
  BY SharesAssumption DEF Times
<1>4. CASE \E s \in Shares : Load(r, s)
  <2>1. /\ pc'[r] = "authorise" /\ stamp'[r] = now /\ revokedAt[share'[r]] = Forever
        /\ access[r] = None /\ access' = access
    BY <1>4 DEF Load, Loadable, HandlersOK
  <2>2. \A q \in Requests \ {r} : pc'[q] = pc[q] /\ share'[q] = share[q] /\ stamp'[q] = stamp[q]
    BY <1>4 DEF Load
  <2>3. StampsOK'
    BY <1>1, <1>3, <2>1, <2>2 DEF StampsOK
  <2>4. RevocationBites'
    BY <1>1, <2>1, <2>2 DEF RevocationBites
  <2> QED BY <1>2, <2>3, <2>4
<1>5. ASSUME NEW tok \in tokens, Personal(r, tok) PROVE TInv'
  <2>1. /\ share[r] = None /\ share' = share /\ stamp'[r] = now /\ access'[r] = tok
        /\ stamp'[r] <= tok.exp
    BY <1>5 DEF Personal, HandlersOK, InTime
  <2>2. \A q \in Requests \ {r} : pc'[q] = pc[q] /\ access'[q] = access[q] /\ stamp'[q] = stamp[q]
    BY <1>5 DEF Personal
  <2>3. StampsOK'
    BY <1>1, <1>3, <2>1, <2>2 DEF StampsOK
  <2>4. RevocationBites'
    BY <1>1, <2>1, <2>2 DEF RevocationBites
  <2> QED BY <1>2, <2>3, <2>4
<1>6. ASSUME NEW n \in Names, Find(r, n) PROVE TInv'
  <2>1. /\ pc[r] = "find" /\ UNCHANGED <<share, access, stamp>>
        /\ \A q \in Requests \ {r} : pc'[q] = pc[q]
    BY <1>6 DEF Find
  <2>2. StampsOK'
    BY <1>1, <2>1 DEF StampsOK
  <2>3. RevocationBites'
    BY <1>1, <2>1 DEF RevocationBites
  <2> QED BY <1>2, <2>2, <2>3
<1>7. CASE Authorise(r)
  <2>1. /\ pc[r] = "authorise" /\ UNCHANGED <<share, stamp>>
        /\ share[r] \in Shares /\ link[share[r]] \in Link /\ now <= link[share[r]].exp
    BY <1>7 DEF Authorise, HandlersOK, InTime
  <2>2. \A q \in Requests \ {r} : pc'[q] = pc[q] /\ access'[q] = access[q]
    BY <1>7 DEF Authorise
  <2>3. link[share[r]].exp \in Nat /\ stamp[r] \in Nat /\ stamp[r] <= now
    <3>1. link[share[r]].exp \in Nat
      BY <2>1, LinkFields
    <3>2. stamp[r] \in Nat
      BY SharesAssumption DEF Times
    <3> QED BY <3>1, <3>2 DEF StampsOK
  <2>4. access'[r] = access[r] \/ (access'[r] \in tokens /\ now <= access'[r].exp)
    BY <1>7 DEF Authorise, Grants, InTime
  <2>5. access'[r] # None => access'[r] \in tokens /\ stamp[r] <= access'[r].exp
    <3>1. CASE access'[r] = access[r]
      BY <3>1 DEF StampsOK
    <3>2. CASE access'[r] \in tokens /\ now <= access'[r].exp
      <4>1. access'[r].exp \in Nat
        BY <3>2, TokenFields
      <4> QED BY <1>3, <2>3, <3>2, <4>1
    <3> QED BY <2>4, <3>1, <3>2
  <2>6. StampsOK'
    BY <1>1, <2>1, <2>2, <2>5 DEF StampsOK
  <2>7. stamp[r] <= link[share[r]].exp /\ stamp[r] <= revokedAt[share[r]]
    BY <1>3, <2>1, <2>3, SharesAssumption DEF StampsOK
  <2>8. RevocationBites'
    BY <1>1, <2>1, <2>2, <2>7 DEF RevocationBites
  <2> QED BY <1>2, <2>6, <2>8
<1> QED BY <1>4, <1>5, <1>6, <1>7

\* create_media_link.
LEMMA TimesMint ==
    ASSUME TypeOK, TInv, NEW a \in Accounts, NEW b \in Buckets,
           \/ \E n \in Names : MintForFile(a, b, n)
           \/ \E t \in Targets : MintForFolder(a, b, t)
    PROVE  TInv'
<1>1. UNCHANGED <<now, link, revokedAt, handlers>>
  BY DEF MintForFile, MintForFolder
<1>2. PICK tok : tokens' = tokens \cup {tok} /\ tok.exp <= tok.at + Lifetime(tok)
  BY ShareTokenMinted, PersonalTokenMinted DEF MintForFile, MintForFolder, Preferred, Covering
<1>3. TokensOK'
  BY <1>2 DEF TInv, TokensOK
<1>4. StampsOK' /\ RevocationBites'
  BY <1>1, <1>2 DEF TInv, StampsOK, RevocationBites, handlers
<1> QED BY <1>3, <1>4 DEF TInv

\* Every step keeps it.
LEMMA TimesStep == TypeOK /\ HandlersOK /\ TInv /\ [Next]_vars => TInv'
<1> SUFFICES ASSUME TypeOK, HandlersOK, TInv, [Next]_vars PROVE TInv'
  OBVIOUS
<1>1. ASSUME NEW r \in Requests, Manage(r) PROVE TInv'
  <2>1. ASSUME NEW u \in Accounts, CreateUser(r, u) PROVE TInv'
    <3>1. CASE u \in accounts
      BY <2>1, <3>1, TimesUnchanged DEF CreateUser, times
    <3>2. CASE u \notin accounts
      BY <2>1, <3>2, TimesFinished DEF CreateUser
    <3> QED BY <3>1, <3>2
  <2>2. CASE CreateDone(r)
    BY <2>2, TimesFinished DEF CreateDone, rows
  <2> QED BY <1>1, <2>1, <2>2, TimesManage, TimesRevoke DEF Manage
<1>2. ASSUME NEW r \in Requests, Content(r) \/ End(r) PROVE TInv'
  <2>1. CASE Read(r) \/ Describe(r) \/ End(r)
    BY <2>1, TimesFinished DEF Read, Describe, End, rows
  <2> QED BY <1>2, <2>1, TimesContent DEF Content
<1>3. CASE Tick
  <2>1. now \in Nat /\ now' = now + 1 /\ \A r \in Requests : stamp[r] \in Nat
    BY <1>3, SharesAssumption DEF Tick, TypeOK, Times
  <2>2. UNCHANGED <<link, revokedAt, tokens, pc, share, access, stamp>>
    BY <1>3 DEF Tick, rows, handlers
  <2>3. StampsOK'
    BY <2>1, <2>2 DEF TInv, StampsOK
  <2>4. TokensOK' /\ RevocationBites'
    BY <2>2 DEF TInv, TokensOK, RevocationBites
  <2> QED BY <2>3, <2>4 DEF TInv
<1>4. CASE Around
  <2>1. CASE \/ \E b \in Buckets : \/ DropBucket(b) \/ \E n \in Names : ChangeObject(b, n)
                                   \/ \E a \in Accounts : ChangeReader(a, b)
             \/ \E a \in Accounts : DeleteAccount(a)
    BY <2>1, TimesUnchanged DEF DropBucket, DeleteAccount, ChangeObject, ChangeReader, handlers, times
  <2> QED BY <1>3, <1>4, <2>1 DEF Around
<1>5. CASE UNCHANGED vars
  BY <1>5, TimesUnchanged DEF vars, times
<1> QED BY <1>1, <1>2, <1>4, <1>5, TimesMint DEF Next
-----------------------------------------------------------------------------
\* SInv holds in every reachable state.
LEMMA Invariant == Spec => []SInv
<1>1. SInv /\ [Next]_vars => SInv'
  BY TypeStep, LinksStep, TimesStep DEF SInv, LInv, TInv
<1> QED BY <1>1, InitInv, PTL DEF Spec

\* The foreign keys of migration 0007: however deletions of accounts and buckets
\* race create_share, what a link refers to exists.
THEOREM LinksRefer == Spec => []ShareReferences
<1>1. SInv => ShareReferences
  BY DEF SInv
<1> QED BY <1>1, Invariant, PTL

\* create_share inserts recipients one by one and any INSERT may fail: a link
\* never has others than those asked for, and one that was announced has all.
THEOREM RecipientsRight == Spec => []RecipientsAsRequested
<1>1. SInv => RecipientsAsRequested
  BY DEF SInv
<1> QED BY <1>1, Invariant, PTL

\* load_share and authorize_share, statements apart: a request past both loaded
\* the link before it was revoked and before it expired.
THEOREM NothingAfterRevocation == Spec => []RevocationBites
<1>1. SInv => RevocationBites
  BY DEF SInv
<1> QED BY <1>1, Invariant, PTL

\* media_access: a token serves content no longer than its lifetime after it
\* was minted, whatever became of the link or of the permission since.
THEOREM TokensLapse == Spec => []StaleAccessBounded
<1>1. SInv => StaleAccessBounded
  <2> SUFFICES ASSUME SInv, NEW r \in Requests, access[r] # None
               PROVE  stamp[r] <= access[r].at + Lifetime(access[r])
    BY DEF StaleAccessBounded, Lifetime
  <2>1. access[r] \in ShareToken \cup PersonalToken /\ stamp[r] \in Nat
    BY SharesAssumption DEF SInv, TypeOK, Times
  <2>2. access[r] \in tokens /\ stamp[r] <= access[r].exp
    BY DEF SInv, StampsOK
  <2>3. access[r].exp <= access[r].at + Lifetime(access[r])
    BY <2>2 DEF SInv, TokensOK
  <2> QED BY <2>1, <2>2, <2>3, TokenFields
<1> QED BY <1>1, Invariant, PTL
=============================================================================
