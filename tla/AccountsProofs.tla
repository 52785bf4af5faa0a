---------------------------- MODULE AccountsProofs ---------------------------
(***************************************************************************)
(* References, bootstrap, lockout and sessions, for any sets of accounts,  *)
(* roles, buckets, tokens and concurrent requests.                         *)
(***************************************************************************)
EXTENDS Accounts, TLAPS

\* What a handler has read when it is at a later step.
LocalsOK ==
    \A r \in Requests :
        /\ pc[r] # "idle" /\ ~ At(r, "bootstrap", "check") => actor[r] \in Accounts
        /\ pc[r] = "sweep" \/ At(r, "admin", "assign") \/ At(r, "deleteAccount", "write")
              \/ At(r, "patchBucket", "write") => subject[r] \in Accounts
        /\ pc[r] = "grant" \/ At(r, "patchBucket", "assign") \/ At(r, "patchBucket", "write")
              => target[r] \in Buckets
        /\ pc[r] = "idle" => op[r] = "none"
        /\ pc[r] = "check" => op[r] \in {"admin", "deleteAccount", "patchBucket", "bootstrap"}
        /\ pc[r] \in {"sweep", "grant"} => op[r] = "admin"
        /\ pc[r] = "open" => op[r] \in {"login", "bootstrap"}

\* Roles other than Owner come and go.
OwnerLive == roles[OwnerRole] = "live"

\* The part that names what handlers and rows refer to.
BInv == TypeOK /\ LocalsOK /\ OwnerLive /\ References

\* No account exists at the start, and the seeded bucket is the Owner role's.
LEMMA InitBase == Init => BInv
<1> SUFFICES ASSUME Init PROVE BInv
  OBVIOUS
<1>1. TypeOK
  BY AccountsAssumption DEF Init, TypeOK, Ops, Pcs
<1>2. LocalsOK /\ OwnerLive
  BY AccountsAssumption DEF Init, LocalsOK, OwnerLive, At
<1>3. References
  BY AccountsAssumption DEF Init, References
<1> QED BY <1>1, <1>2, <1>3 DEF BInv

\* Types, and the values that handlers carry from one step to the next.
LEMMA BaseTypes == BInv /\ [Next]_vars => TypeOK'
<1> SUFFICES ASSUME BInv, [Next]_vars PROVE TypeOK'
  OBVIOUS
<1> USE AccountsAssumption DEF BInv, TypeOK, LocalsOK, At, Pcs, tables, control, history
<1>0. {"admin", "deleteAccount", "patchBucket", "login", "bootstrap", "none"} \subseteq Ops
  BY DEF Ops
<1> USE <1>0
<1>1. ASSUME NEW r \in Requests, NEW t \in Tokens, NEW o \in Ops, Admit(r, t, o) PROVE TypeOK'
  BY <1>1 DEF Admit, Begin
<1>2. ASSUME NEW r \in Requests, NEW t \in Tokens, OpenSession(r, t) PROVE TypeOK'
  <2>1. CASE Exists(actor[r])
    BY <1>2, <2>1 DEF OpenSession, Finish
  <2>2. CASE ~ Exists(actor[r])
    BY <1>2, <2>2 DEF OpenSession, Finish
  <2> QED BY <2>1, <2>2
<1>3. ASSUME NEW r \in Requests, NEW a \in Accounts, Login(r, a) PROVE TypeOK'
  BY <1>3 DEF Login
<1>4. ASSUME NEW r \in Requests, BootCheck(r) PROVE TypeOK'
  BY <1>4 DEF BootCheck, Begin
<1>5. ASSUME NEW r \in Requests, NEW a \in Accounts, BootCreate(r, a) PROVE TypeOK'
  BY <1>5 DEF BootCreate, Fresh
<1>6. ASSUME NEW r \in Requests, BootAssign(r) PROVE TypeOK'
  BY <1>6 DEF BootAssign, Goto
<1>7. ASSUME NEW r \in Requests, BootClaim(r) PROVE TypeOK'
  BY <1>7 DEF BootClaim, Goto
<1>8. ASSUME NEW r \in Requests, RequireOwner(r) PROVE TypeOK'
  BY <1>8 DEF RequireOwner, Goto, Finish
<1>9. ASSUME NEW r \in Requests, NEW a \in Accounts, CreateAccount(r, a) PROVE TypeOK'
  BY <1>9 DEF CreateAccount, Fresh, Goto, Finish
<1>10. ASSUME NEW r \in Requests, NEW R \in SUBSET Roles,
             CreateAccountRoles(r, R) \/ \E a \in Accounts : SetRoles(r, a, R)
       PROVE  TypeOK'
  <2>1. PICK a \in Accounts : SetAccountRoles(a, R)
    BY <1>10 DEF CreateAccountRoles, SetRoles
  <2>2. holds' \subseteq Accounts \X Roles
    BY <2>1 DEF SetAccountRoles
  <2>3. excused' \in BOOLEAN
    BY <2>1 DEF SetAccountRoles
  <2> QED BY <1>10, <2>2, <2>3 DEF CreateAccountRoles, SetRoles, Finish
<1>11. ASSUME NEW r \in Requests, NEW a \in Accounts, Disable(r, a) PROVE TypeOK'
  BY <1>11 DEF Disable, Goto
<1>12. ASSUME NEW r \in Requests, NEW a \in Accounts, Enable(r, a) PROVE TypeOK'
  BY <1>12 DEF Enable, Finish
<1>13. ASSUME NEW r \in Requests, NEW a \in Accounts, RegeneratePassword(r, a) PROVE TypeOK'
  BY <1>13 DEF RegeneratePassword, SessionsOf, Goto
<1>14. ASSUME NEW r \in Requests, Sweep(r) PROVE TypeOK'
  BY <1>14 DEF Sweep, Forget, Finish
<1>15. ASSUME NEW r \in Requests, NEW a \in Accounts, DeleteCheck(r, a) PROVE TypeOK'
  BY <1>15 DEF DeleteCheck, Goto
<1>16. ASSUME NEW r \in Requests, DeleteAccount(r) PROVE TypeOK'
  BY <1>16 DEF DeleteAccount, Orphaned, SessionsOf, Forget, Finish
<1>17. ASSUME NEW r \in Requests, NEW x \in Roles, CreateRole(r, x) \/ DeleteRole(r, x)
       PROVE  TypeOK'
  BY <1>17 DEF CreateRole, DeleteRole, MayDeleteRole, Finish
<1>18. ASSUME NEW r \in Requests, NEW x \in Roles, NEW B \in SUBSET Buckets, PutPermissions(r, x, B)
       PROVE  TypeOK'
  BY <1>18 DEF PutPermissions, Live, Finish
<1>19. ASSUME NEW r \in Requests, NEW b \in Buckets, CreateBucket(r, b) PROVE TypeOK'
  BY <1>19 DEF CreateBucket
<1>20. ASSUME NEW r \in Requests, GrantOwner(r) PROVE TypeOK'
  BY <1>20 DEF GrantOwner, Finish
<1>21. ASSUME NEW r \in Requests, NEW b \in Buckets, OwnsBucket(r, b) PROVE TypeOK'
  BY <1>21 DEF OwnsBucket
<1>22. ASSUME NEW r \in Requests, NEW a \in Accounts, NewOwnerEnabled(r, a) PROVE TypeOK'
  BY <1>22 DEF NewOwnerEnabled, Goto
<1>23. ASSUME NEW r \in Requests, SetBucketOwner(r) PROVE TypeOK'
  BY <1>23 DEF SetBucketOwner, Finish
<1>24. ASSUME NEW r \in Requests, CutOff(r) PROVE TypeOK'
  BY <1>24 DEF CutOff, SessionsOf, Finish
<1>25. ASSUME NEW t \in Tokens, Close(t) PROVE TypeOK'
  BY <1>25 DEF Close, Forget
<1>26. ASSUME NEW b \in Buckets, EnsureBucket(b) \/ DeleteBucket(b) PROVE TypeOK'
  BY <1>26 DEF EnsureBucket, DeleteBucket
<1>27. ASSUME UNCHANGED vars PROVE TypeOK'
  BY <1>27 DEF vars
<1> QED BY <1>1, <1>2, <1>3, <1>4, <1>5, <1>6, <1>7, <1>8, <1>9, <1>10, <1>11, <1>12, <1>13, <1>14,
          <1>15, <1>16, <1>17, <1>18, <1>19, <1>20, <1>21, <1>22, <1>23, <1>24, <1>25, <1>26, <1>27
       DEF Next, Sessions, Bootstrap, Administer, PatchBucket

\* What handlers carry over belongs to their step.
LEMMA BaseLocals == BInv /\ [Next]_vars => LocalsOK'
<1> SUFFICES ASSUME BInv, [Next]_vars PROVE LocalsOK'
  OBVIOUS
<1> USE AccountsAssumption DEF BInv, TypeOK, LocalsOK, At, tables, control, history
<1>1. ASSUME NEW r \in Requests, NEW t \in Tokens, NEW o \in Ops, Admit(r, t, o) PROVE LocalsOK'
  BY <1>1 DEF Admit, Begin
<1>2. ASSUME NEW r \in Requests, NEW t \in Tokens, OpenSession(r, t) PROVE LocalsOK'
  BY <1>2 DEF OpenSession, Finish
<1>3. ASSUME NEW r \in Requests, NEW a \in Accounts, Login(r, a) PROVE LocalsOK'
  BY <1>3 DEF Login
<1>4. ASSUME NEW r \in Requests, BootCheck(r) PROVE LocalsOK'
  BY <1>4 DEF BootCheck, Begin
<1>5. ASSUME NEW r \in Requests, NEW a \in Accounts, BootCreate(r, a) PROVE LocalsOK'
  BY <1>5 DEF BootCreate, Fresh
<1>6. ASSUME NEW r \in Requests, BootAssign(r) PROVE LocalsOK'
  BY <1>6 DEF BootAssign, Goto
<1>7. ASSUME NEW r \in Requests, BootClaim(r) PROVE LocalsOK'
  BY <1>7 DEF BootClaim, Goto
<1>8. ASSUME NEW r \in Requests, RequireOwner(r) PROVE LocalsOK'
  BY <1>8 DEF RequireOwner, Goto, Finish
<1>9. ASSUME NEW r \in Requests, NEW a \in Accounts, CreateAccount(r, a) PROVE LocalsOK'
  BY <1>9 DEF CreateAccount, Fresh, Goto, Finish
<1>10. ASSUME NEW r \in Requests, NEW R \in SUBSET Roles,
             CreateAccountRoles(r, R) \/ \E a \in Accounts : SetRoles(r, a, R)
       PROVE  LocalsOK'
  BY <1>10 DEF CreateAccountRoles, SetRoles, SetAccountRoles, Live, Finish
<1>11. ASSUME NEW r \in Requests, NEW a \in Accounts, Disable(r, a) PROVE LocalsOK'
  BY <1>11 DEF Disable, Goto
<1>12. ASSUME NEW r \in Requests, NEW a \in Accounts, Enable(r, a) PROVE LocalsOK'
  BY <1>12 DEF Enable, Finish
<1>13. ASSUME NEW r \in Requests, NEW a \in Accounts, RegeneratePassword(r, a) PROVE LocalsOK'
  BY <1>13 DEF RegeneratePassword, SessionsOf, Goto
<1>14. ASSUME NEW r \in Requests, Sweep(r) PROVE LocalsOK'
  BY <1>14 DEF Sweep, Forget, Finish
<1>15. ASSUME NEW r \in Requests, NEW a \in Accounts, DeleteCheck(r, a) PROVE LocalsOK'
  BY <1>15 DEF DeleteCheck, Goto
<1>16. ASSUME NEW r \in Requests, DeleteAccount(r) PROVE LocalsOK'
  BY <1>16 DEF DeleteAccount, Orphaned, SessionsOf, Forget, Finish
<1>17. ASSUME NEW r \in Requests, NEW x \in Roles, CreateRole(r, x) \/ DeleteRole(r, x)
       PROVE  LocalsOK'
  BY <1>17 DEF CreateRole, DeleteRole, MayDeleteRole, Finish
<1>18. ASSUME NEW r \in Requests, NEW x \in Roles, NEW B \in SUBSET Buckets, PutPermissions(r, x, B)
       PROVE  LocalsOK'
  BY <1>18 DEF PutPermissions, Live, Finish
<1>19. ASSUME NEW r \in Requests, NEW b \in Buckets, CreateBucket(r, b) PROVE LocalsOK'
  BY <1>19 DEF CreateBucket
<1>20. ASSUME NEW r \in Requests, GrantOwner(r) PROVE LocalsOK'
  BY <1>20 DEF GrantOwner, Finish
<1>21. ASSUME NEW r \in Requests, NEW b \in Buckets, OwnsBucket(r, b) PROVE LocalsOK'
  BY <1>21 DEF OwnsBucket
<1>22. ASSUME NEW r \in Requests, NEW a \in Accounts, NewOwnerEnabled(r, a) PROVE LocalsOK'
  BY <1>22 DEF NewOwnerEnabled, Goto
<1>23. ASSUME NEW r \in Requests, SetBucketOwner(r) PROVE LocalsOK'
  BY <1>23 DEF SetBucketOwner, Finish
<1>24. ASSUME NEW r \in Requests, CutOff(r) PROVE LocalsOK'
  BY <1>24 DEF CutOff, SessionsOf, Finish
<1>25. ASSUME NEW t \in Tokens, Close(t) PROVE LocalsOK'
  BY <1>25 DEF Close, Forget
<1>26. ASSUME NEW b \in Buckets, EnsureBucket(b) \/ DeleteBucket(b) PROVE LocalsOK'
  BY <1>26 DEF EnsureBucket, DeleteBucket
<1>27. ASSUME UNCHANGED vars PROVE LocalsOK'
  BY <1>27 DEF vars
<1> QED BY <1>1, <1>2, <1>3, <1>4, <1>5, <1>6, <1>7, <1>8, <1>9, <1>10, <1>11, <1>12, <1>13, <1>14,
          <1>15, <1>16, <1>17, <1>18, <1>19, <1>20, <1>21, <1>22, <1>23, <1>24, <1>25, <1>26, <1>27
       DEF Next, Sessions, Bootstrap, Administer, PatchBucket

\* The foreign keys: no step leaves a name of a row that is gone.
LEMMA BaseReferences == BInv /\ [Next]_vars => References' /\ OwnerLive'
<1> SUFFICES ASSUME BInv, [Next]_vars PROVE References' /\ OwnerLive'
  OBVIOUS
<1> USE AccountsAssumption DEF BInv, TypeOK, LocalsOK, OwnerLive, References, Exists, At,
        tables, control, history
<1>1. ASSUME NEW r \in Requests, NEW t \in Tokens, NEW o \in Ops, Admit(r, t, o)
      PROVE  References' /\ OwnerLive'
  BY <1>1 DEF Admit, Begin
<1>2. ASSUME NEW r \in Requests, NEW t \in Tokens, OpenSession(r, t)
      PROVE  References' /\ OwnerLive'
  BY <1>2 DEF OpenSession, Finish
<1>3. ASSUME NEW r \in Requests, NEW a \in Accounts, Login(r, a) PROVE References' /\ OwnerLive'
  BY <1>3 DEF Login
<1>4. ASSUME NEW r \in Requests, BootCheck(r) PROVE References' /\ OwnerLive'
  BY <1>4 DEF BootCheck, Begin
<1>5. ASSUME NEW r \in Requests, NEW a \in Accounts, BootCreate(r, a)
      PROVE  References' /\ OwnerLive'
  BY <1>5 DEF BootCreate, Fresh
<1>6. ASSUME NEW r \in Requests, BootAssign(r) PROVE References' /\ OwnerLive'
  BY <1>6 DEF BootAssign, Goto
<1>7. ASSUME NEW r \in Requests, BootClaim(r) PROVE References' /\ OwnerLive'
  BY <1>7 DEF BootClaim, Goto
<1>8. ASSUME NEW r \in Requests, RequireOwner(r) PROVE References' /\ OwnerLive'
  BY <1>8 DEF RequireOwner, Goto, Finish
<1>9. ASSUME NEW r \in Requests, NEW a \in Accounts, CreateAccount(r, a)
      PROVE  References' /\ OwnerLive'
  BY <1>9 DEF CreateAccount, Fresh, Goto, Finish
<1>10. ASSUME NEW r \in Requests, NEW R \in SUBSET Roles,
             CreateAccountRoles(r, R) \/ \E a \in Accounts : SetRoles(r, a, R)
       PROVE  References' /\ OwnerLive'
  BY <1>10 DEF CreateAccountRoles, SetRoles, SetAccountRoles, Live, Finish
<1>11. ASSUME NEW r \in Requests, NEW a \in Accounts, Disable(r, a) PROVE References' /\ OwnerLive'
  BY <1>11 DEF Disable, Goto
<1>12. ASSUME NEW r \in Requests, NEW a \in Accounts, Enable(r, a) PROVE References' /\ OwnerLive'
  BY <1>12 DEF Enable, Finish
<1>13. ASSUME NEW r \in Requests, NEW a \in Accounts, RegeneratePassword(r, a)
       PROVE  References' /\ OwnerLive'
  BY <1>13 DEF RegeneratePassword, SessionsOf, Goto
<1>14. ASSUME NEW r \in Requests, Sweep(r) PROVE References' /\ OwnerLive'
  BY <1>14 DEF Sweep, Forget, Finish
<1>15. ASSUME NEW r \in Requests, NEW a \in Accounts, DeleteCheck(r, a)
       PROVE  References' /\ OwnerLive'
  BY <1>15 DEF DeleteCheck, Goto
<1>16. ASSUME NEW r \in Requests, DeleteAccount(r) PROVE References' /\ OwnerLive'
  BY <1>16 DEF DeleteAccount, Orphaned, SessionsOf, Forget, Finish
<1>17. ASSUME NEW r \in Requests, NEW x \in Roles, CreateRole(r, x) \/ DeleteRole(r, x)
       PROVE  References' /\ OwnerLive'
  BY <1>17 DEF CreateRole, DeleteRole, MayDeleteRole, Finish
<1>18. ASSUME NEW r \in Requests, NEW x \in Roles, NEW B \in SUBSET Buckets, PutPermissions(r, x, B)
       PROVE  References' /\ OwnerLive'
  BY <1>18 DEF PutPermissions, Live, Finish
<1>19. ASSUME NEW r \in Requests, NEW b \in Buckets, CreateBucket(r, b)
       PROVE  References' /\ OwnerLive'
  BY <1>19 DEF CreateBucket
<1>20. ASSUME NEW r \in Requests, GrantOwner(r) PROVE References' /\ OwnerLive'
  BY <1>20 DEF GrantOwner, Finish
<1>21. ASSUME NEW r \in Requests, NEW b \in Buckets, OwnsBucket(r, b)
       PROVE  References' /\ OwnerLive'
  BY <1>21 DEF OwnsBucket
<1>22. ASSUME NEW r \in Requests, NEW a \in Accounts, NewOwnerEnabled(r, a)
       PROVE  References' /\ OwnerLive'
  BY <1>22 DEF NewOwnerEnabled, Goto
<1>23. ASSUME NEW r \in Requests, SetBucketOwner(r) PROVE References' /\ OwnerLive'
  BY <1>23 DEF SetBucketOwner, Finish
<1>24. ASSUME NEW r \in Requests, CutOff(r) PROVE References' /\ OwnerLive'
  BY <1>24 DEF CutOff, SessionsOf, Finish
<1>25. ASSUME NEW t \in Tokens, Close(t) PROVE References' /\ OwnerLive'
  BY <1>25 DEF Close, Forget
<1>26. ASSUME NEW b \in Buckets, EnsureBucket(b) \/ DeleteBucket(b) PROVE References' /\ OwnerLive'
  BY <1>26 DEF EnsureBucket, DeleteBucket
<1>27. ASSUME UNCHANGED vars PROVE References' /\ OwnerLive'
  BY <1>27 DEF vars
<1> QED BY <1>1, <1>2, <1>3, <1>4, <1>5, <1>6, <1>7, <1>8, <1>9, <1>10, <1>11, <1>12, <1>13, <1>14,
          <1>15, <1>16, <1>17, <1>18, <1>19, <1>20, <1>21, <1>22, <1>23, <1>24, <1>25, <1>26, <1>27
       DEF Next, Sessions, Bootstrap, Administer, PatchBucket

\* The base part is inductive.
LEMMA BaseStep == BInv /\ [Next]_vars => BInv'
  BY BaseTypes, BaseLocals, BaseReferences DEF BInv

\* An account that nobody created and that no handler is about to delete.
Root(a) ==
    /\ Exists(a) /\ creator[a] = Nobody
    /\ \A r \in Requests : At(r, "deleteAccount", "write") => subject[r] # a

\* Once there is an account there is such a one, and what is about to be
\* deleted was an account.
RootOK ==
    /\ (\E a \in Accounts : Exists(a)) => \E a \in Accounts : Root(a)
    /\ \A r \in Requests : At(r, "deleteAccount", "write") => account[subject[r]] # "none"

\* A root stays one: it has no creator who could delete it.
LEMMA RootKept ==
  ASSUME BInv, RootOK, [Next]_vars, NEW c \in Accounts, Root(c)
  PROVE  Root(c)'
<1> USE AccountsAssumption DEF BInv, TypeOK, LocalsOK, Root, Exists, At, tables, control, history
<1>1. ASSUME NEW r \in Requests, NEW t \in Tokens, NEW o \in Ops, Admit(r, t, o) PROVE Root(c)'
  BY <1>1 DEF Admit, Begin
<1>2. ASSUME NEW r \in Requests, NEW t \in Tokens, OpenSession(r, t) PROVE Root(c)'
  BY <1>2 DEF OpenSession, Finish
<1>3. ASSUME NEW r \in Requests, NEW a \in Accounts, Login(r, a) PROVE Root(c)'
  BY <1>3 DEF Login
<1>4. ASSUME NEW r \in Requests, BootCheck(r) PROVE Root(c)'
  BY <1>4 DEF BootCheck, Begin
<1>5. ASSUME NEW r \in Requests, NEW a \in Accounts, BootCreate(r, a) PROVE Root(c)'
  BY <1>5 DEF BootCreate, Fresh
<1>6. ASSUME NEW r \in Requests, BootAssign(r) PROVE Root(c)'
  BY <1>6 DEF BootAssign, Goto
<1>7. ASSUME NEW r \in Requests, BootClaim(r) PROVE Root(c)'
  BY <1>7 DEF BootClaim, Goto
<1>8. ASSUME NEW r \in Requests, RequireOwner(r) PROVE Root(c)'
  BY <1>8 DEF RequireOwner, Goto, Finish
<1>9. ASSUME NEW r \in Requests, NEW a \in Accounts, CreateAccount(r, a) PROVE Root(c)'
  BY <1>9 DEF CreateAccount, Fresh, Goto, Finish
<1>10. ASSUME NEW r \in Requests, NEW R \in SUBSET Roles,
             CreateAccountRoles(r, R) \/ \E a \in Accounts : SetRoles(r, a, R)
       PROVE  Root(c)'
  BY <1>10 DEF CreateAccountRoles, SetRoles, SetAccountRoles, Live, Finish
<1>11. ASSUME NEW r \in Requests, NEW a \in Accounts, Disable(r, a) PROVE Root(c)'
  BY <1>11 DEF Disable, Goto
<1>12. ASSUME NEW r \in Requests, NEW a \in Accounts, Enable(r, a) PROVE Root(c)'
  BY <1>12 DEF Enable, Finish
<1>13. ASSUME NEW r \in Requests, NEW a \in Accounts, RegeneratePassword(r, a) PROVE Root(c)'
  BY <1>13 DEF RegeneratePassword, SessionsOf, Goto
<1>14. ASSUME NEW r \in Requests, Sweep(r) PROVE Root(c)'
  BY <1>14 DEF Sweep, Forget, Finish
<1>15. ASSUME NEW r \in Requests, NEW a \in Accounts, DeleteCheck(r, a) PROVE Root(c)'
  BY <1>15 DEF DeleteCheck, MayDelete, Goto
<1>16. ASSUME NEW r \in Requests, DeleteAccount(r) PROVE Root(c)'
  BY <1>16 DEF DeleteAccount, Orphaned, SessionsOf, Forget, Finish
<1>17. ASSUME NEW r \in Requests, NEW x \in Roles, CreateRole(r, x) \/ DeleteRole(r, x)
       PROVE  Root(c)'
  BY <1>17 DEF CreateRole, DeleteRole, MayDeleteRole, Finish
<1>18. ASSUME NEW r \in Requests, NEW x \in Roles, NEW B \in SUBSET Buckets, PutPermissions(r, x, B)
       PROVE  Root(c)'
  BY <1>18 DEF PutPermissions, Live, Finish
<1>19. ASSUME NEW r \in Requests, NEW b \in Buckets, CreateBucket(r, b) PROVE Root(c)'
  BY <1>19 DEF CreateBucket
<1>20. ASSUME NEW r \in Requests, GrantOwner(r) PROVE Root(c)'
  BY <1>20 DEF GrantOwner, Finish
<1>21. ASSUME NEW r \in Requests, NEW b \in Buckets, OwnsBucket(r, b) PROVE Root(c)'
  BY <1>21 DEF OwnsBucket
<1>22. ASSUME NEW r \in Requests, NEW a \in Accounts, NewOwnerEnabled(r, a) PROVE Root(c)'
  BY <1>22 DEF NewOwnerEnabled, Goto
<1>23. ASSUME NEW r \in Requests, SetBucketOwner(r) PROVE Root(c)'
  BY <1>23 DEF SetBucketOwner, Finish
<1>24. ASSUME NEW r \in Requests, CutOff(r) PROVE Root(c)'
  BY <1>24 DEF CutOff, SessionsOf, Finish
<1>25. ASSUME NEW t \in Tokens, Close(t) PROVE Root(c)'
  BY <1>25 DEF Close, Forget
<1>26. ASSUME NEW b \in Buckets, EnsureBucket(b) \/ DeleteBucket(b) PROVE Root(c)'
  BY <1>26 DEF EnsureBucket, DeleteBucket
<1>27. ASSUME UNCHANGED vars PROVE Root(c)'
  BY <1>27 DEF vars
<1> QED BY <1>1, <1>2, <1>3, <1>4, <1>5, <1>6, <1>7, <1>8, <1>9, <1>10, <1>11, <1>12, <1>13, <1>14,
          <1>15, <1>16, <1>17, <1>18, <1>19, <1>20, <1>21, <1>22, <1>23, <1>24, <1>25, <1>26, <1>27
       DEF Next, Sessions, Bootstrap, Administer, PatchBucket

\* An id that a handler is about to delete has been given out.
LEMMA RootSubjects ==
  ASSUME BInv, RootOK, [Next]_vars
  PROVE  \A r \in Requests : At(r, "deleteAccount", "write")' => account'[subject'[r]] # "none"
<1> DEFINE Goal == \A q \in Requests : At(q, "deleteAccount", "write")' => account'[subject'[q]] # "none"
<1> USE AccountsAssumption DEF BInv, TypeOK, LocalsOK, RootOK, MayDelete, Exists, At,
        tables, control, history
<1>1. ASSUME NEW r \in Requests, NEW t \in Tokens, NEW o \in Ops, Admit(r, t, o) PROVE Goal
  BY <1>1 DEF Admit, Begin
<1>2. ASSUME NEW r \in Requests, NEW t \in Tokens, OpenSession(r, t) PROVE Goal
  BY <1>2 DEF OpenSession, Finish
<1>3. ASSUME NEW r \in Requests, NEW a \in Accounts, Login(r, a) PROVE Goal
  BY <1>3 DEF Login
<1>4. ASSUME NEW r \in Requests, BootCheck(r) PROVE Goal
  BY <1>4 DEF BootCheck, Begin
<1>5. ASSUME NEW r \in Requests, NEW a \in Accounts, BootCreate(r, a) PROVE Goal
  BY <1>5 DEF BootCreate, Fresh
<1>6. ASSUME NEW r \in Requests, BootAssign(r) PROVE Goal
  BY <1>6 DEF BootAssign, Goto
<1>7. ASSUME NEW r \in Requests, BootClaim(r) PROVE Goal
  BY <1>7 DEF BootClaim, Goto
<1>8. ASSUME NEW r \in Requests, RequireOwner(r) PROVE Goal
  BY <1>8 DEF RequireOwner, Goto, Finish
<1>9. ASSUME NEW r \in Requests, NEW a \in Accounts, CreateAccount(r, a) PROVE Goal
  BY <1>9 DEF CreateAccount, Fresh, Goto, Finish
<1>10. ASSUME NEW r \in Requests, NEW R \in SUBSET Roles,
             CreateAccountRoles(r, R) \/ \E a \in Accounts : SetRoles(r, a, R)
       PROVE  Goal
  BY <1>10 DEF CreateAccountRoles, SetRoles, SetAccountRoles, Live, Finish
<1>11. ASSUME NEW r \in Requests, NEW a \in Accounts, Disable(r, a) PROVE Goal
  BY <1>11 DEF Disable, Goto
<1>12. ASSUME NEW r \in Requests, NEW a \in Accounts, Enable(r, a) PROVE Goal
  BY <1>12 DEF Enable, Finish
<1>13. ASSUME NEW r \in Requests, NEW a \in Accounts, RegeneratePassword(r, a) PROVE Goal
  BY <1>13 DEF RegeneratePassword, SessionsOf, Goto
<1>14. ASSUME NEW r \in Requests, Sweep(r) PROVE Goal
  BY <1>14 DEF Sweep, Forget, Finish
<1>15. ASSUME NEW r \in Requests, NEW a \in Accounts, DeleteCheck(r, a) PROVE Goal
  BY <1>15 DEF DeleteCheck, Goto
<1>16. ASSUME NEW r \in Requests, DeleteAccount(r) PROVE Goal
  BY <1>16 DEF DeleteAccount, Orphaned, SessionsOf, Forget, Finish
<1>17. ASSUME NEW r \in Requests, NEW x \in Roles, CreateRole(r, x) \/ DeleteRole(r, x) PROVE Goal
  BY <1>17 DEF CreateRole, DeleteRole, MayDeleteRole, Finish
<1>18. ASSUME NEW r \in Requests, NEW x \in Roles, NEW B \in SUBSET Buckets, PutPermissions(r, x, B)
       PROVE  Goal
  BY <1>18 DEF PutPermissions, Live, Finish
<1>19. ASSUME NEW r \in Requests, NEW b \in Buckets, CreateBucket(r, b) PROVE Goal
  BY <1>19 DEF CreateBucket
<1>20. ASSUME NEW r \in Requests, GrantOwner(r) PROVE Goal
  BY <1>20 DEF GrantOwner, Finish
<1>21. ASSUME NEW r \in Requests, NEW b \in Buckets, OwnsBucket(r, b) PROVE Goal
  BY <1>21 DEF OwnsBucket
<1>22. ASSUME NEW r \in Requests, NEW a \in Accounts, NewOwnerEnabled(r, a) PROVE Goal
  BY <1>22 DEF NewOwnerEnabled, Goto
<1>23. ASSUME NEW r \in Requests, SetBucketOwner(r) PROVE Goal
  BY <1>23 DEF SetBucketOwner, Finish
<1>24. ASSUME NEW r \in Requests, CutOff(r) PROVE Goal
  BY <1>24 DEF CutOff, SessionsOf, Finish
<1>25. ASSUME NEW t \in Tokens, Close(t) PROVE Goal
  BY <1>25 DEF Close, Forget
<1>26. ASSUME NEW b \in Buckets, EnsureBucket(b) \/ DeleteBucket(b) PROVE Goal
  BY <1>26 DEF EnsureBucket, DeleteBucket
<1>27. ASSUME UNCHANGED vars PROVE Goal
  BY <1>27 DEF vars
<1> QED BY <1>1, <1>2, <1>3, <1>4, <1>5, <1>6, <1>7, <1>8, <1>9, <1>10, <1>11, <1>12, <1>13, <1>14,
          <1>15, <1>16, <1>17, <1>18, <1>19, <1>20, <1>21, <1>22, <1>23, <1>24, <1>25, <1>26, <1>27
       DEF Next, Sessions, Bootstrap, Administer, PatchBucket

\* Without an account only a bootstrap creates one.
LEMMA NobodyAppears ==
  ASSUME BInv, [Next]_vars, \A c \in Accounts : ~ Exists(c),
         ~ \E r \in Requests, a \in Accounts : BootCreate(r, a)
  PROVE  \A c \in Accounts : ~ Exists(c)'
<1> DEFINE Goal == \A c \in Accounts : ~ Exists(c)'
<1> USE AccountsAssumption DEF BInv, TypeOK, LocalsOK, Exists, At, tables, control, history
<1>1. ASSUME NEW r \in Requests, NEW t \in Tokens, NEW o \in Ops, Admit(r, t, o) PROVE Goal
  BY <1>1 DEF Admit, Begin
<1>2. ASSUME NEW r \in Requests, NEW t \in Tokens, OpenSession(r, t) PROVE Goal
  BY <1>2 DEF OpenSession, Finish
<1>3. ASSUME NEW r \in Requests, NEW a \in Accounts, Login(r, a) PROVE Goal
  BY <1>3 DEF Login
<1>4. ASSUME NEW r \in Requests, BootCheck(r) PROVE Goal
  BY <1>4 DEF BootCheck, Begin
<1>5. ASSUME NEW r \in Requests, NEW a \in Accounts, BootCreate(r, a) PROVE Goal
  BY <1>5 DEF BootCreate, Fresh
<1>6. ASSUME NEW r \in Requests, BootAssign(r) PROVE Goal
  BY <1>6 DEF BootAssign, Goto
<1>7. ASSUME NEW r \in Requests, BootClaim(r) PROVE Goal
  BY <1>7 DEF BootClaim, Goto
<1>8. ASSUME NEW r \in Requests, RequireOwner(r) PROVE Goal
  BY <1>8 DEF RequireOwner, Goto, Finish
<1>9. ASSUME NEW r \in Requests, NEW a \in Accounts, CreateAccount(r, a) PROVE Goal
  BY <1>9 DEF CreateAccount, Fresh, Goto, Finish
<1>10. ASSUME NEW r \in Requests, NEW R \in SUBSET Roles,
             CreateAccountRoles(r, R) \/ \E a \in Accounts : SetRoles(r, a, R)
       PROVE  Goal
  BY <1>10 DEF CreateAccountRoles, SetRoles, SetAccountRoles, Live, Finish
<1>11. ASSUME NEW r \in Requests, NEW a \in Accounts, Disable(r, a) PROVE Goal
  BY <1>11 DEF Disable, Goto
<1>12. ASSUME NEW r \in Requests, NEW a \in Accounts, Enable(r, a) PROVE Goal
  BY <1>12 DEF Enable, Finish
<1>13. ASSUME NEW r \in Requests, NEW a \in Accounts, RegeneratePassword(r, a) PROVE Goal
  BY <1>13 DEF RegeneratePassword, SessionsOf, Goto
<1>14. ASSUME NEW r \in Requests, Sweep(r) PROVE Goal
  BY <1>14 DEF Sweep, Forget, Finish
<1>15. ASSUME NEW r \in Requests, NEW a \in Accounts, DeleteCheck(r, a) PROVE Goal
  BY <1>15 DEF DeleteCheck, Goto
<1>16. ASSUME NEW r \in Requests, DeleteAccount(r) PROVE Goal
  BY <1>16 DEF DeleteAccount, Orphaned, SessionsOf, Forget, Finish
<1>17. ASSUME NEW r \in Requests, NEW x \in Roles, CreateRole(r, x) \/ DeleteRole(r, x) PROVE Goal
  BY <1>17 DEF CreateRole, DeleteRole, MayDeleteRole, Finish
<1>18. ASSUME NEW r \in Requests, NEW x \in Roles, NEW B \in SUBSET Buckets, PutPermissions(r, x, B)
       PROVE  Goal
  BY <1>18 DEF PutPermissions, Live, Finish
<1>19. ASSUME NEW r \in Requests, NEW b \in Buckets, CreateBucket(r, b) PROVE Goal
  BY <1>19 DEF CreateBucket
<1>20. ASSUME NEW r \in Requests, GrantOwner(r) PROVE Goal
  BY <1>20 DEF GrantOwner, Finish
<1>21. ASSUME NEW r \in Requests, NEW b \in Buckets, OwnsBucket(r, b) PROVE Goal
  BY <1>21 DEF OwnsBucket
<1>22. ASSUME NEW r \in Requests, NEW a \in Accounts, NewOwnerEnabled(r, a) PROVE Goal
  BY <1>22 DEF NewOwnerEnabled, Goto
<1>23. ASSUME NEW r \in Requests, SetBucketOwner(r) PROVE Goal
  BY <1>23 DEF SetBucketOwner, Finish
<1>24. ASSUME NEW r \in Requests, CutOff(r) PROVE Goal
  BY <1>24 DEF CutOff, SessionsOf, Finish
<1>25. ASSUME NEW t \in Tokens, Close(t) PROVE Goal
  BY <1>25 DEF Close, Forget
<1>26. ASSUME NEW b \in Buckets, EnsureBucket(b) \/ DeleteBucket(b) PROVE Goal
  BY <1>26 DEF EnsureBucket, DeleteBucket
<1>27. ASSUME UNCHANGED vars PROVE Goal
  BY <1>27 DEF vars
<1> QED BY <1>1, <1>2, <1>3, <1>4, <1>5, <1>6, <1>7, <1>8, <1>9, <1>10, <1>11, <1>12, <1>13, <1>14,
          <1>15, <1>16, <1>17, <1>18, <1>19, <1>20, <1>21, <1>22, <1>23, <1>24, <1>25, <1>26, <1>27
       DEF Next, Sessions, Bootstrap, Administer, PatchBucket

\* The first account is a root.
LEMMA RootStep == BInv /\ RootOK /\ [Next]_vars => RootOK'
<1> SUFFICES ASSUME BInv, RootOK, [Next]_vars PROVE RootOK'
  OBVIOUS
<1> USE AccountsAssumption DEF BInv, TypeOK, LocalsOK, tables, control, history
<1>1. \A r \in Requests : At(r, "deleteAccount", "write")' => account'[subject'[r]] # "none"
  BY RootSubjects
<1>2. CASE \E c \in Accounts : Exists(c)
  BY <1>1, <1>2, RootKept DEF RootOK
<1>3. CASE \A c \in Accounts : ~ Exists(c)
  <2>1. CASE \E r \in Requests, a \in Accounts : BootCreate(r, a)
    <3> PICK r \in Requests, a \in Accounts : BootCreate(r, a)
      BY <2>1
    <3>1. Root(a)'
      BY DEF BootCreate, Fresh, Root, Exists, At, RootOK, References
    <3> QED BY <1>1, <3>1 DEF RootOK
  <2>2. CASE ~ \E r \in Requests, a \in Accounts : BootCreate(r, a)
    <3>1. \A c \in Accounts : ~ Exists(c)'
      BY <1>3, <2>2, NobodyAppears
    <3> QED BY <1>1, <3>1 DEF RootOK
  <2> QED BY <2>1, <2>2
<1> QED BY <1>2, <1>3

\* Somebody is in charge, or something that explains why nobody is has happened.
Settled == InCharge # {} \/ excused

\* Before that there is only a bootstrap: no disabled account, no owner, no
\* administration and no created account.
LockOK ==
    \/ Settled
    \/ /\ (\E a \in Accounts : Exists(a)) => \E r \in Requests : At(r, "bootstrap", "assign")
       /\ \A a \in Accounts : account[a] # "disabled" /\ creator[a] = Nobody /\ ~ IsOwner(a)
       /\ \A r \in Requests : /\ ~ (op[r] = "admin" /\ pc[r] # "check")
                              /\ ~ At(r, "deleteAccount", "write")

\* An excuse remains one.
LEMMA ExcusedKept == ASSUME BInv, excused, [Next]_vars PROVE excused'
<1> USE DEF history
<1>1. ASSUME NEW r \in Requests, NEW t \in Tokens, NEW o \in Ops, Admit(r, t, o) PROVE excused'
  BY <1>1 DEF Admit, Begin
<1>2. ASSUME NEW r \in Requests, NEW t \in Tokens, OpenSession(r, t) PROVE excused'
  BY <1>2 DEF OpenSession, Finish
<1>3. ASSUME NEW r \in Requests, NEW a \in Accounts, Login(r, a) PROVE excused'
  BY <1>3 DEF Login
<1>4. ASSUME NEW r \in Requests, BootCheck(r) PROVE excused'
  BY <1>4 DEF BootCheck, Begin
<1>5. ASSUME NEW r \in Requests, NEW a \in Accounts, BootCreate(r, a) PROVE excused'
  BY <1>5 DEF BootCreate, Fresh
<1>6. ASSUME NEW r \in Requests, BootAssign(r) PROVE excused'
  BY <1>6 DEF BootAssign, Goto
<1>7. ASSUME NEW r \in Requests, BootClaim(r) PROVE excused'
  BY <1>7 DEF BootClaim, Goto
<1>8. ASSUME NEW r \in Requests, RequireOwner(r) PROVE excused'
  BY <1>8 DEF RequireOwner, Goto, Finish
<1>9. ASSUME NEW r \in Requests, NEW a \in Accounts, CreateAccount(r, a) PROVE excused'
  BY <1>9 DEF CreateAccount, Fresh, Goto, Finish
<1>10. ASSUME NEW r \in Requests, NEW R \in SUBSET Roles,
             CreateAccountRoles(r, R) \/ \E a \in Accounts : SetRoles(r, a, R)
       PROVE  excused'
  BY <1>10 DEF CreateAccountRoles, SetRoles, SetAccountRoles, Live, Finish, SetAccountRoles
<1>11. ASSUME NEW r \in Requests, NEW a \in Accounts, Disable(r, a) PROVE excused'
  BY <1>11 DEF Disable, Goto
<1>12. ASSUME NEW r \in Requests, NEW a \in Accounts, Enable(r, a) PROVE excused'
  BY <1>12 DEF Enable, Finish
<1>13. ASSUME NEW r \in Requests, NEW a \in Accounts, RegeneratePassword(r, a) PROVE excused'
  BY <1>13 DEF RegeneratePassword, SessionsOf, Goto
<1>14. ASSUME NEW r \in Requests, Sweep(r) PROVE excused'
  BY <1>14 DEF Sweep, Forget, Finish
<1>15. ASSUME NEW r \in Requests, NEW a \in Accounts, DeleteCheck(r, a) PROVE excused'
  BY <1>15 DEF DeleteCheck, Goto
<1>16. ASSUME NEW r \in Requests, DeleteAccount(r) PROVE excused'
  BY <1>16 DEF DeleteAccount, Orphaned, SessionsOf, Forget, Finish
<1>17. ASSUME NEW r \in Requests, NEW x \in Roles, CreateRole(r, x) \/ DeleteRole(r, x)
       PROVE  excused'
  BY <1>17 DEF CreateRole, DeleteRole, MayDeleteRole, Finish
<1>18. ASSUME NEW r \in Requests, NEW x \in Roles, NEW B \in SUBSET Buckets, PutPermissions(r, x, B)
       PROVE  excused'
  BY <1>18 DEF PutPermissions, Live, Finish
<1>19. ASSUME NEW r \in Requests, NEW b \in Buckets, CreateBucket(r, b) PROVE excused'
  BY <1>19 DEF CreateBucket
<1>20. ASSUME NEW r \in Requests, GrantOwner(r) PROVE excused'
  BY <1>20 DEF GrantOwner, Finish
<1>21. ASSUME NEW r \in Requests, NEW b \in Buckets, OwnsBucket(r, b) PROVE excused'
  BY <1>21 DEF OwnsBucket
<1>22. ASSUME NEW r \in Requests, NEW a \in Accounts, NewOwnerEnabled(r, a) PROVE excused'
  BY <1>22 DEF NewOwnerEnabled, Goto
<1>23. ASSUME NEW r \in Requests, SetBucketOwner(r) PROVE excused'
  BY <1>23 DEF SetBucketOwner, Finish
<1>24. ASSUME NEW r \in Requests, CutOff(r) PROVE excused'
  BY <1>24 DEF CutOff, SessionsOf, Finish
<1>25. ASSUME NEW t \in Tokens, Close(t) PROVE excused'
  BY <1>25 DEF Close, Forget
<1>26. ASSUME NEW b \in Buckets, EnsureBucket(b) \/ DeleteBucket(b) PROVE excused'
  BY <1>26 DEF EnsureBucket, DeleteBucket
<1>27. ASSUME UNCHANGED vars PROVE excused'
  BY <1>27 DEF vars
<1> QED BY <1>1, <1>2, <1>3, <1>4, <1>5, <1>6, <1>7, <1>8, <1>9, <1>10, <1>11, <1>12, <1>13, <1>14,
          <1>15, <1>16, <1>17, <1>18, <1>19, <1>20, <1>21, <1>22, <1>23, <1>24, <1>25, <1>26, <1>27
       DEF Next, Sessions, Bootstrap, Administer, PatchBucket

\* Whoever is in charge stays so, or hands over, or there is an excuse.
LEMMA ChargeKept ==
  ASSUME BInv, [Next]_vars, NEW c \in InCharge, c \notin InCharge'
  PROVE  excused' \/ InCharge' # {}
<1> DEFINE Goal == excused' \/ InCharge' # {}
<1> USE AccountsAssumption DEF BInv, TypeOK, LocalsOK, InCharge, IsOwner, At, tables, control, history
<1>1. ASSUME NEW r \in Requests, NEW t \in Tokens, NEW o \in Ops, Admit(r, t, o) PROVE Goal
  BY <1>1 DEF Admit, Begin
<1>2. ASSUME NEW r \in Requests, NEW t \in Tokens, OpenSession(r, t) PROVE Goal
  BY <1>2 DEF OpenSession, Finish
<1>3. ASSUME NEW r \in Requests, NEW a \in Accounts, Login(r, a) PROVE Goal
  BY <1>3 DEF Login
<1>4. ASSUME NEW r \in Requests, BootCheck(r) PROVE Goal
  BY <1>4 DEF BootCheck, Begin
<1>5. ASSUME NEW r \in Requests, NEW a \in Accounts, BootCreate(r, a) PROVE Goal
  BY <1>5 DEF BootCreate, Fresh
<1>6. ASSUME NEW r \in Requests, BootAssign(r) PROVE Goal
  BY <1>6 DEF BootAssign, Goto
<1>7. ASSUME NEW r \in Requests, BootClaim(r) PROVE Goal
  BY <1>7 DEF BootClaim, Goto
<1>8. ASSUME NEW r \in Requests, RequireOwner(r) PROVE Goal
  BY <1>8 DEF RequireOwner, Goto, Finish
<1>9. ASSUME NEW r \in Requests, NEW a \in Accounts, CreateAccount(r, a) PROVE Goal
  BY <1>9 DEF CreateAccount, Fresh, Goto, Finish
<1>10. ASSUME NEW r \in Requests, NEW R \in SUBSET Roles,
             CreateAccountRoles(r, R) \/ \E a \in Accounts : SetRoles(r, a, R)
       PROVE  Goal
  <2>1. PICK a \in Accounts : SetAccountRoles(a, R) /\ account' = account
    BY <1>10 DEF CreateAccountRoles, SetRoles
  <2>2. <<c, OwnerRole>> \in holds /\ <<c, OwnerRole>> \notin holds'
    BY <2>1
  <2>3. a = c /\ OwnerRole \notin R
    BY <2>1, <2>2 DEF SetAccountRoles
  <2> QED BY <2>1, <2>2, <2>3 DEF SetAccountRoles
<1>11. ASSUME NEW r \in Requests, NEW a \in Accounts, Disable(r, a) PROVE Goal
  BY <1>11 DEF Disable, MayDisable, Goto
<1>12. ASSUME NEW r \in Requests, NEW a \in Accounts, Enable(r, a) PROVE Goal
  BY <1>12 DEF Enable, Finish
<1>13. ASSUME NEW r \in Requests, NEW a \in Accounts, RegeneratePassword(r, a) PROVE Goal
  BY <1>13 DEF RegeneratePassword, SessionsOf, Goto
<1>14. ASSUME NEW r \in Requests, Sweep(r) PROVE Goal
  BY <1>14 DEF Sweep, Forget, Finish
<1>15. ASSUME NEW r \in Requests, NEW a \in Accounts, DeleteCheck(r, a) PROVE Goal
  BY <1>15 DEF DeleteCheck, Goto
<1>16. ASSUME NEW r \in Requests, DeleteAccount(r) PROVE Goal
  BY <1>16 DEF DeleteAccount, Orphaned, SessionsOf, Forget, Finish
<1>17. ASSUME NEW r \in Requests, NEW x \in Roles, CreateRole(r, x) \/ DeleteRole(r, x) PROVE Goal
  BY <1>17 DEF CreateRole, DeleteRole, MayDeleteRole, Finish
<1>18. ASSUME NEW r \in Requests, NEW x \in Roles, NEW B \in SUBSET Buckets, PutPermissions(r, x, B)
       PROVE  Goal
  BY <1>18 DEF PutPermissions, Live, Finish
<1>19. ASSUME NEW r \in Requests, NEW b \in Buckets, CreateBucket(r, b) PROVE Goal
  BY <1>19 DEF CreateBucket
<1>20. ASSUME NEW r \in Requests, GrantOwner(r) PROVE Goal
  BY <1>20 DEF GrantOwner, Finish
<1>21. ASSUME NEW r \in Requests, NEW b \in Buckets, OwnsBucket(r, b) PROVE Goal
  BY <1>21 DEF OwnsBucket
<1>22. ASSUME NEW r \in Requests, NEW a \in Accounts, NewOwnerEnabled(r, a) PROVE Goal
  BY <1>22 DEF NewOwnerEnabled, Goto
<1>23. ASSUME NEW r \in Requests, SetBucketOwner(r) PROVE Goal
  BY <1>23 DEF SetBucketOwner, Finish
<1>24. ASSUME NEW r \in Requests, CutOff(r) PROVE Goal
  BY <1>24 DEF CutOff, SessionsOf, Finish
<1>25. ASSUME NEW t \in Tokens, Close(t) PROVE Goal
  BY <1>25 DEF Close, Forget
<1>26. ASSUME NEW b \in Buckets, EnsureBucket(b) \/ DeleteBucket(b) PROVE Goal
  BY <1>26 DEF EnsureBucket, DeleteBucket
<1>27. ASSUME UNCHANGED vars PROVE Goal
  BY <1>27 DEF vars
<1> QED BY <1>1, <1>2, <1>3, <1>4, <1>5, <1>6, <1>7, <1>8, <1>9, <1>10, <1>11, <1>12, <1>13, <1>14,
          <1>15, <1>16, <1>17, <1>18, <1>19, <1>20, <1>21, <1>22, <1>23, <1>24, <1>25, <1>26, <1>27
       DEF Next, Sessions, Bootstrap, Administer, PatchBucket

\* Owners do not disable themselves, and the Owner role is not deleted.
LEMMA SettledKept == BInv /\ Settled /\ [Next]_vars => Settled'
<1> SUFFICES ASSUME BInv, Settled, [Next]_vars PROVE Settled'
  OBVIOUS
<1>1. CASE excused
  BY <1>1, ExcusedKept DEF Settled
<1>2. CASE ~ excused
  <2> PICK c \in InCharge : TRUE
    BY <1>2 DEF Settled
  <2>1. CASE c \in InCharge'
    BY <2>1 DEF Settled
  <2>2. CASE c \notin InCharge'
    BY <2>2, ChargeKept DEF Settled
  <2> QED BY <2>1, <2>2
<1> QED BY <1>1, <1>2

\* Accounts and owners stay, and whoever goes on does so before a bootstrap has
\* made its account or without administering anything.
LEMMA LockSame ==
  ASSUME LockOK, ~ Settled, UNCHANGED <<account, creator, holds>>,
         \A q \in Requests :
            \/ op'[q] = op[q] /\ pc'[q] = pc[q]
            \/ /\ ~ At(q, "bootstrap", "assign")
               /\ ~ (op'[q] = "admin" /\ pc'[q] # "check") /\ ~ At(q, "deleteAccount", "write")'
  PROVE  LockOK'
BY DEF LockOK, IsOwner, Exists, At

\* A bootstrap that assigns its role puts somebody in charge.
LEMMA LockStep == BInv /\ LockOK /\ [Next]_vars => LockOK'
<1> SUFFICES ASSUME BInv, LockOK, [Next]_vars, ~ Settled, ~ Settled' PROVE LockOK'
  BY SettledKept DEF LockOK
<1> USE AccountsAssumption DEF BInv, TypeOK, LocalsOK, LockOK, Settled, InCharge, IsOwner, Exists, At,
        tables, control, history
<1>1. ASSUME NEW r \in Requests, NEW t \in Tokens, NEW o \in Ops, Admit(r, t, o) PROVE LockOK'
  <2>1. UNCHANGED <<account, creator, holds>>
    BY <1>1 DEF Admit, Begin
  <2>2. \A q \in Requests \ {r} : op'[q] = op[q] /\ pc'[q] = pc[q]
    BY <1>1 DEF Admit, Begin
  <2>3. ~ At(r, "bootstrap", "assign") /\ ~ (op'[r] = "admin" /\ pc'[r] # "check") /\ pc'[r] # "write"
    BY <1>1 DEF Admit, Begin
  <2> QED BY <2>1, <2>2, <2>3, LockSame
<1>2. ASSUME NEW r \in Requests, NEW t \in Tokens, OpenSession(r, t) PROVE LockOK'
  <2>1. UNCHANGED <<account, creator, holds>>
    BY <1>2 DEF OpenSession, Finish
  <2>2. \A q \in Requests \ {r} : op'[q] = op[q] /\ pc'[q] = pc[q]
    BY <1>2 DEF OpenSession, Finish
  <2>3. ~ At(r, "bootstrap", "assign") /\ ~ (op'[r] = "admin" /\ pc'[r] # "check") /\ pc'[r] # "write"
    BY <1>2 DEF OpenSession, Finish
  <2> QED BY <2>1, <2>2, <2>3, LockSame
<1>3. ASSUME NEW r \in Requests, NEW a \in Accounts, Login(r, a) PROVE LockOK'
  BY <1>3 DEF Login
<1>4. ASSUME NEW r \in Requests, BootCheck(r) PROVE LockOK'
  BY <1>4 DEF BootCheck, Begin
<1>5. ASSUME NEW r \in Requests, NEW a \in Accounts, BootCreate(r, a) PROVE LockOK'
  BY <1>5 DEF BootCreate, Fresh
<1>6. ASSUME NEW r \in Requests, BootAssign(r) PROVE LockOK'
  BY <1>6 DEF BootAssign, Goto
<1>7. ASSUME NEW r \in Requests, BootClaim(r) PROVE LockOK'
  <2>1. UNCHANGED <<account, creator, holds>>
    BY <1>7 DEF BootClaim, Goto
  <2>2. \A q \in Requests \ {r} : op'[q] = op[q] /\ pc'[q] = pc[q]
    BY <1>7 DEF BootClaim, Goto
  <2>3. ~ At(r, "bootstrap", "assign") /\ ~ (op'[r] = "admin" /\ pc'[r] # "check") /\ pc'[r] # "write"
    BY <1>7 DEF BootClaim, Goto
  <2> QED BY <2>1, <2>2, <2>3, LockSame
<1>8. ASSUME NEW r \in Requests, RequireOwner(r) PROVE LockOK'
  <2>1. actor[r] \in Accounts /\ op[r] = "admin"
    BY <1>8 DEF RequireOwner
  <2>2. ~ IsOwner(actor[r])
    BY <2>1
  <2>3. Finish(r) /\ UNCHANGED <<tables, session, history>>
    BY <1>8, <2>2 DEF RequireOwner
  <2> QED BY <2>1, <2>3 DEF Finish
<1>9. ASSUME NEW r \in Requests, NEW a \in Accounts, CreateAccount(r, a) PROVE LockOK'
  BY <1>9 DEF CreateAccount, Fresh, Goto, Finish
<1>10. ASSUME NEW r \in Requests, NEW R \in SUBSET Roles,
             CreateAccountRoles(r, R) \/ \E a \in Accounts : SetRoles(r, a, R)
       PROVE  LockOK'
  BY <1>10 DEF CreateAccountRoles, SetRoles, SetAccountRoles, Live, Finish
<1>11. ASSUME NEW r \in Requests, NEW a \in Accounts, Disable(r, a) PROVE LockOK'
  BY <1>11 DEF Disable, Goto
<1>12. ASSUME NEW r \in Requests, NEW a \in Accounts, Enable(r, a) PROVE LockOK'
  BY <1>12 DEF Enable, Finish
<1>13. ASSUME NEW r \in Requests, NEW a \in Accounts, RegeneratePassword(r, a) PROVE LockOK'
  BY <1>13 DEF RegeneratePassword, SessionsOf, Goto
<1>14. ASSUME NEW r \in Requests, Sweep(r) PROVE LockOK'
  BY <1>14 DEF Sweep, Forget, Finish
<1>15. ASSUME NEW r \in Requests, NEW a \in Accounts, DeleteCheck(r, a) PROVE LockOK'
  <2>1. creator[a] = actor[r] /\ actor[r] \in Accounts
    BY <1>15 DEF DeleteCheck, MayDelete
  <2>2. creator[a] = Nobody
    OBVIOUS
  <2> QED BY <2>1, <2>2
<1>16. ASSUME NEW r \in Requests, DeleteAccount(r) PROVE LockOK'
  BY <1>16 DEF DeleteAccount, Orphaned, SessionsOf, Forget, Finish
<1>17. ASSUME NEW r \in Requests, NEW x \in Roles, CreateRole(r, x) \/ DeleteRole(r, x)
       PROVE  LockOK'
  BY <1>17 DEF CreateRole, DeleteRole, MayDeleteRole, Finish
<1>18. ASSUME NEW r \in Requests, NEW x \in Roles, NEW B \in SUBSET Buckets, PutPermissions(r, x, B)
       PROVE  LockOK'
  BY <1>18 DEF PutPermissions, Live, Finish
<1>19. ASSUME NEW r \in Requests, NEW b \in Buckets, CreateBucket(r, b) PROVE LockOK'
  BY <1>19 DEF CreateBucket
<1>20. ASSUME NEW r \in Requests, GrantOwner(r) PROVE LockOK'
  BY <1>20 DEF GrantOwner, Finish
<1>21. ASSUME NEW r \in Requests, NEW b \in Buckets, OwnsBucket(r, b) PROVE LockOK'
  BY <1>21 DEF OwnsBucket
<1>22. ASSUME NEW r \in Requests, NEW a \in Accounts, NewOwnerEnabled(r, a) PROVE LockOK'
  BY <1>22 DEF NewOwnerEnabled, Goto
<1>23. ASSUME NEW r \in Requests, SetBucketOwner(r) PROVE LockOK'
  BY <1>23 DEF SetBucketOwner, Finish
<1>24. ASSUME NEW r \in Requests, CutOff(r) PROVE LockOK'
  BY <1>24 DEF CutOff, SessionsOf, Finish
<1>25. ASSUME NEW t \in Tokens, Close(t) PROVE LockOK'
  BY <1>25 DEF Close, Forget
<1>26. ASSUME NEW b \in Buckets, EnsureBucket(b) \/ DeleteBucket(b) PROVE LockOK'
  <2>1. UNCHANGED <<account, creator, holds>>
    BY <1>26 DEF EnsureBucket, DeleteBucket
  <2>2. UNCHANGED <<op, pc>>
    BY <1>26 DEF EnsureBucket, DeleteBucket
  <2> QED BY <2>1, <2>2, LockSame
<1>27. ASSUME UNCHANGED vars PROVE LockOK'
  BY <1>27 DEF vars
<1> QED BY <1>1, <1>2, <1>3, <1>4, <1>5, <1>6, <1>7, <1>8, <1>9, <1>10, <1>11, <1>12, <1>13, <1>14,
          <1>15, <1>16, <1>17, <1>18, <1>19, <1>20, <1>21, <1>22, <1>23, <1>24, <1>25, <1>26, <1>27
       DEF Next, Sessions, Bootstrap, Administer, PatchBucket

\* Histories of sessions are about sessions that there are.
OutdatedOK == \A t \in Tokens : t \in outdated => session[t] # Nobody

\* The sessions that a disable or a new password should have ended.
LEMMA SessionStep ==
  BInv /\ OutdatedOK /\ OldSessionsExplained /\ [Next]_vars => (OutdatedOK /\ OldSessionsExplained)'
<1> SUFFICES ASSUME BInv, OutdatedOK, OldSessionsExplained, [Next]_vars
             PROVE  (OutdatedOK /\ OldSessionsExplained)'
  OBVIOUS
<1> DEFINE Goal == OutdatedOK' /\ OldSessionsExplained'
<1> USE AccountsAssumption DEF BInv, TypeOK, LocalsOK, OutdatedOK, OldSessionsExplained, SessionsOf,
        Swept, At, tables, control, history
<1>1. ASSUME NEW r \in Requests, NEW t \in Tokens, NEW o \in Ops, Admit(r, t, o) PROVE Goal
  BY <1>1 DEF Admit, Begin
<1>2. ASSUME NEW r \in Requests, NEW t \in Tokens, OpenSession(r, t) PROVE Goal
  BY <1>2 DEF OpenSession, Finish
<1>3. ASSUME NEW r \in Requests, NEW a \in Accounts, Login(r, a) PROVE Goal
  BY <1>3 DEF Login
<1>4. ASSUME NEW r \in Requests, BootCheck(r) PROVE Goal
  BY <1>4 DEF BootCheck, Begin
<1>5. ASSUME NEW r \in Requests, NEW a \in Accounts, BootCreate(r, a) PROVE Goal
  BY <1>5 DEF BootCreate, Fresh
<1>6. ASSUME NEW r \in Requests, BootAssign(r) PROVE Goal
  BY <1>6 DEF BootAssign, Goto
<1>7. ASSUME NEW r \in Requests, BootClaim(r) PROVE Goal
  BY <1>7 DEF BootClaim, Goto
<1>8. ASSUME NEW r \in Requests, RequireOwner(r) PROVE Goal
  BY <1>8 DEF RequireOwner, Goto, Finish
<1>9. ASSUME NEW r \in Requests, NEW a \in Accounts, CreateAccount(r, a) PROVE Goal
  BY <1>9 DEF CreateAccount, Fresh, Goto, Finish
<1>10. ASSUME NEW r \in Requests, NEW R \in SUBSET Roles,
             CreateAccountRoles(r, R) \/ \E a \in Accounts : SetRoles(r, a, R)
       PROVE  Goal
  BY <1>10 DEF CreateAccountRoles, SetRoles, SetAccountRoles, Live, Finish
<1>11. ASSUME NEW r \in Requests, NEW a \in Accounts, Disable(r, a) PROVE Goal
  BY <1>11 DEF Disable, Goto
<1>12. ASSUME NEW r \in Requests, NEW a \in Accounts, Enable(r, a) PROVE Goal
  BY <1>12 DEF Enable, Finish
<1>13. ASSUME NEW r \in Requests, NEW a \in Accounts, RegeneratePassword(r, a) PROVE Goal
  BY <1>13 DEF RegeneratePassword, SessionsOf, Goto
<1>14. ASSUME NEW r \in Requests, Sweep(r) PROVE Goal
  BY <1>14 DEF Sweep, Forget, Finish
<1>15. ASSUME NEW r \in Requests, NEW a \in Accounts, DeleteCheck(r, a) PROVE Goal
  BY <1>15 DEF DeleteCheck, Goto
<1>16. ASSUME NEW r \in Requests, DeleteAccount(r) PROVE Goal
  BY <1>16 DEF DeleteAccount, Orphaned, SessionsOf, Forget, Finish
<1>17. ASSUME NEW r \in Requests, NEW x \in Roles, CreateRole(r, x) \/ DeleteRole(r, x) PROVE Goal
  BY <1>17 DEF CreateRole, DeleteRole, MayDeleteRole, Finish
<1>18. ASSUME NEW r \in Requests, NEW x \in Roles, NEW B \in SUBSET Buckets, PutPermissions(r, x, B)
       PROVE  Goal
  BY <1>18 DEF PutPermissions, Live, Finish
<1>19. ASSUME NEW r \in Requests, NEW b \in Buckets, CreateBucket(r, b) PROVE Goal
  BY <1>19 DEF CreateBucket
<1>20. ASSUME NEW r \in Requests, GrantOwner(r) PROVE Goal
  BY <1>20 DEF GrantOwner, Finish
<1>21. ASSUME NEW r \in Requests, NEW b \in Buckets, OwnsBucket(r, b) PROVE Goal
  BY <1>21 DEF OwnsBucket
<1>22. ASSUME NEW r \in Requests, NEW a \in Accounts, NewOwnerEnabled(r, a) PROVE Goal
  BY <1>22 DEF NewOwnerEnabled, Goto
<1>23. ASSUME NEW r \in Requests, SetBucketOwner(r) PROVE Goal
  BY <1>23 DEF SetBucketOwner, Finish
<1>24. ASSUME NEW r \in Requests, CutOff(r) PROVE Goal
  BY <1>24 DEF CutOff, SessionsOf, Finish
<1>25. ASSUME NEW t \in Tokens, Close(t) PROVE Goal
  BY <1>25 DEF Close, Forget
<1>26. ASSUME NEW b \in Buckets, EnsureBucket(b) \/ DeleteBucket(b) PROVE Goal
  BY <1>26 DEF EnsureBucket, DeleteBucket
<1>27. ASSUME UNCHANGED vars PROVE Goal
  BY <1>27 DEF vars
<1> QED BY <1>1, <1>2, <1>3, <1>4, <1>5, <1>6, <1>7, <1>8, <1>9, <1>10, <1>11, <1>12, <1>13, <1>14,
          <1>15, <1>16, <1>17, <1>18, <1>19, <1>20, <1>21, <1>22, <1>23, <1>24, <1>25, <1>26, <1>27
       DEF Next, Sessions, Bootstrap, Administer, PatchBucket

\* The inductive invariant.
AInv == BInv /\ RootOK /\ LockOK /\ OutdatedOK /\ OldSessionsExplained

\* The invariant holds in every behaviour.
LEMMA Invariance == Spec => []AInv
<1>1. Init => RootOK /\ LockOK /\ OutdatedOK /\ OldSessionsExplained
  BY AccountsAssumption DEF Init, RootOK, LockOK, OutdatedOK, OldSessionsExplained, Exists, IsOwner, At
<1>2. AInv /\ [Next]_vars => AInv'
  BY BaseStep, RootStep, LockStep, SessionStep DEF AInv
<1> QED BY <1>1, <1>2, InitBase, PTL DEF Spec, AInv

\* No row names a row that is gone, whatever is deleted between a handler's
\* checks and its writes.
THEOREM NoDangling == Spec => []References
  BY Invariance, PTL DEF AInv, BInv

\* A server with an account always has one: nobody can bootstrap it again.
THEOREM BootstrapOnce == Spec => NeverRebootstrapped
<1>1. AInv /\ [Next]_vars => [(\E a \in Accounts : Exists(a)) => (\E a \in Accounts : Exists(a))']_vars
  <2> SUFFICES ASSUME AInv, [Next]_vars, \E a \in Accounts : Exists(a)
               PROVE  (\E a \in Accounts : Exists(a))'
    OBVIOUS
  <2> PICK a \in Accounts : Root(a)
    BY DEF AInv, RootOK
  <2> QED BY RootKept DEF AInv, Root
<1> QED BY <1>1, Invariance, PTL DEF Spec, NeverRebootstrapped

\* Every way to a server that nobody can administer.
THEOREM Lockouts == Spec => []LockoutExplained
<1>1. AInv => LockoutExplained
  BY DEF AInv, LockOK, Settled, LockoutExplained
<1> QED BY <1>1, Invariance, PTL

\* Every way to a session that should have ended.
THEOREM OldSessions == Spec => []OldSessionsExplained
  BY Invariance, PTL DEF AInv
=============================================================================
