------------------------- MODULE UserAccountProofs --------------------------
(* That nothing belongs to a user without an account, and that only its      *)
(* owner changes what a user is shown, for every value of the constants.     *)
EXTENDS UserAccount, TLAPS

\* A person has at most one user, and a user id is never given twice.
AccountsOK ==
  /\ created \in Nat /\ users \subseteq 1..created
  /\ account = [u \in DOMAIN account |-> account[u]]
  /\ DOMAIN account \subseteq users
  /\ \A u, v \in DOMAIN account : account[u] = account[v] => u = v

\* A user, while it is there, has the account that the claims name.
Owns(u, k) ==
  /\ u \in 1..created
  /\ u \in users => u \in DOMAIN account /\ account[u] = k

\* Claims outlive the user they were issued for, and a session does not.
ClaimsOK ==
  /\ sessions \subseteq issued
  /\ \A c \in issued : Owns(c.user, c.person)
  /\ \A c \in sessions : c.user \in users

\* What a request has found out before its last await.
RequestOK(r) ==
  /\ r.pc = "link" => r.user \in users \ DOMAIN account
  /\ r.pc = "register" => Owns(r.user, r.person)
  /\ r.pc = "body" => r.claims \in issued

\* No two logins are about to link the same new user.
RequestsOK ==
  /\ proc = [p \in Process |-> proc[p]]
  /\ \A p \in Process : RequestOK(proc[p])
  /\ \A p, q \in {x \in Process : proc[x].pc = "link"} :
       proc[p].user = proc[q].user => p = q

RowsOK == \A row \in favorites \cup history : row.user \in DOMAIN account

AccountInv == AccountsOK /\ ClaimsOK /\ RequestsOK /\ RowsOK

-----------------------------------------------------------------------------
LEMMA InitAccount ==
  ASSUME Init
  PROVE  AccountInv
<1>1. AccountsOK
  BY DEF Init, AccountsOK
<1>2. ClaimsOK /\ RowsOK
  BY DEF Init, ClaimsOK, RowsOK
<1>3. RequestsOK
  BY DEF Init, RequestsOK, RequestOK, Idle
<1> QED  BY <1>1, <1>2, <1>3 DEF AccountInv

LEMMA ProcUpdate ==
  ASSUME AccountInv, NEW p \in Process, NEW v, Goes(p, v)
  PROVE  /\ proc' = [q \in Process |-> proc'[q]]
         /\ proc'[p] = v /\ \A q \in Process \ {p} : proc'[q] = proc[q]
<1>1. DOMAIN proc = Process
  BY DEF AccountInv, RequestsOK
<1>2. proc' = [q \in Process |-> proc'[q]]
  BY <1>1 DEF Goes
<1>3. proc'[p] = v /\ \A q \in Process \ {p} : proc'[q] = proc[q]
  BY <1>1 DEF Goes
<1> QED  BY <1>2, <1>3

\* What claims say of a user stays true while users only lose their account
\* together with their row.
LEMMA OwnsStays ==
  ASSUME NEW u, NEW k, Owns(u, k), created <= created', created \in Nat,
         created' \in Nat, users' \subseteq users,
         \A w \in users' \cap DOMAIN account :
           w \in DOMAIN account' /\ account'[w] = account[w]
  PROVE  Owns(u, k)'
BY DEF Owns

\* A request goes on, and nothing is given to or taken from a user.
LEMMA RequestGoes ==
  ASSUME AccountInv, NEW p \in Process, NEW v, Goes(p, v),
         proc'[p].pc # "link", RequestOK(proc[p])',
         UNCHANGED <<created, users, account>>, issued \subseteq issued'
  PROVE  RequestsOK'
<1>1. \A q \in Process \ {p} : RequestOK(proc[q])'
  <2> SUFFICES ASSUME NEW q \in Process \ {p} PROVE RequestOK(proc[q])'
    OBVIOUS
  <2>1. RequestOK(proc[q]) /\ proc'[q] = proc[q]
    BY ProcUpdate DEF AccountInv, RequestsOK
  <2> QED  BY <2>1 DEF RequestOK, Owns
<1>2. \A q \in Process : RequestOK(proc[q])'
  BY <1>1
<1>3. \A q, r \in {x \in Process : proc'[x].pc = "link"} :
        proc'[q].user = proc'[r].user => q = r
  BY ProcUpdate DEF AccountInv, RequestsOK
<1> QED  BY <1>2, <1>3, ProcUpdate DEF RequestsOK

\* Sessions end or nothing happens to users at all.
LEMMA UsersStay ==
  ASSUME AccountInv, UNCHANGED <<created, users, account, issued>>,
         sessions' \subseteq sessions,
         UNCHANGED <<favorites, history>>
  PROVE  AccountsOK' /\ ClaimsOK' /\ RowsOK'
<1>1. AccountsOK' /\ RowsOK'
  BY DEF AccountInv, AccountsOK, RowsOK
<1>2. ClaimsOK'
  BY DEF AccountInv, ClaimsOK, Owns
<1> QED  BY <1>1, <1>2

LEMMA CallbackStep ==
  ASSUME AccountInv, NEW p \in Process, NEW k \in Person, Callback(p, k)
  PROVE  AccountInv'
<1> USE DEF login, data
<1>1. AccountsOK' /\ ClaimsOK' /\ RowsOK'
  BY UsersStay DEF Callback
<1>2. CASE Goes(p, [pc |-> "create", person |-> k])
  <2>1. proc'[p] = [pc |-> "create", person |-> k]
    BY <1>2, ProcUpdate
  <2>2. proc'[p].pc = "create"
    BY <2>1
  <2>3. RequestsOK'
    BY <1>2, <2>2, RequestGoes DEF Callback, RequestOK
  <2> QED  BY <1>1, <2>3 DEF AccountInv
<1>3. ASSUME NEW u \in getUserByAccount(k),
             Goes(p, [pc |-> "register", person |-> k, user |-> u])
      PROVE  AccountInv'
  <2>1. proc'[p] = [pc |-> "register", person |-> k, user |-> u]
    BY <1>3, ProcUpdate
  <2>2. /\ proc'[p].pc = "register" /\ proc'[p].user = u
        /\ proc'[p].person = k
    BY <2>1
  <2>3. Owns(u, k)'
    BY DEF Callback, getUserByAccount, Owns, AccountInv, AccountsOK
  <2>4. RequestsOK'
    BY <1>3, <2>2, <2>3, RequestGoes DEF Callback, RequestOK
  <2> QED  BY <1>1, <2>4 DEF AccountInv
<1> QED  BY <1>2, <1>3 DEF Callback

LEMMA CreateStep ==
  ASSUME AccountInv, NEW p \in Process, createUser(p)
  PROVE  AccountInv'
<1> USE DEF data
<1> DEFINE v == [pc |-> "link", person |-> proc[p].person, user |-> created']
<1>1. /\ created \in Nat /\ created' = created + 1
      /\ users \subseteq 1..created /\ users' = users \cup {created'}
      /\ UNCHANGED <<account, issued, sessions, favorites, history>>
      /\ Goes(p, v)
  BY DEF createUser, AccountInv, AccountsOK
<1>2. created' \notin 1..created /\ created' \in 1..created'
      /\ 1..created \subseteq 1..created'
  BY <1>1
<1>3. AccountsOK'
  BY <1>1, <1>2 DEF AccountInv, AccountsOK
<1>4. \A u, k : Owns(u, k) => Owns(u, k)'
  BY <1>1, <1>2 DEF Owns
<1>5. ClaimsOK' /\ RowsOK'
  BY <1>1, <1>4 DEF AccountInv, ClaimsOK, RowsOK
<1>6. proc'[p] = v /\ proc'[p].pc = "link" /\ proc'[p].user = created'
  BY <1>1, ProcUpdate
<1>7. RequestOK(proc[p])'
  BY <1>1, <1>2, <1>6 DEF RequestOK, AccountInv, AccountsOK
<1>8. ASSUME NEW q \in Process \ {p}
      PROVE  /\ RequestOK(proc[q])' /\ proc'[q] = proc[q]
             /\ proc[q].pc = "link" => proc[q].user # created'
  <2>1. RequestOK(proc[q]) /\ proc'[q] = proc[q]
    BY <1>1, ProcUpdate DEF AccountInv, RequestsOK
  <2> QED  BY <1>1, <1>2, <1>4, <2>1 DEF RequestOK
<1>9. \A q, r \in {x \in Process : proc'[x].pc = "link"} :
        proc'[q].user = proc'[r].user => q = r
  BY <1>6, <1>8 DEF AccountInv, RequestsOK
<1>10. RequestsOK'
  BY <1>1, <1>7, <1>8, <1>9, ProcUpdate DEF RequestsOK
<1> QED  BY <1>3, <1>5, <1>10 DEF AccountInv

LEMMA LinkStep ==
  ASSUME AccountInv, NEW p \in Process, linkAccount(p)
  PROVE  AccountInv'
<1> USE DEF data
<1> DEFINE k == proc[p].person
           u == proc[p].user
           v == [pc |-> "register", person |-> k, user |-> u]
<1>1. /\ proc[p].pc = "link" /\ u \in users \ DOMAIN account
      /\ UNCHANGED <<created, users, issued, sessions, favorites, history>>
  BY DEF linkAccount, AccountInv, RequestsOK, RequestOK
<1>2. CASE ~NewIdentity(k)
  <2>1. UNCHANGED account /\ Goes(p, Idle)
    BY <1>2 DEF linkAccount
  <2>2. proc'[p].pc = "idle"
    BY <2>1, ProcUpdate DEF Idle
  <2>3. RequestsOK'
    BY <1>1, <2>1, <2>2, RequestGoes DEF RequestOK
  <2> QED  BY <1>1, <2>1, <2>3, UsersStay DEF AccountInv
<1>3. CASE NewIdentity(k)
  <2>1. /\ account' = [x \in DOMAIN account \cup {u} |->
                         IF x = u THEN k ELSE account[x]]
        /\ Goes(p, v)
    BY <1>3 DEF linkAccount
  <2>2. \A x \in DOMAIN account : account[x] # k
    BY <1>3 DEF NewIdentity, getUserByAccount
  <2>3. /\ DOMAIN account' = DOMAIN account \cup {u} /\ account'[u] = k
        /\ \A x \in DOMAIN account : account'[x] = account[x]
    BY <1>1, <2>1
  <2>4. account' = [x \in DOMAIN account' |-> account'[x]]
    BY <2>1
  <2>5. AccountsOK'
    BY <1>1, <2>2, <2>3, <2>4 DEF AccountInv, AccountsOK
  <2>6. RowsOK'
    BY <1>1, <2>3 DEF AccountInv, RowsOK
  <2>7. ASSUME NEW x, NEW j, Owns(x, j) PROVE Owns(x, j)'
    BY <1>1, <2>3, <2>7 DEF Owns
  <2>8. ClaimsOK'
    BY <1>1, <2>7 DEF AccountInv, ClaimsOK
  <2>9. /\ proc'[p] = v /\ proc'[p].pc = "register"
        /\ proc'[p].user = u /\ proc'[p].person = k
    BY <2>1, ProcUpdate
  <2>10. RequestOK(proc[p])'
    BY <1>1, <2>3, <2>9 DEF RequestOK, Owns, AccountInv, AccountsOK
  <2>11. ASSUME NEW q \in Process \ {p}
         PROVE  RequestOK(proc[q])' /\ proc'[q] = proc[q]
    <3>1. RequestOK(proc[q]) /\ proc'[q] = proc[q]
      BY <2>1, ProcUpdate DEF AccountInv, RequestsOK
    <3>2. proc[q].pc = "link" => proc[q].user # u
      BY <1>1 DEF AccountInv, RequestsOK
    <3> QED  BY <1>1, <2>3, <2>7, <3>1, <3>2 DEF RequestOK
  <2>12. RequestsOK'
    BY <2>1, <2>9, <2>10, <2>11, ProcUpdate DEF AccountInv, RequestsOK
  <2> QED  BY <2>5, <2>6, <2>8, <2>12 DEF AccountInv
<1> QED  BY <1>2, <1>3

LEMMA RegisterStep ==
  ASSUME AccountInv, NEW p \in Process, register(p)
  PROVE  AccountInv'
<1> USE DEF data
<1> DEFINE c == [id |-> Cardinality(issued) + 1, user |-> proc[p].user,
                 person |-> proc[p].person, at |-> clock]
<1>1. /\ proc[p].pc = "register"
      /\ UNCHANGED <<created, users, account, favorites, history>>
      /\ Goes(p, Idle)
  BY DEF register
<1>2. c.user = proc[p].user /\ c.person = proc[p].person
  OBVIOUS
<1>3. \/ /\ c.user \in users
         /\ issued' = issued \cup {c} /\ sessions' = sessions \cup {c}
      \/ UNCHANGED <<issued, sessions>>
  BY DEF register
<1> HIDE DEF c
<1>4. Owns(c.user, c.person)
  BY <1>1, <1>2 DEF AccountInv, RequestsOK, RequestOK
<1>5. AccountsOK' /\ RowsOK'
  BY <1>1 DEF AccountInv, AccountsOK, RowsOK
<1>6. ClaimsOK'
  BY <1>1, <1>3, <1>4 DEF AccountInv, ClaimsOK, Owns
<1>7. proc'[p].pc = "idle"
  BY <1>1, ProcUpdate DEF Idle
<1>8. RequestsOK'
  BY <1>1, <1>3, <1>7, RequestGoes DEF RequestOK
<1> QED  BY <1>5, <1>6, <1>8 DEF AccountInv

LEMMA ResolveStep ==
  ASSUME AccountInv, NEW p \in Process, NEW c \in issued,
         ResolvePrincipal(p, c)
  PROVE  AccountInv'
<1> USE DEF data
<1>1. AccountsOK' /\ ClaimsOK' /\ RowsOK'
  BY UsersStay DEF ResolvePrincipal, resolve
<1>2. Goes(p, [pc |-> "body", claims |-> c])
  BY DEF ResolvePrincipal
<1>3. proc'[p] = [pc |-> "body", claims |-> c]
  BY <1>2, ProcUpdate
<1>4. proc'[p].pc = "body" /\ proc'[p].claims = c
  BY <1>3
<1>5. RequestsOK'
  BY <1>2, <1>4, RequestGoes DEF ResolvePrincipal, RequestOK
<1> QED  BY <1>1, <1>5 DEF AccountInv

\* Whose principal it is, the user of a row that is written has an account.
LEMMA HandlerHasAccount ==
  ASSUME AccountInv, NEW p \in Process, Handles(p)
  PROVE  Principal(p) \in DOMAIN account
BY DEF AccountInv, RequestsOK, RequestOK, ClaimsOK, Owns, Handles,
       assertActiveUser, Principal

LEMMA MutationStep ==
  ASSUME AccountInv, NEW p \in Process, Mutation(p)
  PROVE  AccountInv'
<1> USE DEF login
<1>1. UNCHANGED login /\ Goes(p, Idle)
  BY DEF Mutation
<1>2. proc'[p].pc = "idle"
  BY <1>1, ProcUpdate DEF Idle
<1>3. RequestsOK'
  BY <1>1, <1>2, RequestGoes DEF RequestOK
<1>4. AccountsOK' /\ ClaimsOK'
  BY <1>1 DEF AccountInv, AccountsOK, ClaimsOK, Owns
<1>5. RowsOK'
  <2>1. Handles(p)
    BY DEF Mutation, addFavorite, removeFavorite, addHistory, deleteHistory
  <2>2. ASSUME NEW s, addFavorite(p, s) PROVE RowsOK'
    BY <1>1, <2>1, <2>2, HandlerHasAccount
    DEF addFavorite, AccountInv, RowsOK
  <2>3. ASSUME NEW s, addHistory(p, s) PROVE RowsOK'
    BY <1>1, <2>1, <2>3, HandlerHasAccount
    DEF addHistory, AccountInv, RowsOK
  <2>4. ASSUME NEW s, removeFavorite(p, s) PROVE RowsOK'
    BY <1>1, <2>4 DEF removeFavorite, AccountInv, RowsOK
  <2>5. ASSUME NEW id, deleteHistory(p, id) PROVE RowsOK'
    BY <1>1, <2>5 DEF deleteHistory, AccountInv, RowsOK
  <2> QED  BY <2>2, <2>3, <2>4, <2>5 DEF Mutation
<1> QED  BY <1>3, <1>4, <1>5 DEF AccountInv

\* The user's row, account, sessions and data go in one transaction.
LEMMA WithdrawStep ==
  ASSUME AccountInv, NEW p \in Process, withdraw(p)
  PROVE  AccountInv'
<1> DEFINE u == Principal(p)
           v == [pc |-> "unlink", claims |-> proc[p].claims]
<1>1. /\ users' = users \ {u} /\ sessions' = Without(sessions, u)
      /\ favorites' = Without(favorites, u)
      /\ history' = Without(history, u)
      /\ account' = [w \in DOMAIN account \ {u} |-> account[w]]
      /\ UNCHANGED <<created, issued>> /\ Goes(p, v)
  BY DEF withdraw, Remaining
<1>2. u \in DOMAIN account
  BY DEF withdraw
<1> HIDE DEF u
<1>3. /\ DOMAIN account' = DOMAIN account \ {u}
      /\ \A w \in DOMAIN account' : account'[w] = account[w]
  BY <1>1
<1>4. account' = [w \in DOMAIN account' |-> account'[w]]
  BY <1>1
<1>5. AccountsOK'
  BY <1>1, <1>3, <1>4 DEF AccountInv, AccountsOK
<1>6. RowsOK'
  BY <1>1, <1>3 DEF AccountInv, RowsOK, Without
<1>7. ASSUME NEW w, NEW k, Owns(w, k) PROVE Owns(w, k)'
  BY <1>1, <1>3, <1>7 DEF Owns
<1>8. ClaimsOK'
  BY <1>1, <1>7 DEF AccountInv, ClaimsOK, Without
<1>9. proc'[p] = v /\ proc'[p].pc = "unlink"
  BY <1>1, ProcUpdate
<1>10. ASSUME NEW q \in Process \ {p}
       PROVE  RequestOK(proc[q])' /\ proc'[q] = proc[q]
  <2>1. RequestOK(proc[q]) /\ proc'[q] = proc[q]
    BY <1>1, ProcUpdate DEF AccountInv, RequestsOK
  <2>2. proc[q].pc = "link" => proc[q].user # u
    BY <1>2, <2>1 DEF RequestOK
  <2> QED  BY <1>1, <1>3, <1>7, <2>1, <2>2 DEF RequestOK
<1>11. RequestOK(proc[p])'
  BY <1>9 DEF RequestOK
<1>12. RequestsOK'
  BY <1>1, <1>9, <1>10, <1>11, ProcUpdate DEF AccountInv, RequestsOK
<1> QED  BY <1>5, <1>6, <1>8, <1>12 DEF AccountInv

\* A request ends without an effect.
LEMMA EndStep ==
  ASSUME AccountInv, NEW p \in Process,
         Refused(p) \/ unlinkKakaoAccount(p) \/ UnlinkTimeout(p)
  PROVE  AccountInv'
<1> USE DEF login, data
<1>1. UNCHANGED <<login, data>> /\ Goes(p, Idle)
  BY DEF Refused, unlinkKakaoAccount, UnlinkTimeout
<1>2. AccountsOK' /\ ClaimsOK' /\ RowsOK'
  BY <1>1, UsersStay
<1>3. proc'[p].pc = "idle"
  BY <1>1, ProcUpdate DEF Idle
<1>4. RequestsOK'
  BY <1>1, <1>3, RequestGoes DEF RequestOK
<1> QED  BY <1>2, <1>4 DEF AccountInv

LEMMA OtherStep ==
  ASSUME AccountInv,
         \/ \E c \in issued : signOut(c)
         \/ \E s \in Store : PublishStore(s)
         \/ Restart \/ Tick \/ UNCHANGED vars
  PROVE  AccountInv'
<1> USE DEF login, data
<1>1. /\ UNCHANGED <<created, users, account, issued, favorites, history>>
      /\ sessions' \subseteq sessions
  BY DEF signOut, PublishStore, Restart, Tick, vars
<1>2. AccountsOK' /\ ClaimsOK' /\ RowsOK'
  BY <1>1, UsersStay
<1>3. UNCHANGED proc \/ proc' = [p \in Process |-> Idle]
  BY DEF signOut, PublishStore, Restart, Tick, vars
<1>4. CASE UNCHANGED proc
  BY <1>1, <1>2, <1>4 DEF AccountInv, RequestsOK, RequestOK, Owns
<1>5. CASE proc' = [p \in Process |-> Idle]
  <2>1. \A p \in Process : proc'[p].pc = "idle"
    BY <1>5 DEF Idle
  <2>2. proc' = [p \in Process |-> proc'[p]]
    BY <1>5
  <2>3. RequestsOK'
    BY <2>1, <2>2 DEF RequestsOK, RequestOK
  <2> QED  BY <1>2, <2>3 DEF AccountInv
<1> QED  BY <1>3, <1>4, <1>5

LEMMA NextAccount ==
  ASSUME AccountInv, [Next]_vars
  PROVE  AccountInv'
BY CallbackStep, CreateStep, LinkStep, RegisterStep, ResolveStep,
   MutationStep, WithdrawStep, EndStep, OtherStep DEF Next

LEMMA AccountInvHolds == Spec => []AccountInv
<1>1. Init => AccountInv
  BY InitAccount
<1>2. AccountInv /\ [Next]_vars => AccountInv'
  BY NextAccount
<1> QED  BY <1>1, <1>2, PTL DEF Spec

\* Whatever logins, withdrawals and mutations are under way at once, and
\* however often the server is started again: no session and no row is of a
\* user without an account, and a person is one user.
THEOREM NothingIsWithoutAccount == Spec => []NothingWithoutAccount
<1>1. AccountInv => NothingWithoutAccount
  <2> SUFFICES ASSUME AccountInv PROVE NothingWithoutAccount
    OBVIOUS
  <2>1. \A c \in sessions : /\ c.user \in DOMAIN account
                            /\ account[c.user] = c.person
    BY DEF AccountInv, ClaimsOK, Owns
  <2>2. \A c \in sessions : getUserByAccount(c.person) = {c.user}
    BY <2>1 DEF getUserByAccount, AccountInv, AccountsOK
  <2> QED  BY <2>2 DEF NothingWithoutAccount, AccountInv, RowsOK
<1> QED  BY <1>1, AccountInvHolds, PTL

-----------------------------------------------------------------------------
(* What a user is shown.                                                     *)

\* The rows of one user are as they were.
SameRows(u) ==
  /\ {f \in favorites' : f.user = u} = {f \in favorites : f.user = u}
  /\ {h \in history' : h.user = u} = {h \in history : h.user = u}

LEMMA SameRowsSameLists ==
  ASSUME NEW u, SameRows(u), public' = public
  PROVE  /\ listFavorites(u)' = listFavorites(u)
         /\ listHistory(u)' = listHistory(u)
<1>1. listFavorites(u)' = listFavorites(u)
  BY DEF SameRows, listFavorites
<1>2. \A S : {h \in history' : h.user = u /\ h.store \in S}
             = {h \in history : h.user = u /\ h.store \in S}
  BY DEF SameRows
<1>3. {h \in history' : h.user = u /\ h.store = NoStore}
        = {h \in history : h.user = u /\ h.store = NoStore}
  BY DEF SameRows
<1> QED  BY <1>1, <1>2, <1>3 DEF listHistory

\* A request that writes rows writes those of its principal only.
LEMMA WriterIsOwner ==
  ASSUME AccountInv, [Next]_vars, NEW u, ~SameRows(u)
  PROVE  \E p \in Process :
           /\ proc[p].pc = "body" /\ proc'[p].pc \in {"idle", "unlink"}
           /\ Principal(p) = u
<1>1. PICK p \in Process : Mutation(p) \/ withdraw(p)
  <2>1. UNCHANGED <<favorites, history>> => SameRows(u)
    BY DEF SameRows
  <2> QED
    BY <2>1 DEF Next, vars, data, Callback, createUser, linkAccount, register,
       ResolvePrincipal, Refused, unlinkKakaoAccount, UnlinkTimeout, signOut,
       PublishStore, Restart, Tick
<1>2. CASE Mutation(p)
  <2>1. Goes(p, Idle)
    BY <1>2 DEF Mutation
  <2>2. proc'[p].pc = "idle"
    BY <2>1, ProcUpdate DEF Idle
  <2>3. Handles(p)
    BY <1>2
    DEF Mutation, addFavorite, removeFavorite, addHistory, deleteHistory
  <2>4. ASSUME Principal(p) # u PROVE SameRows(u)
    <3>1. ASSUME NEW s, addFavorite(p, s) \/ removeFavorite(p, s)
          PROVE  SameRows(u)
      BY <2>4, <3>1 DEF addFavorite, removeFavorite, SameRows
    <3>2. ASSUME NEW s, addHistory(p, s) PROVE SameRows(u)
      BY <2>4, <3>2 DEF addHistory, SameRows
    <3>3. ASSUME NEW id, deleteHistory(p, id) PROVE SameRows(u)
      BY <2>4, <3>3 DEF deleteHistory, OwnedHistory, SameRows
    <3> QED  BY <1>2, <3>1, <3>2, <3>3 DEF Mutation
  <2> QED  BY <2>2, <2>3, <2>4 DEF Handles
<1>3. CASE withdraw(p)
  <2>1. Goes(p, [pc |-> "unlink", claims |-> proc[p].claims])
    BY <1>3 DEF withdraw
  <2>2. proc'[p] = [pc |-> "unlink", claims |-> proc[p].claims]
    BY <2>1, ProcUpdate
  <2>3. proc'[p].pc = "unlink"
    BY <2>2
  <2>4. Principal(p) = u
    BY <1>3 DEF withdraw, Without, SameRows
  <2> QED  BY <1>3, <2>3, <2>4 DEF withdraw, Handles
<1> QED  BY <1>1, <1>2, <1>3

\* Favorites and histories on a user's screen are changed by a request of
\* that user alone, whoever else writes, withdraws or deletes.
THEOREM OnlyOwnerChangesShown == Spec => ShownChangesByOwner
<1> DEFINE A == \A u \in UserId :
       \/ listFavorites(u)' = listFavorites(u)
            /\ listHistory(u)' = listHistory(u)
       \/ public' # public
       \/ \E p \in Process :
            /\ proc[p].pc = "body" /\ proc'[p].pc \in {"idle", "unlink"}
            /\ Principal(p) = u
<1>1. AccountInv /\ [Next]_vars => A
  BY SameRowsSameLists, WriterIsOwner
<1>2. AccountInv /\ [Next]_vars => [A]_vars
  BY <1>1
<1> HIDE DEF A
<1>3. Spec => [][A]_vars
  BY <1>2, AccountInvHolds, PTL DEF Spec
<1> QED  BY <1>3 DEF A, ShownChangesByOwner
=============================================================================
