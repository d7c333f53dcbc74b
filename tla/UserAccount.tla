---------------------------- MODULE UserAccount ----------------------------
(***************************************************************************)
(* The accounts of the web application: login with Kakao, the registry of  *)
(* sessions, favorites and histories, and withdrawal.                      *)
(*                                                                         *)
(* A handler runs to its next await: a login is four steps, a mutation is  *)
(* two (the principal is resolved, then the body is read and the handler   *)
(* goes on with that principal), a withdrawal three.  Between them others  *)
(* run, and the catalog may be published.  A cookie that was issued may be *)
(* sent at any time.  The status DELETING exists inside the transaction of *)
(* a withdrawal only, so a user is a row that is there.                    *)
(***************************************************************************)
EXTENDS Integers, FiniteSets

CONSTANTS
  Person,        \* Kakao accounts
  Store,
  NoStore,       \* the store of a search
  Process,       \* requests under way
  Lifetime,      \* AUTH_JWT_MAX_AGE_SECONDS
  RecentAge,     \* RECENT_AUTH_MAX_AGE_MS
  HistoryLimit,  \* limit of a history query
  MaxUsers, MaxSessions, MaxHistory, MaxTime    \* bounds

ASSUME AccountAssumption ==
  /\ NoStore \notin Store
  /\ RecentAge \in Nat /\ Lifetime \in Nat /\ RecentAge < Lifetime
  /\ {HistoryLimit, MaxUsers, MaxSessions, MaxHistory, MaxTime}
       \subseteq Nat \ {0}

VARIABLES
  clock,
  created,    \* user ids given so far
  users,      \* user
  account,    \* account: the person of a user
  issued,     \* claims in the cookies that were ever set
  sessions,   \* session: the registered claims
  favorites,
  written,    \* history ids given so far
  history,    \* search_history and selection_history
  public,     \* stores that are published and trading
  proc

vars == <<clock, created, users, account, issued, sessions,
          favorites, written, history, public, proc>>
data == <<favorites, written, history>>
login == <<created, users, account, issued, sessions>>

UserId == 1..MaxUsers
Claims == [id : 1..MaxSessions, user : UserId, person : Person,
           at : 0..MaxTime]
Idle == [pc |-> "idle"]

TypeOK ==
  /\ clock \in 0..MaxTime
  /\ users \subseteq 1..created /\ DOMAIN account \subseteq users
  /\ \A u \in DOMAIN account : account[u] \in Person
  /\ issued \subseteq Claims /\ sessions \subseteq issued
  /\ favorites \subseteq [user : users, store : Store]
  /\ history \subseteq
       [id : 1..written, user : users, store : Store \cup {NoStore}]
  /\ \A h, i \in history : h.id = i.id => h = i
  /\ public \subseteq Store
  /\ \A p \in Process : proc[p].pc \in
       {"idle", "create", "link", "register", "body", "unlink"}

Init ==
  /\ clock = 0 /\ created = 0 /\ users = {}
  /\ account = << >> /\ issued = {} /\ sessions = {}
  /\ favorites = {} /\ written = 0 /\ history = {} /\ public = Store
  /\ proc = [p \in Process |-> Idle]

Goes(p, next) == proc' = [proc EXCEPT ![p] = next]

-----------------------------------------------------------------------------
(* Login: the calls Auth.js makes of the adapter, then the jwt callback *)

getUserByAccount(k) == {u \in DOMAIN account : account[u] = k}

(* Kakao has sent the person back to the application.                      *)
Callback(p, k) ==
  /\ proc[p] = Idle
  /\ \/ /\ getUserByAccount(k) = {}
        /\ Goes(p, [pc |-> "create", person |-> k])
     \/ \E u \in getUserByAccount(k) :
          Goes(p, [pc |-> "register", person |-> k, user |-> u])
  /\ UNCHANGED <<clock, public, login, data>>

createUser(p) ==
  /\ proc[p].pc = "create" /\ created < MaxUsers
  /\ created' = created + 1 /\ users' = users \cup {created'}
  /\ Goes(p, [pc |-> "link", person |-> proc[p].person, user |-> created'])
  /\ UNCHANGED <<clock, account, issued, sessions, public, data>>

(* account_provider_identity_unique                                        *)
NewIdentity(k) == getUserByAccount(k) = {}

linkAccount(p) ==
  LET k == proc[p].person
      u == proc[p].user IN
  /\ proc[p].pc = "link"
  /\ IF NewIdentity(k)
     THEN /\ account' = [v \in DOMAIN account \cup {u} |->
                           IF v = u THEN k ELSE account[v]]
          /\ Goes(p, [pc |-> "register", person |-> k, user |-> u])
     ELSE account' = account /\ Goes(p, Idle)
  /\ UNCHANGED <<clock, created, users, issued, sessions, public,
                 data>>

(* The user may be gone since it was looked up: the login then fails.      *)
register(p) ==
  LET c == [id |-> Cardinality(issued) + 1, user |-> proc[p].user,
            person |-> proc[p].person, at |-> clock] IN
  /\ proc[p].pc = "register" /\ Cardinality(issued) < MaxSessions
  /\ IF c.user \in users
     THEN issued' = issued \cup {c} /\ sessions' = sessions \cup {c}
     ELSE UNCHANGED <<issued, sessions>>
  /\ Goes(p, Idle)
  /\ UNCHANGED <<clock, created, users, account, public, data>>

-----------------------------------------------------------------------------
(* The session registry *)

expired(c) == c.at + Lifetime <= clock

resolve(c) ==
  /\ sessions' = {d \in sessions : ~expired(d)}
  /\ c \in sessions'

(* Auth.js has already refused the token of a cookie that is too old.      *)
ResolvePrincipal(p, c) ==
  /\ proc[p] = Idle /\ c \in issued /\ ~expired(c)
  /\ resolve(c) /\ Goes(p, [pc |-> "body", claims |-> c])
  /\ UNCHANGED <<clock, created, users, account, issued, public,
                 data>>

signOut(c) ==
  /\ c \in issued /\ sessions' = sessions \ {c}
  /\ UNCHANGED <<clock, created, users, account, issued, public,
                 proc, data>>

-----------------------------------------------------------------------------
(* Favorites and histories *)

Principal(p) == proc[p].claims.user

assertActiveUser(u) == u \in users

(* The body is there: the handler goes on with the principal it has.       *)
Handles(p) == proc[p].pc = "body" /\ assertActiveUser(Principal(p))

addFavorite(p, s) ==
  /\ Handles(p) /\ s \in public
  /\ favorites' = favorites \cup {[user |-> Principal(p), store |-> s]}
  /\ UNCHANGED <<written, history>>

removeFavorite(p, s) ==
  /\ Handles(p)
  /\ favorites' = favorites \ {[user |-> Principal(p), store |-> s]}
  /\ UNCHANGED <<written, history>>

addHistory(p, s) ==
  /\ Handles(p) /\ s \in public \cup {NoStore}
  /\ written < MaxHistory /\ written' = written + 1
  /\ history' = history \cup
       {[id |-> written', user |-> Principal(p), store |-> s]}
  /\ UNCHANGED favorites

(* Mutant: the owner of the record is not asked for. *)
NamedHistory(u, id) == {h \in history : h.id = id}

OwnedHistory(u, id) == {h \in history : h.id = id /\ h.user = u}

deleteHistory(p, id) ==
  /\ Handles(p)
  /\ history' = history \ OwnedHistory(Principal(p), id)
  /\ UNCHANGED <<favorites, written>>

Mutation(p) ==
  /\ \/ \E s \in Store : addFavorite(p, s) \/ removeFavorite(p, s)
     \/ \E s \in Store \cup {NoStore} : addHistory(p, s)
     \/ \E id \in 1..written : deleteHistory(p, id)
  /\ Goes(p, Idle) /\ UNCHANGED <<clock, public, login>>

(* The body is invalid, the user or the store is gone, or the request was  *)
(* one that only lists.                                                    *)
Refused(p) ==
  /\ proc[p].pc = "body" /\ Goes(p, Idle)
  /\ UNCHANGED <<clock, public, login, data>>

(* What a user is shown.                                                   *)
listFavorites(u) == {f \in favorites : f.user = u /\ f.store \in public}

Latest(rows) ==
  {h \in rows : Cardinality({i \in rows : i.id > h.id}) < HistoryLimit}

listHistory(u) ==
  Latest({h \in history : h.user = u /\ h.store = NoStore}) \cup
  Latest({h \in history : h.user = u /\ h.store \in public})

-----------------------------------------------------------------------------
(* Withdrawal *)

recentlyAuthenticated(c) == clock - c.at \in 0..RecentAge

(* Mutant: the user's row stays. *)
AllUsers(u) == users

Remaining(u) == users \ {u}

Without(rows, u) == {r \in rows : r.user # u}

withdraw(p) ==
  LET u == Principal(p) IN
  /\ Handles(p) /\ recentlyAuthenticated(proc[p].claims)
  /\ u \in DOMAIN account
  /\ users' = Remaining(u)
  /\ sessions' = Without(sessions, u)
  /\ favorites' = Without(favorites, u)
  /\ history' = Without(history, u)
  /\ account' = [v \in DOMAIN account \ {u} |-> account[v]]
  /\ Goes(p, [pc |-> "unlink", claims |-> proc[p].claims])
  /\ UNCHANGED <<clock, created, issued, written, public>>

(* Kakao answers: it has done what it is asked for, or refuses.            *)
unlinkKakaoAccount(p) ==
  /\ proc[p].pc = "unlink" /\ Goes(p, Idle)
  /\ UNCHANGED <<clock, public, login, data>>

(* Mutant: the call of Kakao is not aborted. *)
Patient(p) == FALSE

Aborts(p) == proc[p].pc = "unlink"

(* Kakao has done it or not, and nobody will know: PENDING_MANUAL.         *)
UnlinkTimeout(p) ==
  /\ Aborts(p) /\ Goes(p, Idle)
  /\ UNCHANGED <<clock, public, login, data>>

-----------------------------------------------------------------------------
(* The server is started again: the requests under way are gone.           *)
Restart ==
  /\ \E p \in Process : proc[p] # Idle
  /\ proc' = [p \in Process |-> Idle]
  /\ UNCHANGED <<clock, public, login, data>>

Tick ==
  /\ clock < MaxTime /\ clock' = clock + 1
  /\ UNCHANGED <<public, proc, login, data>>

(* The catalog is published with the store, or without it.                 *)
PublishStore(s) ==
  /\ public' = IF s \in public THEN public \ {s} ELSE public \cup {s}
  /\ UNCHANGED <<clock, proc, login, data>>

Next ==
  \/ \E p \in Process :
       \/ \E k \in Person : Callback(p, k)
       \/ createUser(p) \/ linkAccount(p)
       \/ register(p)
       \/ \E c \in issued : ResolvePrincipal(p, c)
       \/ Mutation(p) \/ Refused(p) \/ withdraw(p)
       \/ unlinkKakaoAccount(p) \/ UnlinkTimeout(p)
  \/ \E c \in issued : signOut(c)
  \/ \E s \in Store : PublishStore(s)
  \/ Restart \/ Tick

Spec == Init /\ [][Next]_vars

(* The timer of the unlink call runs out.                                  *)
FairSpec == Spec /\ \A p \in Process : WF_vars(UnlinkTimeout(p))

-----------------------------------------------------------------------------
(* Properties *)

(* A user without an account - withdrawn while requests and logins were    *)
(* under way, or left over by a login that another one overtook - has no   *)
(* session and no data, and so cannot come back; and a person is one user: *)
(* every session is of the only user that holds the account it was opened  *)
(* with (application-user-repository.ts, auth callbacks).                  *)
NothingWithoutAccount ==
  /\ \A row \in favorites \cup history : row.user \in DOMAIN account
  /\ \A c \in sessions : getUserByAccount(c.person) = {c.user}

(* What a user is shown changes by a request of that user, under claims    *)
(* that were issued for that user, or because a store is published or not. *)
ShownChangesByOwner ==
  [][\A u \in UserId :
       \/ listFavorites(u)' = listFavorites(u)
            /\ listHistory(u)' = listHistory(u)
       \/ public' # public
       \/ \E p \in Process :
            /\ proc[p].pc = "body" /\ proc'[p].pc \in {"idle", "unlink"}
            /\ Principal(p) = u]_vars

(* A withdrawal is answered, whatever Kakao does.                          *)
WithdrawalAnswered ==
  \A p \in Process : proc[p].pc = "unlink" ~> proc[p].pc # "unlink"
=============================================================================
