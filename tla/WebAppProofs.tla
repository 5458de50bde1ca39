---------------------------- MODULE WebAppProofs ----------------------------
(***************************************************************************)
(* Theorems about WebApp, for every set of requests, browsers, accounts    *)
(* and feeds, whatever the requests ask for.                               *)
(*                                                                         *)
(* Three invariants, each over those before it: the types, with what the   *)
(* place of a request says about it (TypeInv), together with the lemmas    *)
(* of FeedServiceProofs (FeedInv), from which the catalogue follows too;   *)
(* what signups that do not overlap keep of the accounts and of the        *)
(* sessions that name them (AccountInv); and the page of a new             *)
(* subscription (CreatedIsThere itself).                                   *)
(***************************************************************************)
EXTENDS WebApp, FeedServiceProofs, SelectionProofs

\* The places at which a request has not been answered yet.
Working == {"idle", "loaded", "routed", "hash", "read", "store", "verified", "found"}

\* What each place of a request says about its question and its numbers.
Places ==
  \A r \in Requests :
    /\ pc[r] \in Working => reply[r] = "none"
    /\ Creating(r) => ask[r].kind = "signup"
    /\ pc[r] \in {"read", "store"} => num[r] # 0
    /\ pc[r] = "verified" => ask[r].kind = "login"
    /\ pc[r] = "found" => ask[r].kind = "view"
    /\ pc[r] \in {"routed", "found"} /\ ask[r].kind \notin Public => UserOf(r) # 0

\* The part of WebTypeOK that is not about feeds.
Copies == [token : Tokens \cup {NoToken}, data : Sessions, modified : BOOLEAN]

StateTyped ==
  /\ users \in Seq(Users)
  /\ pc \in [Requests -> PCs]
  /\ ask \in [Requests -> Questions \cup {NoQuestion}]
  /\ \A r \in Requests : pc[r] # "idle" => ask[r] \in Asks[r]
  /\ copy \in [Requests -> Copies]
  /\ scan \in [Requests -> Seq(Users)]
  /\ num \in [Requests -> Nat]
  /\ reply \in [Requests -> Replies]
  /\ shown \in [Requests -> SUBSET IDs]
  /\ DOMAIN store \subseteq Tokens
  /\ \A t \in DOMAIN store : store[t] \in Sessions
  /\ cookie \in [Browsers -> Tokens \cup {NoToken}]
  /\ raced \in BOOLEAN
  /\ made \subseteq (Credentials \cup {NoCred}) \X IDs

TypeInv == StateTyped /\ Places

\* WebTypeOK in two parts.
LEMMA TypesAgree == StateTyped /\ FeedTypeOK <=> WebTypeOK
  BY DEF StateTyped, WebTypeOK, Copies

\* A request that has arrived asks a question of its set.
LEMMA AskTyped ==
  ASSUME TypeInv, NEW r \in Requests, pc[r] # "idle"
  PROVE  /\ ask[r] \in Questions
         /\ ask[r].kind \in Kinds /\ ask[r].browser \in Browsers /\ ask[r].cred \in Credentials
         /\ ask[r].url \in URLs /\ ask[r].feed \in IDs
  BY WebAssumption DEF TypeInv, StateTyped, WebAssumption, Questions

\* Every account has an ID and credentials.
LEMMA UsersTyped ==
  ASSUME TypeInv
  PROVE  /\ Len(users) \in Nat /\ DOMAIN users = 1..Len(users)
         /\ \A n \in DOMAIN users : users[n].id \in Nat \ {0} /\ users[n].cred \in Credentials
<1>1. users \in Seq(Users)
  BY DEF TypeInv, StateTyped
<1>2. DOMAIN users = 1..Len(users) /\ Len(users) \in Nat
  BY <1>1
<1>3. \A n \in DOMAIN users : users[n] \in Users
  BY <1>1, <1>2
<1>4. QED  BY <1>2, <1>3 DEF Users

\* The changes of a request's copy of its session.
LEMMA CopyTyped ==
  ASSUME TypeInv, NEW r \in Requests
  PROVE  /\ copy[r] \in Copies /\ copy[r].data \in Sessions
         /\ copy[r].token \in Tokens \cup {NoToken} /\ UserOf(r) \in Nat
         /\ copy[r].data.as \in Credentials \cup {NoCred}
  BY DEF TypeInv, StateTyped, Copies, Sessions, UserOf

\* A request changes its copy of the session and no other.
LEMMA CopyChanges ==
  ASSUME TypeInv, NEW r \in Requests, NEW c \in Copies, copy' = [copy EXCEPT ![r] = c]
  PROVE  /\ copy' \in [Requests -> Copies] /\ copy'[r] = c
         /\ \A s \in Requests : s # r => copy'[s] = copy[s]
  BY DEF TypeInv, StateTyped

\* A flash message changes nothing else of the session data.
LEMMA FlashTyped ==
  ASSUME TypeInv, NEW r \in Requests, PutFlash(r) \/ PopFlash(r)
  PROVE  /\ copy' \in [Requests -> Copies]
         /\ \A s \in Requests : copy'[s].data.user = copy[s].data.user
                                /\ copy'[s].data.as = copy[s].data.as
<1>1. copy[r] \in Copies /\ copy[r].data \in Sessions
  BY CopyTyped
<1> DEFINE d(f) == [copy[r].data EXCEPT !.flash = f]
           c(f, m) == [copy[r] EXCEPT !.data = d(f), !.modified = m]
<1>2. ASSUME NEW f \in BOOLEAN, NEW m \in BOOLEAN
      PROVE  /\ c(f, m) \in Copies
             /\ c(f, m).data.user = copy[r].data.user /\ c(f, m).data.as = copy[r].data.as
  <2>1. d(f) \in Sessions /\ d(f).user = copy[r].data.user /\ d(f).as = copy[r].data.as
    BY <1>1 DEF Sessions
  <2> HIDE DEF d
  <2>2. QED  BY <1>1, <2>1 DEF Copies
<1>3. \E f \in BOOLEAN, m \in BOOLEAN : copy' = [copy EXCEPT ![r] = c(f, m)]
  <2>1. CASE PutFlash(r)
    <3>1. copy' = [copy EXCEPT ![r] = c(TRUE, TRUE)]
      BY <2>1 DEF PutFlash
    <3>2. QED  BY <3>1
  <2>2. CASE PopFlash(r)
    <3>1. copy' = [copy EXCEPT ![r] = c(FALSE, copy[r].modified \/ copy[r].data.flash)]
      BY <2>2 DEF PopFlash
    <3>2. (copy[r].modified \/ copy[r].data.flash) \in BOOLEAN
      OBVIOUS
    <3> HIDE DEF c
    <3>3. QED  BY <3>1, <3>2
  <2>3. QED  BY <2>1, <2>2
<1> HIDE DEF c
<1>4. PICK f \in BOOLEAN, m \in BOOLEAN : copy' = [copy EXCEPT ![r] = c(f, m)]
  BY <1>3
<1>5. c(f, m) \in Copies
  BY <1>2
<1>6. /\ copy' \in [Requests -> Copies] /\ copy'[r] = c(f, m)
      /\ \A s \in Requests : s # r => copy'[s] = copy[s]
  BY <1>4, <1>5, CopyChanges
<1>7. QED  BY <1>2, <1>6

\* The types and places at the start.
LEMMA InitTyped == WebInit => TypeInv
<1> SUFFICES ASSUME WebInit  PROVE TypeInv
  OBVIOUS
<1>1. users \in Seq(Users)
  BY UserAssumption DEF WebInit, UserInit, UserAssumption, Users
<1>2. Loaded(NoToken, NoSession) \in Copies
  BY DEF Loaded, Copies, NoSession, Sessions
<1>3. /\ DOMAIN store = {} /\ scan \in [Requests -> Seq(Users)]
  BY DEF WebInit
<1>4. StateTyped
  BY <1>1, <1>2, <1>3 DEF WebInit, StateTyped, PCs, Replies
<1>5. Places
  BY DEF WebInit, Places, Working, Creating
<1>6. QED  BY <1>4, <1>5 DEF TypeInv

\* A renewed session keeps what it is given, and the store only forgets.
LEMMA RenewTokenTyped ==
  ASSUME TypeInv, NEW r \in Requests, NEW d \in Sessions, RenewToken(r, d)
  PROVE  /\ copy' \in [Requests -> Copies] /\ copy'[r].data = d
         /\ \A s \in Requests : s # r => copy'[s] = copy[s]
         /\ DOMAIN store' \subseteq Tokens
         /\ \A t \in DOMAIN store' :
              store'[t] \in Sessions /\ t \in DOMAIN store /\ store'[t] = store[t]
<1> DEFINE c == [token |-> r, data |-> d, modified |-> TRUE]
<1>1. c \in Copies /\ c.data = d
  BY DEF Copies, Tokens
<1>2. copy' = [copy EXCEPT ![r] = c] /\ store' = [t \in DOMAIN store \ {copy[r].token} |-> store[t]]
  BY DEF RenewToken
<1> HIDE DEF c
<1>3. /\ copy' \in [Requests -> Copies] /\ copy'[r] = c
      /\ \A s \in Requests : s # r => copy'[s] = copy[s]
  BY <1>1, <1>2, CopyChanges
<1>4. QED  BY <1>1, <1>2, <1>3 DEF TypeInv, StateTyped

\* A step of the middleware.
LEMMA MiddlewareTyped ==
  ASSUME TypeInv, NEW r \in Requests,
         \/ \E q \in Asks[r] : Arrive(r, q)
         \/ Authenticated(r) \/ NotAuthenticated(r) \/ Commit(r) \/ Receive(r)
  PROVE  TypeInv'
<1>1. \A s \in Requests : copy[s] \in Copies
  BY CopyTyped
<1>2. ASSUME NEW q \in Asks[r], Arrive(r, q)  PROVE TypeInv'
  <2>1. q \in Questions /\ pc[r] = "idle"
    BY <1>2, WebAssumption DEF Arrive, At, WebAssumption
  <2> DEFINE t == cookie[q.browser]
             c == IF t \in DOMAIN store THEN Loaded(t, store[t]) ELSE Loaded(NoToken, NoSession)
  <2>2. c \in Copies
    BY DEF Loaded, Copies, NoSession, Sessions, TypeInv, StateTyped
  <2>3. copy' = [copy EXCEPT ![r] = c]
    BY <1>2 DEF Arrive
  <2> HIDE DEF c
  <2>4. copy' \in [Requests -> Copies] /\ \A s \in Requests : s # r => copy'[s] = copy[s]
    BY <2>2, <2>3, CopyChanges
  <2>5. StateTyped'
    BY <1>2, <2>1, <2>4
    DEF Arrive, At, Goto, TypeInv, StateTyped, PCs, accountVars
  <2>6. Places'
    BY <1>2, <2>1, <2>4
    DEF Arrive, At, Goto, TypeInv, StateTyped, Places, Working, Creating, UserOf, accountVars
  <2>7. QED  BY <2>5, <2>6 DEF TypeInv
<1>3. CASE Authenticated(r)
  <2>1. Exists(UserOf(r)) => UserOf(r) # 0
    BY UsersTyped DEF Exists
  <2>2. QED
    BY <1>3, <2>1
    DEF Authenticated, Goto, TypeInv, StateTyped, Places, Working, Creating, UserOf, PCs,
        accountVars
<1>4. CASE NotAuthenticated(r)
  BY <1>4
  DEF NotAuthenticated, Respond, Goto, TypeInv, StateTyped, Places, Working, Creating, UserOf, PCs,
      Replies, accountVars
<1>5. CASE Commit(r)
  <2> DEFINE t == IF copy[r].token = NoToken THEN r ELSE copy[r].token
  <2>1. CASE copy[r].modified
    <3>1. [copy[r] EXCEPT !.token = t] \in Copies /\ t \in Tokens
      BY <1>1 DEF Copies, Tokens
    <3>2. /\ copy' = [copy EXCEPT ![r] = [copy[r] EXCEPT !.token = t]]
          /\ store' = [u \in DOMAIN store \cup {t} |-> IF u = t THEN copy[r].data ELSE store[u]]
      BY <1>5, <2>1 DEF Commit
    <3> HIDE DEF t
    <3>3. copy' \in [Requests -> Copies] /\ \A s \in Requests : s # r => copy'[s] = copy[s]
      BY <3>1, <3>2, CopyChanges
    <3>4. DOMAIN store' \subseteq Tokens /\ \A u \in DOMAIN store' : store'[u] \in Sessions
      BY <3>1, <3>2, CopyTyped DEF TypeInv, StateTyped
    <3>5. QED
      BY <1>5, <3>3, <3>4
      DEF Commit, At, Goto, TypeInv, StateTyped, Places, Working, Creating, UserOf, PCs, accountVars
  <2>2. CASE ~copy[r].modified
    BY <1>5, <2>2
    DEF Commit, At, Goto, TypeInv, StateTyped, Places, Working, Creating, UserOf, PCs, accountVars
  <2>3. QED  BY <2>1, <2>2
<1>6. CASE Receive(r)
  <2>1. copy[r].token \in Tokens \cup {NoToken}
    BY CopyTyped
  <2>2. QED
    BY <1>6, <2>1
    DEF Receive, At, Goto, TypeInv, StateTyped, Places, Working, Creating, UserOf, PCs, accountVars
<1>7. QED  BY <1>2, <1>3, <1>4, <1>5, <1>6

\* A step of the signup.
LEMMA SignupTyped ==
  ASSUME TypeInv, NEW r \in Requests,
         \/ Refuse(r) \/ DuplicateEmail(r) \/ ScanUsers(r) \/ HashFails(r)
         \/ NumberUser(r) \/ ReadUsers(r) \/ StoreUser(r)
  PROVE  TypeInv'
<1>1. CASE Refuse(r) \/ DuplicateEmail(r) \/ HashFails(r)
  <2>1. /\ UNCHANGED <<users, scan, num, raced, ask, copy, shown, store, cookie, made>>
        /\ pc[r] # "idle" /\ pc' = [pc EXCEPT ![r] = "commit"]
        /\ \E s \in Replies : reply' = [reply EXCEPT ![r] = s]
    BY <1>1 DEF Refuse, DuplicateEmail, HashFails, Handles, Respond, Goto, Replies, accountVars
  <2>2. StateTyped'
    BY <2>1 DEF TypeInv, StateTyped, PCs
  <2>3. Places'
    BY <2>1 DEF TypeInv, StateTyped, Places, Working, Creating, UserOf
  <2>4. QED  BY <2>2, <2>3 DEF TypeInv
<1>2. CASE ScanUsers(r)
  BY <1>2
  DEF ScanUsers, Handles, Goto, TypeInv, StateTyped, Places, Working, Creating, UserOf, PCs
<1>3. CASE NumberUser(r)
  <2>1. Len(users) \in Nat
    BY DEF TypeInv, StateTyped
  <2>2. QED
    BY <1>3, <2>1
    DEF NumberUser, At, Goto, TypeInv, StateTyped, Places, Working, Creating, UserOf, PCs
<1>4. CASE ReadUsers(r)
  BY <1>4
  DEF ReadUsers, At, Goto, TypeInv, StateTyped, Places, Working, Creating, UserOf, PCs
<1>5. CASE StoreUser(r)
  <2>1. /\ copy' \in [Requests -> Copies]
        /\ \A s \in Requests : copy'[s].data.user = copy[s].data.user
    BY <1>5, FlashTyped DEF StoreUser
  <2>2. ask[r].cred \in Credentials /\ num[r] \in Nat \ {0}
    BY <1>5, AskTyped DEF StoreUser, TypeInv, StateTyped, Places
  <2>3. users' \in Seq(Users)
    <3>1. [id |-> num[r], cred |-> ask[r].cred] \in Users
      BY <2>2 DEF Users
    <3>2. users' = Append(scan[r], [id |-> num[r], cred |-> ask[r].cred]) /\ scan[r] \in Seq(Users)
      BY <1>5 DEF StoreUser, TypeInv, StateTyped
    <3>3. QED  BY <3>1, <3>2
  <2>4. QED
    BY <1>5, <2>1, <2>3
    DEF StoreUser, Respond, Goto, TypeInv, StateTyped, Places, Working, Creating, UserOf, PCs,
        Replies
<1>6. QED  BY <1>1, <1>2, <1>3, <1>4, <1>5

\* Authenticate returns the ID of an account with these credentials, or 0.
LEMMA AuthenticateFinds ==
  ASSUME TypeInv, NEW c
  PROVE  /\ Authenticate(c) \in Nat
         /\ Authenticate(c) # 0 =>
              \E n \in DOMAIN users : users[n].id = Authenticate(c) /\ users[n].cred = c
<1> DEFINE found == {n \in DOMAIN users : users[n].cred[1] = c[1]}
           first == CHOOSE n \in found : \A m \in found : n <= m
<1>1. Authenticate(c) = IF found # {} /\ users[first].cred = c THEN users[first].id ELSE 0
  BY DEF Authenticate
<1>2. found # {} => first \in found
  <2> SUFFICES ASSUME found # {}  PROVE first \in found
    OBVIOUS
  <2>1. \E n \in found : \A m \in found : n <= m
    <3>1. found \in SUBSET Nat
      BY UsersTyped
    <3> HIDE DEF found
    <3>2. QED  BY <3>1, LeastOf
  <2>2. QED  BY <2>1
<1> HIDE DEF first
<1>3. QED  BY <1>1, <1>2, UsersTyped

\* A step of the login or the logout.
LEMMA LoginTyped ==
  ASSUME TypeInv, NEW r \in Requests,
         \/ ShowLogin(r) \/ CheckPassword(r) \/ InvalidCredentials(r)
         \/ StartSession(r) \/ EndSession(r)
  PROVE  TypeInv'
<1>1. CASE ShowLogin(r)
  <2>1. /\ copy' \in [Requests -> Copies]
        /\ \A s \in Requests : copy'[s].data.user = copy[s].data.user
    BY <1>1, FlashTyped DEF ShowLogin
  <2>2. QED
    BY <1>1, <2>1
    DEF ShowLogin, Handles, Respond, Goto, TypeInv, StateTyped, Places, Working, Creating, UserOf,
        PCs, Replies, accountVars
<1>2. CASE CheckPassword(r)
  BY <1>2, AuthenticateFinds
  DEF CheckPassword, Handles, Goto, TypeInv, StateTyped, Places, Working, Creating, UserOf, PCs
<1>3. CASE InvalidCredentials(r)
  BY <1>3
  DEF InvalidCredentials, Handles, Respond, Goto, TypeInv, StateTyped, Places, Working, Creating,
      UserOf, PCs, Replies, accountVars
<1>4. ASSUME NEW d \in Sessions, RenewToken(r, d)
      PROVE  /\ copy' \in [Requests -> Copies] /\ \A s \in Requests : s # r => copy'[s] = copy[s]
             /\ DOMAIN store' \subseteq Tokens
             /\ \A t \in DOMAIN store' : store'[t] \in Sessions
  BY <1>4, RenewTokenTyped
<1>5. CASE StartSession(r)
  <2> DEFINE d == [copy[r].data EXCEPT !.user = num[r], !.as = ask[r].cred]
  <2>1. d \in Sessions
    BY <1>5, CopyTyped, AskTyped DEF StartSession, Sessions, TypeInv, StateTyped
  <2>2. RenewToken(r, d)
    BY <1>5 DEF StartSession
  <2> HIDE DEF d
  <2>3. QED
    BY <1>4, <1>5, <2>1, <2>2
    DEF StartSession, Respond, Goto, TypeInv, StateTyped, Places, Working, Creating, UserOf, PCs,
        Replies, accountVars
<1>6. CASE EndSession(r)
  <2> DEFINE d == [NoSession EXCEPT !.flash = TRUE]
  <2>1. d \in Sessions
    BY DEF NoSession, Sessions
  <2>2. RenewToken(r, d)
    BY <1>6 DEF EndSession
  <2> HIDE DEF d
  <2>3. QED
    BY <1>4, <1>6, <2>1, <2>2
    DEF EndSession, Handles, Respond, Goto, TypeInv, StateTyped, Places, Working, Creating, UserOf,
        PCs, Replies, accountVars
<1>7. QED  BY <1>1, <1>2, <1>3, <1>5, <1>6

\* A step of the handlers of feeds, or of a job.
LEMMA HandlersTyped ==
  ASSUME TypeInv, FeedInv, NEW r \in Requests,
         \/ Subscribe(r) \/ Unsubscribe(r)
         \/ GetFeed(r) \/ NoRecord(r) \/ ViewFeed(r) \/ ListFeeds(r)
  PROVE  TypeInv'
<1>1. pc[r] \in {"routed", "found"}
  BY DEF Subscribe, Unsubscribe, GetFeed, NoRecord, ViewFeed, ListFeeds, Handles, At
<1>2. ask[r].url \in URLs /\ ask[r].feed \in IDs /\ copy[r].data.as \in Credentials \cup {NoCred}
  BY <1>1, AskTyped, CopyTyped
<1>3. ASSUME PutFlash(r) \/ PopFlash(r)
      PROVE  /\ copy' \in [Requests -> Copies]
             /\ \A s \in Requests : copy'[s].data.user = copy[s].data.user
  BY <1>3, FlashTyped
<1>4. CASE Subscribe(r)
  <2> DEFINE f == FeedFor(ask[r].url, "manual")
  <2>1. f.id \in IDs
    BY <1>2, <1>4, GetOrCreateIndexes DEF Subscribe, SubscribeToFeed, FeedInv
  <2>2. shown' = [shown EXCEPT ![r] = {f.id}] /\ made' = made \cup {<<copy[r].data.as, f.id>>}
    BY <1>4 DEF Subscribe
  <2> HIDE DEF f
  <2>3. shown' \in [Requests -> SUBSET IDs] /\ made' \subseteq (Credentials \cup {NoCred}) \X IDs
    BY <1>2, <2>1, <2>2 DEF TypeInv, StateTyped
  <2>4. QED
    BY <1>3, <1>4, <2>3
    DEF Subscribe, Handles, Respond, Goto, TypeInv, StateTyped, Places, Working, Creating, UserOf,
        PCs, Replies, accountVars
<1>5. CASE Unsubscribe(r)
  BY <1>3, <1>5
  DEF Unsubscribe, Handles, Respond, Goto, TypeInv, StateTyped, Places, Working, Creating, UserOf,
      PCs, Replies, accountVars
<1>6. CASE GetFeed(r) \/ NoRecord(r)
  <2>1. CASE GetFeed(r)
    BY <2>1
    DEF GetFeed, Handles, Goto, TypeInv, StateTyped, Places, Working, Creating, UserOf, PCs,
        accountVars
  <2>2. CASE NoRecord(r)
    BY <1>1, <2>2
    DEF NoRecord, Respond, Goto, TypeInv, StateTyped, Places, Working, Creating, UserOf, PCs,
        Replies, accountVars
  <2>3. QED  BY <1>6, <2>1, <2>2
<1>7. CASE ViewFeed(r)
  BY <1>2, <1>3, <1>7
  DEF ViewFeed, Respond, Goto, TypeInv, StateTyped, Places, Working, Creating,
      UserOf, PCs, Replies, accountVars
<1>8. CASE ListFeeds(r)
  <2>1. GetUserFeeds(UserOf(r)) \subseteq IDs
    BY DEF GetUserFeeds, FeedInv, Indexed
  <2>2. /\ copy' \in [Requests -> Copies]
        /\ \A s \in Requests : copy'[s].data.user = copy[s].data.user
    BY <1>3, <1>8 DEF ListFeeds, TypeInv, StateTyped
  <2>3. shown' \in [Requests -> SUBSET IDs]
    BY <1>8, <2>1 DEF ListFeeds, TypeInv, StateTyped
  <2>4. QED
    BY <1>1, <1>8, <2>2, <2>3
    DEF ListFeeds, Handles, Respond, Goto, TypeInv, StateTyped, Places, Working, Creating,
        UserOf, PCs, Replies, accountVars
<1>9. QED  BY <1>4, <1>5, <1>6, <1>7, <1>8

\* A job's step, or none.
LEMMA JobTyped ==
  ASSUME TypeInv, UNCHANGED <<accountVars, pc, ask, copy, reply, shown, store, cookie, made>>
  PROVE  TypeInv'
  BY DEF TypeInv, StateTyped, Places, Working, Creating, UserOf, accountVars

------------------------------------------------------------------------------
\* Only these steps change the feeds.
LEMMA StepKeepsFeeds ==
  ASSUME TypeInv, FeedInv, NEW r \in Requests,
         Subscribe(r) \/ Unsubscribe(r)
  PROVE  FeedInv'
<1>1. ask[r].kind \notin Public /\ pc[r] = "routed"
  BY DEF Subscribe, Unsubscribe, Handles, Public
<1>2. UserOf(r) \in IDs /\ ask[r].url \in URLs
  BY <1>1, AskTyped, CopyTyped DEF TypeInv, Places, IDs
<1>3. CASE Subscribe(r)
  BY <1>2, <1>3, SubscribeKeeps DEF Subscribe
<1>4. CASE Unsubscribe(r)
  BY <1>2, <1>4, UnsubscribeKeeps DEF Unsubscribe
<1>5. QED  BY <1>3, <1>4

\* Every step keeps the types and the indices.
LEMMA StepTyped ==
  ASSUME TypeInv, FeedInv, [WebNext]_vars
  PROVE  TypeInv' /\ FeedInv'
<1>1. ASSUME NEW r \in Requests,
             \/ \E q \in Asks[r] : Arrive(r, q)
             \/ Authenticated(r) \/ NotAuthenticated(r) \/ Commit(r) \/ Receive(r)
      PROVE  TypeInv' /\ UNCHANGED feedVars
  BY <1>1, MiddlewareTyped DEF Arrive, Authenticated, NotAuthenticated, Commit, Receive
<1>2. ASSUME NEW r \in Requests,
             \/ Refuse(r) \/ DuplicateEmail(r) \/ ScanUsers(r) \/ HashFails(r)
             \/ NumberUser(r) \/ ReadUsers(r) \/ StoreUser(r)
      PROVE  TypeInv' /\ UNCHANGED feedVars
  BY <1>2, SignupTyped
  DEF Refuse, DuplicateEmail, ScanUsers, HashFails, NumberUser, ReadUsers, StoreUser
<1>3. ASSUME NEW r \in Requests,
             \/ ShowLogin(r) \/ CheckPassword(r) \/ InvalidCredentials(r)
             \/ StartSession(r) \/ EndSession(r)
      PROVE  TypeInv' /\ UNCHANGED feedVars
  BY <1>3, LoginTyped DEF ShowLogin, CheckPassword, InvalidCredentials, StartSession, EndSession
<1>4. ASSUME NEW r \in Requests,
             GetFeed(r) \/ NoRecord(r) \/ ViewFeed(r) \/ ListFeeds(r)
      PROVE  TypeInv' /\ UNCHANGED feedVars
  BY <1>4, HandlersTyped DEF GetFeed, NoRecord, ViewFeed, ListFeeds
<1>5. ASSUME NEW r \in Requests, Subscribe(r) \/ Unsubscribe(r)
      PROVE  TypeInv' /\ FeedInv'
  BY <1>5, HandlersTyped, StepKeepsFeeds
<1>6. ASSUME NEW u \in Found, JobFinds(u)
      PROVE  TypeInv' /\ FeedInv'
  <2>1. u \in URLs
    BY WebAssumption DEF WebAssumption
  <2>2. QED  BY <1>6, <2>1, JobTyped, GetOrCreateFeedKeeps DEF JobFinds
<1>7. CASE UNCHANGED vars
  <2>1. UNCHANGED <<accountVars, pc, ask, copy, reply, shown, store, cookie, made>>
        /\ UNCHANGED feedVars
    BY <1>7 DEF vars, accountVars
  <2>2. QED  BY <2>1, JobTyped, FeedsUnchangedKeeps
<1>8. QED
  BY <1>1, <1>2, <1>3, <1>4, <1>5, <1>6, <1>7, FeedsUnchangedKeeps DEF WebNext, Terminated

LEMMA AlwaysTyped == WebSpec => [](TypeInv /\ FeedInv)
<1>1. WebInit => TypeInv /\ FeedInv
  BY InitTyped, FeedInitInv DEF WebInit
<1>2. TypeInv /\ FeedInv /\ [WebNext]_vars => (TypeInv /\ FeedInv)'
  BY StepTyped
<1>3. QED  BY <1>1, <1>2, PTL DEF WebSpec

\* The state keeps its types, whatever the requests ask for.
THEOREM WebIsTyped == WebSpec => []WebTypeOK
<1>1. TypeInv /\ FeedInv => WebTypeOK
  BY TypesAgree, FeedInvGives DEF TypeInv
<1>2. QED  BY <1>1, AlwaysTyped, PTL

\* The slice of feeds, the two indices and the subscriptions agree, however
\* the handlers and the jobs overlap.
THEOREM FeedsStayIndexed == WebSpec => []FeedsIndexed
<1>1. FeedInv => FeedsIndexed
  BY FeedInvGives
<1>2. QED  BY <1>1, AlwaysTyped, PTL

\* Whatever a handler or a job does to the feeds, the catalogue allows.
LEMMA StepIsCatalogued ==
  ASSUME TypeInv, FeedInv, [WebNext]_vars
  PROVE  [FC!CatalogueNext]_(FC!catalogueVars)
<1>1. ASSUME NEW r \in Requests, Subscribe(r) \/ Unsubscribe(r)
      PROVE  FC!CatalogueNext \/ UNCHANGED FC!catalogueVars
  <2>1. ask[r].kind \notin Public /\ pc[r] = "routed"
    BY <1>1 DEF Subscribe, Unsubscribe, Handles, Public
  <2>2. UserOf(r) \in IDs /\ ask[r].url \in URLs
    BY <2>1, AskTyped, CopyTyped DEF TypeInv, Places, IDs
  <2>3. CASE Subscribe(r)
    BY <2>2, <2>3, SubscriberFollows DEF Subscribe
  <2>4. CASE Unsubscribe(r)
    BY <2>4, UnsubscriberUnfollows DEF Unsubscribe
  <2>5. QED  BY <1>1, <2>3, <2>4
<1>2. ASSUME NEW u \in Found, JobFinds(u)
      PROVE  FC!CatalogueNext
  <2>1. u \in URLs /\ GetOrCreateFeed(u)
    BY <1>2, WebAssumption DEF WebAssumption, JobFinds
  <2>2. QED  BY <2>1, JobDiscovers
<1>3. \/ \E r \in Requests : Subscribe(r) \/ Unsubscribe(r)
      \/ \E u \in Found : JobFinds(u)
      \/ UNCHANGED feedVars
  BY DEF WebNext, Terminated, vars, Arrive, Authenticated, NotAuthenticated, Commit, Receive, Refuse,
     DuplicateEmail, ScanUsers, HashFails, NumberUser, ReadUsers, StoreUser, ShowLogin,
     CheckPassword, InvalidCredentials, StartSession, EndSession, GetFeed, NoRecord, ViewFeed,
     ListFeeds
<1>4. CASE UNCHANGED feedVars
  BY <1>4, CatalogueUntouched
<1>5. QED  BY <1>1, <1>2, <1>3, <1>4

\* The feeds and subscriptions are the catalogue of models.FeedService, however
\* handlers and jobs overlap.
THEOREM FeedsAreCatalogued == WebSpec => ImplementsCatalogue
<1>1. WebInit => FC!CatalogueInit
  BY CatalogueStarts DEF WebInit
<1>2. TypeInv /\ FeedInv /\ [WebNext]_vars => [FC!CatalogueNext]_(FC!catalogueVars)
  BY StepIsCatalogued
<1>3. QED
  BY <1>1, <1>2, AlwaysTyped, PTL DEF WebSpec, ImplementsCatalogue, FC!CatalogueSpec

------------------------------------------------------------------------------
(***************************************************************************)
(* Accounts and sessions, as long as no two signups are in CreateUser      *)
(* together.  Then the slice a signup has scanned, numbered and read is    *)
(* still the slice when it stores its own; and the account a session or a  *)
(* login names is never changed or moved again, so that it stays the one   *)
(* whose credentials logged in, wherever the session is copied to.         *)
(***************************************************************************)
Alone ==
  /\ \A r, s \in Requests : Creating(r) /\ Creating(s) => r = s
  /\ \A r \in Requests :
       /\ Creating(r) => ~EmailTaken(ask[r].cred[1])
       /\ pc[r] \in {"read", "store"} => num[r] = Len(users) + 1
       /\ pc[r] = "store" => scan[r] = users

Unique ==
  /\ \A n \in DOMAIN users : users[n].id = n
  /\ \A m, n \in DOMAIN users : users[m].cred[1] = users[n].cred[1] => m = n

Confirmed(r) == reply[r] = "redirect" /\ ask[r].kind = "signup"

SignupsKept ==
  \A r \in Requests : Confirmed(r) => \E n \in DOMAIN users : users[n].cred = ask[r].cred

\* Account n is the one of credentials c.
Names(n, c) == n \in DOMAIN users /\ users[n].cred = c

Named ==
  /\ \A t \in DOMAIN store : store[t].user # 0 => Names(store[t].user, store[t].as)
  /\ \A r \in Requests :
       /\ UserOf(r) # 0 => Names(UserOf(r), copy[r].data.as)
       /\ pc[r] = "verified" => Names(num[r], ask[r].cred)

Made ==
  \A p \in userFeeds : p[1] \in DOMAIN users /\ <<users[p[1]].cred, p[2]>> \in made

AccountInv == ~raced => Alone /\ Unique /\ SignupsKept /\ Named /\ Made

\* The parts of AccountInv are the properties of WebApp.
LEMMA AccountInvGives ==
  AccountInv => AccountsAreUnique /\ SignupIsKept /\ SessionsKeepAccount /\ SubscriptionsAreMade
  BY DEF AccountInv, Unique, SignupsKept, Confirmed, Named, Names, Made, UserOf, AccountsAreUnique,
     SignupIsKept, SessionsKeepAccount, SubscriptionsAreMade

\* At the start there is the test user, and no session.
LEMMA InitAccounts == WebInit => AccountInv
<1> SUFFICES ASSUME WebInit  PROVE AccountInv
  OBVIOUS
<1>1. DOMAIN users = {1} /\ users[1].id = 1
  BY DEF WebInit, UserInit
<1>2. /\ \A r \in Requests : pc[r] = "idle" /\ reply[r] = "none" /\ UserOf(r) = 0
      /\ DOMAIN store = {} /\ userFeeds = {}
  BY DEF WebInit, FeedInit, UserOf, Loaded, NoSession
<1>3. QED
  BY <1>1, <1>2 DEF AccountInv, Alone, Unique, SignupsKept, Confirmed, Named, Made, Creating

\* Most steps of a request only move it on: they leave the accounts and the
\* sessions alone, and neither begin nor confirm a signup.
LEMMA QuietKeeps ==
  ASSUME TypeInv, AccountInv, NEW r \in Requests,
         UNCHANGED <<users, scan, num, raced, ask, store, made>>, userFeeds' \subseteq userFeeds,
         \A s \in Requests : s # r => pc'[s] = pc[s] /\ reply'[s] = reply[s],
         \A s \in Requests : copy'[s].data.user = copy[s].data.user
                             /\ copy'[s].data.as = copy[s].data.as,
         pc'[r] \notin {"hash", "read", "store", "verified"},
         reply'[r] = reply[r] \/ reply'[r] # "redirect" \/ ask[r].kind # "signup"
  PROVE  AccountInv'
<1> SUFFICES ASSUME ~raced, Alone, Unique, SignupsKept, Named, Made
             PROVE  Alone' /\ Unique' /\ SignupsKept' /\ Named' /\ Made'
  BY DEF AccountInv
<1>1. Alone'
  BY DEF Alone, Creating, EmailTaken
<1>2. Unique' /\ SignupsKept'
  BY DEF Unique, SignupsKept, Confirmed
<1>3. Named'
  BY DEF Named, Names, UserOf
<1>4. Made'
  BY DEF Made
<1>5. QED  BY <1>1, <1>2, <1>3, <1>4

\* The steps that only move a request on.
LEMMA QuietSteps ==
  ASSUME TypeInv, AccountInv, NEW r \in Requests,
         \/ Authenticated(r) \/ NotAuthenticated(r) \/ Receive(r)
         \/ Refuse(r) \/ DuplicateEmail(r) \/ HashFails(r) \/ ShowLogin(r) \/ InvalidCredentials(r)
         \/ Unsubscribe(r) \/ GetFeed(r) \/ NoRecord(r) \/ ViewFeed(r) \/ ListFeeds(r)
  PROVE  AccountInv'
<1>1. pc \in [Requests -> PCs] /\ reply \in [Requests -> Replies]
  BY DEF TypeInv, StateTyped
<1>2. CASE Authenticated(r) \/ GetFeed(r)
  BY <1>1, <1>2, QuietKeeps
  DEF Authenticated, GetFeed, Goto, accountVars, feedVars
<1>3. CASE Receive(r)
  BY <1>1, <1>3, QuietKeeps DEF Receive, At, Goto, accountVars, feedVars
<1>4. CASE NotAuthenticated(r) \/ DuplicateEmail(r) \/ HashFails(r) \/ InvalidCredentials(r)
           \/ NoRecord(r) \/ Refuse(r)
  BY <1>1, <1>4, QuietKeeps
  DEF NotAuthenticated, DuplicateEmail, HashFails, InvalidCredentials, NoRecord, Refuse,
      Respond, Goto, accountVars, feedVars
<1>5. CASE ShowLogin(r) \/ ViewFeed(r) \/ ListFeeds(r)
  <2>1. \A s \in Requests : copy'[s].data.user = copy[s].data.user
                            /\ copy'[s].data.as = copy[s].data.as
    BY <1>5, FlashTyped DEF ShowLogin, ViewFeed, ListFeeds
  <2>2. QED
    BY <1>1, <1>5, <2>1, QuietKeeps
    DEF ShowLogin, ViewFeed, ListFeeds, Respond, Goto, accountVars, feedVars
<1>6. CASE Unsubscribe(r)
  <2>1. \A s \in Requests : copy'[s].data.user = copy[s].data.user
                            /\ copy'[s].data.as = copy[s].data.as
    BY <1>6, FlashTyped DEF Unsubscribe
  <2>2. userFeeds' \subseteq userFeeds /\ ask[r].kind # "signup"
    BY <1>6 DEF Unsubscribe, UnsubscribeFromFeed, Handles
  <2>3. QED
    BY <1>1, <1>6, <2>1, <2>2, QuietKeeps
    DEF Unsubscribe, Respond, Goto, accountVars
<1>7. QED  BY <1>2, <1>3, <1>4, <1>5, <1>6

\* The middleware copies sessions, which keeps the accounts they name.
LEMMA SessionSteps ==
  ASSUME TypeInv, AccountInv, NEW r \in Requests,
         (\E q \in Asks[r] : Arrive(r, q)) \/ Commit(r)
  PROVE  AccountInv'
<1> SUFFICES ASSUME ~raced, Alone, Unique, SignupsKept, Named, Made
             PROVE  Alone' /\ Unique' /\ SignupsKept' /\ Named' /\ Made'
  BY DEF AccountInv, Arrive, Commit, accountVars
<1>1. UNCHANGED <<users, scan, num, userFeeds, reply, made>>
  BY DEF Arrive, Commit, accountVars, feedVars
<1>2. /\ pc' = [pc EXCEPT ![r] = pc'[r]] /\ pc'[r] \in {"loaded", "sent"}
      /\ \A s \in Requests : s # r => pc'[s] = pc[s] /\ ask'[s] = ask[s]
  BY DEF Arrive, Commit, At, Goto, TypeInv, StateTyped
<1>3. Alone' /\ Unique' /\ Made'
  BY <1>1, <1>2 DEF Alone, Unique, Made, Creating, EmailTaken
<1>4. SignupsKept'
  BY <1>1, <1>2 DEF SignupsKept, Confirmed, Arrive, Commit, At, TypeInv, Places, Working
<1>5. ASSUME NEW q \in Asks[r], Arrive(r, q)  PROVE Named'
  <2> DEFINE t == cookie[q.browser]
             c == IF t \in DOMAIN store THEN Loaded(t, store[t]) ELSE Loaded(NoToken, NoSession)
  <2>1. c \in Copies
    BY DEF Loaded, Copies, NoSession, Sessions, TypeInv, StateTyped
  <2>2. c.data.user # 0 => Names(c.data.user, c.data.as)
    BY DEF Loaded, NoSession, Named
  <2>3. copy' = [copy EXCEPT ![r] = c]
    BY <1>5 DEF Arrive
  <2> HIDE DEF c
  <2>4. copy'[r] = c /\ \A s \in Requests : s # r => copy'[s] = copy[s]
    BY <2>1, <2>3, CopyChanges
  <2>5. UNCHANGED store
    BY <1>5 DEF Arrive
  <2>6. QED  BY <1>1, <1>2, <2>2, <2>4, <2>5 DEF Named, Names, UserOf
<1>6. CASE Commit(r)
  <2>1. CASE copy[r].modified
    <3> DEFINE t == IF copy[r].token = NoToken THEN r ELSE copy[r].token
    <3>1. /\ copy' = [copy EXCEPT ![r] = [copy[r] EXCEPT !.token = t]]
          /\ store' = [u \in DOMAIN store \cup {t} |-> IF u = t THEN copy[r].data ELSE store[u]]
      BY <1>6, <2>1 DEF Commit
    <3>2. /\ [copy[r] EXCEPT !.token = t] \in Copies
          /\ [copy[r] EXCEPT !.token = t].data = copy[r].data
      BY CopyTyped DEF Copies, Tokens
    <3> HIDE DEF t
    <3>3. \A s \in Requests : copy'[s].data = copy[s].data
      BY <3>1, <3>2, CopyChanges
    <3>4. ASSUME NEW u \in DOMAIN store'
          PROVE  store'[u] = copy[r].data \/ (u \in DOMAIN store /\ store'[u] = store[u])
      <4>1. u \in DOMAIN store \cup {t} /\ store'[u] = IF u = t THEN copy[r].data ELSE store[u]
        BY <3>1, Zenon
      <4>2. QED  BY <4>1
    <3>5. Named'
      BY <1>1, <1>2, <1>6, <3>3, <3>4 DEF Named, Names, UserOf, Commit
    <3>6. QED  BY <1>3, <1>4, <3>5
  <2>2. CASE ~copy[r].modified
    <3>1. Named'
      BY <1>1, <1>2, <1>6, <2>2 DEF Named, Names, UserOf, Commit
    <3>2. QED  BY <1>3, <1>4, <3>1
  <2>3. QED  BY <2>1, <2>2
<1>7. QED  BY <1>3, <1>4, <1>5, <1>6

\* A signup finds its e-mail free, and is then alone in CreateUser; the slice
\* it read is still the one it appends to.
LEMMA CreateSteps ==
  ASSUME TypeInv, AccountInv, NEW r \in Requests, ScanUsers(r) \/ NumberUser(r) \/ ReadUsers(r)
  PROVE  AccountInv'
<1>0. raced => raced'
  <2>1. CASE ScanUsers(r)
    BY <2>1, Zenon DEF ScanUsers
  <2>2. CASE NumberUser(r) \/ ReadUsers(r)
    BY <2>2 DEF NumberUser, ReadUsers
  <2>3. QED  BY <2>1, <2>2
<1> SUFFICES ASSUME ~raced', ~raced, Alone, Unique, SignupsKept, Named, Made
             PROVE  Alone' /\ Unique' /\ SignupsKept' /\ Named' /\ Made'
  BY <1>0, Zenon DEF AccountInv
<1>1. UNCHANGED <<users, feedVars, ask, copy, reply, store, made>>
  BY DEF ScanUsers, NumberUser, ReadUsers
<1>2. /\ pc'[r] \in {"hash", "read", "store"} /\ \A s \in Requests : s # r => pc'[s] = pc[s]
      /\ \A s \in Requests : s # r => num'[s] = num[s] /\ scan'[s] = scan[s]
  BY DEF ScanUsers, NumberUser, ReadUsers, At, Goto, TypeInv, StateTyped
<1>3. Unique' /\ SignupsKept' /\ Made'
  BY <1>1 DEF Unique, SignupsKept, Confirmed, Made, feedVars
<1>4. Named'
  BY <1>1, <1>2 DEF Named, Names, UserOf
<1>5. CASE ScanUsers(r)
  <2>1. pc'[r] = "hash" /\ ~EmailTaken(ask[r].cred[1])
    BY <1>5 DEF ScanUsers, Goto, TypeInv, StateTyped
  <2>2. \A s \in Requests : ~Creating(s)
    BY <1>5 DEF ScanUsers
  <2>3. \A s \in Requests : s # r => ~Creating(s)'
    BY <1>2, <2>2 DEF Creating
  <2>4. Alone'
    BY <1>1, <2>1, <2>3 DEF Alone, Creating, EmailTaken
  <2>5. QED  BY <1>3, <1>4, <2>4
<1>6. CASE NumberUser(r) \/ ReadUsers(r)
  <2>1. /\ Creating(r) /\ pc'[r] \in {"read", "store"}
        /\ num'[r] = Len(users) + 1
        /\ pc'[r] = "store" => scan'[r] = users
    BY <1>6 DEF NumberUser, ReadUsers, At, Goto, TypeInv, StateTyped, Alone, Creating
  <2>2. \A s \in Requests : Creating(s)' => s = r
    BY <1>2, <2>1 DEF Alone, Creating
  <2>3. Alone'
    BY <1>1, <2>1, <2>2 DEF Alone, Creating, EmailTaken
  <2>4. QED  BY <1>3, <1>4, <2>3
<1>7. QED  BY <1>5, <1>6

\* The one step that changes the accounts adds one, at the place its ID says.
LEMMA StoreStep ==
  ASSUME TypeInv, AccountInv, NEW r \in Requests, StoreUser(r)
  PROVE  AccountInv'
<1> SUFFICES ASSUME ~raced, Alone, Unique, SignupsKept, Named, Made
             PROVE  Alone' /\ Unique' /\ SignupsKept' /\ Named' /\ Made'
  BY DEF AccountInv, StoreUser
<1> DEFINE N == Len(users)
           u == [id |-> num[r], cred |-> ask[r].cred]
<1>1. /\ Creating(r) /\ ~EmailTaken(ask[r].cred[1]) /\ num[r] = N + 1 /\ scan[r] = users
      /\ users \in Seq(Users) /\ ask[r].kind = "signup"
  BY DEF StoreUser, Alone, Creating, TypeInv, StateTyped, Places
<1>2. u \in Users /\ u.id = N + 1 /\ u.cred = ask[r].cred
  BY <1>1, AskTyped, UsersTyped DEF Users, StoreUser
<1>3. users' = Append(users, u)
  BY <1>1 DEF StoreUser
<1> HIDE DEF u
<1>4. /\ N \in Nat /\ DOMAIN users = 1..N /\ DOMAIN users' = 1..(N + 1)
      /\ \A n \in 1..N : users'[n] = users[n]
      /\ users'[N + 1] = u
  BY <1>1, <1>2, <1>3
<1> HIDE DEF N
<1>5. /\ UNCHANGED <<userFeeds, ask, num, scan, store, made>>
      /\ pc'[r] = "commit" /\ \A s \in Requests : s # r => pc'[s] = pc[s] /\ reply'[s] = reply[s]
      /\ \A s \in Requests : copy'[s].data.user = copy[s].data.user
                             /\ copy'[s].data.as = copy[s].data.as
  BY FlashTyped DEF StoreUser, Respond, Goto, TypeInv, StateTyped, feedVars
<1>6. Alone'
  <2>1. \A s \in Requests : ~Creating(s)'
    BY <1>1, <1>5 DEF Alone, Creating
  <2>2. QED  BY <2>1 DEF Alone, Creating
<1>7. Unique'
  <2>1. \A n \in 1..N : users[n].id = n /\ users[n].cred[1] # u.cred[1]
    BY <1>1, <1>2, <1>4 DEF Unique, EmailTaken
  <2>2. \A n \in 1..(N + 1) : n \in 1..N \/ n = N + 1
    BY <1>4
  <2>3. \A n \in DOMAIN users' : users'[n].id = n
    BY <1>2, <1>4, <2>1, <2>2
  <2>4. \A m, n \in DOMAIN users' : users'[m].cred[1] = users'[n].cred[1] => m = n
    BY <1>4, <2>1, <2>2 DEF Unique
  <2>5. QED  BY <2>3, <2>4 DEF Unique
<1>8. ASSUME NEW n, NEW c, Names(n, c)  PROVE Names(n, c)'
  BY <1>4, <1>8 DEF Names
<1>9. SignupsKept'
  <2>1. \A s \in Requests : s # r /\ Confirmed(s)' => Confirmed(s)
    BY <1>5 DEF Confirmed
  <2>2. ASSUME NEW s \in Requests, s # r, Confirmed(s)'
        PROVE  \E n \in DOMAIN users' : users'[n].cred = ask'[s].cred
    <3>1. PICK n \in DOMAIN users : users[n].cred = ask[s].cred
      BY <2>1, <2>2 DEF SignupsKept
    <3>2. Names(n, ask[s].cred)'
      BY <1>5, <1>8, <3>1 DEF Names
    <3>3. QED  BY <1>5, <3>2 DEF Names
  <2>3. N + 1 \in DOMAIN users' /\ users'[N + 1].cred = ask'[r].cred
    BY <1>2, <1>4, <1>5
  <2>4. QED  BY <2>2, <2>3 DEF SignupsKept
<1>10. Named'
  <2>1. /\ \A t \in DOMAIN store : store[t].user # 0 => Names(store[t].user, store[t].as)'
        /\ \A s \in Requests : UserOf(s) # 0 => Names(UserOf(s), copy[s].data.as)
    BY <1>5, <1>8 DEF Named, Names
  <2>2. \A s \in Requests : copy'[s].data.user # 0 =>
          /\ copy'[s].data.user \in DOMAIN users'
          /\ users'[copy'[s].data.user].cred = copy'[s].data.as
    BY <1>4, <1>5, <2>1 DEF Names, UserOf
  <2>3. ASSUME NEW s \in Requests, pc'[s] = "verified"
        PROVE  Names(num[s], ask[s].cred)'
    <3>1. pc[s] = "verified"
      BY <1>5, <2>3
    <3>2. Names(num[s], ask[s].cred)
      BY <3>1 DEF Named
    <3>3. QED  BY <1>4, <1>5, <3>2 DEF Names
  <2>4. QED  BY <1>5, <2>1, <2>2, <2>3 DEF Named, Names, UserOf
<1>11. Made'
  <2> SUFFICES ASSUME NEW p \in userFeeds
               PROVE  p[1] \in DOMAIN users' /\ <<users'[p[1]].cred, p[2]>> \in made
    BY <1>5 DEF Made
  <2>1. p[1] \in DOMAIN users /\ <<users[p[1]].cred, p[2]>> \in made
    BY DEF Made
  <2>2. p[1] \in DOMAIN users' /\ users'[p[1]] = users[p[1]]
    BY <1>4, <2>1
  <2>3. QED  BY <2>1, <2>2
<1>12. QED  BY <1>6, <1>7, <1>9, <1>10, <1>11

\* A login names the account it has checked, and its session keeps the name.
LEMMA LoginSteps ==
  ASSUME TypeInv, AccountInv, NEW r \in Requests,
         CheckPassword(r) \/ StartSession(r) \/ EndSession(r)
  PROVE  AccountInv'
<1> SUFFICES ASSUME ~raced, Alone, Unique, SignupsKept, Named, Made
             PROVE  Alone' /\ Unique' /\ SignupsKept' /\ Named' /\ Made'
  BY DEF AccountInv, CheckPassword, StartSession, EndSession, accountVars
<1>1. /\ UNCHANGED <<users, scan, userFeeds, ask, made>>
      /\ pc'[r] \in {"verified", "commit"}
      /\ \A s \in Requests : s # r => pc'[s] = pc[s] /\ num'[s] = num[s] /\ reply'[s] = reply[s]
      /\ ask[r].kind \in {"login", "logout"}
  BY DEF CheckPassword, StartSession, EndSession, accountVars, feedVars, Handles, Respond, Goto,
     TypeInv, StateTyped, Places
<1>2. Alone'
  BY <1>1 DEF Alone, Creating, EmailTaken
<1>3. Unique' /\ SignupsKept' /\ Made'
  BY <1>1 DEF Unique, SignupsKept, Confirmed, Made
<1>4. CASE CheckPassword(r)
  <2>1. PICK n \in DOMAIN users :
          users[n].id = Authenticate(ask[r].cred) /\ users[n].cred = ask[r].cred
    BY <1>4, AuthenticateFinds DEF CheckPassword
  <2>2. num'[r] = n
    BY <1>4, <2>1 DEF CheckPassword, Unique, TypeInv, StateTyped
  <2>3. UNCHANGED <<copy, store>>
    BY <1>4 DEF CheckPassword
  <2>4. Named'
    BY <1>1, <2>1, <2>2, <2>3 DEF Named, Names, UserOf
  <2>5. QED  BY <1>2, <1>3, <2>4
<1>5. ASSUME NEW d \in Sessions, RenewToken(r, d), d.user # 0 => Names(d.user, d.as),
             UNCHANGED num, pc'[r] = "commit"
      PROVE  Named'
  <2>1. /\ copy'[r].data = d /\ \A s \in Requests : s # r => copy'[s] = copy[s]
        /\ \A t \in DOMAIN store' : t \in DOMAIN store /\ store'[t] = store[t]
    BY <1>5, RenewTokenTyped
  <2>2. QED  BY <1>1, <1>5, <2>1 DEF Named, Names, UserOf
<1>6. CASE StartSession(r)
  <2> DEFINE d == [copy[r].data EXCEPT !.user = num[r], !.as = ask[r].cred]
  <2>1. d \in Sessions /\ d.user = num[r] /\ d.as = ask[r].cred
    BY <1>6, CopyTyped, AskTyped DEF StartSession, Sessions, TypeInv, StateTyped
  <2>2. RenewToken(r, d) /\ UNCHANGED num /\ pc'[r] = "commit" /\ Names(num[r], ask[r].cred)
    BY <1>6 DEF StartSession, Respond, Goto, accountVars, Named, TypeInv, StateTyped
  <2> HIDE DEF d
  <2>3. Named'
    BY <1>5, <2>1, <2>2
  <2>4. QED  BY <1>2, <1>3, <2>3
<1>7. CASE EndSession(r)
  <2> DEFINE d == [NoSession EXCEPT !.flash = TRUE]
  <2>1. d \in Sessions /\ d.user = 0
    BY DEF NoSession, Sessions
  <2>2. RenewToken(r, d) /\ UNCHANGED num /\ pc'[r] = "commit"
    BY <1>7 DEF EndSession, Respond, Goto, accountVars, TypeInv, StateTyped
  <2> HIDE DEF d
  <2>3. Named'
    BY <1>5, <2>1, <2>2
  <2>4. QED  BY <1>2, <1>3, <2>3
<1>8. QED  BY <1>4, <1>6, <1>7

\* A subscription is made for the account the session names.
LEMMA SubscribeStep ==
  ASSUME TypeInv, AccountInv, NEW r \in Requests, Subscribe(r)
  PROVE  AccountInv'
<1> SUFFICES ASSUME ~raced, Alone, Unique, SignupsKept, Named, Made
             PROVE  Alone' /\ Unique' /\ SignupsKept' /\ Named' /\ Made'
  BY DEF AccountInv, Subscribe, accountVars
<1> DEFINE i == FeedFor(ask[r].url, "manual").id
<1>1. /\ UNCHANGED <<users, scan, num, ask, store>>
      /\ pc[r] = "routed" /\ ask[r].kind = "create" /\ pc'[r] = "commit"
      /\ \A s \in Requests : s # r => pc'[s] = pc[s] /\ reply'[s] = reply[s]
      /\ userFeeds' = userFeeds \cup {<<UserOf(r), i>>}
      /\ made' = made \cup {<<copy[r].data.as, i>>}
  BY DEF Subscribe, SubscribeToFeed, accountVars, Handles, Respond, Goto, TypeInv, StateTyped
<1> HIDE DEF i
<1>2. \A s \in Requests : copy'[s].data.user = copy[s].data.user
                          /\ copy'[s].data.as = copy[s].data.as
  BY FlashTyped DEF Subscribe
<1>3. Alone' /\ Unique' /\ SignupsKept'
  BY <1>1 DEF Alone, Unique, SignupsKept, Confirmed, Creating, EmailTaken
<1>4. Named'
  BY <1>1, <1>2 DEF Named, Names, UserOf
<1>5. UserOf(r) # 0 /\ Names(UserOf(r), copy[r].data.as)
  BY <1>1 DEF TypeInv, Places, Public, Named
<1>6. Made'
  BY <1>1, <1>5 DEF Made, Names
<1>7. QED  BY <1>3, <1>4, <1>6

\* A step that has nothing to do with accounts.
LEMMA AccountsUntouched ==
  ASSUME AccountInv, UNCHANGED <<accountVars, userFeeds, pc, ask, copy, reply, store, made>>
  PROVE  AccountInv'
  BY DEF AccountInv, Alone, Unique, SignupsKept, Confirmed, Named, Names, Made, Creating,
     EmailTaken, UserOf, accountVars

\* Every step keeps AccountInv.
LEMMA StepKeepsAccounts ==
  ASSUME TypeInv, AccountInv, [WebNext]_vars
  PROVE  AccountInv'
<1>1. ASSUME NEW u \in Found, JobFinds(u)  PROVE AccountInv'
  BY <1>1, AccountsUntouched DEF JobFinds, GetOrCreateFeed
<1>2. CASE UNCHANGED vars
  BY <1>2, AccountsUntouched DEF vars, feedVars, accountVars
<1>3. QED
  BY <1>1, <1>2, QuietSteps, SessionSteps, CreateSteps, StoreStep, LoginSteps, SubscribeStep
  DEF WebNext, Terminated

LEMMA AlwaysAccounts == WebSpec => []AccountInv
<1>1. TypeInv /\ AccountInv /\ [WebNext]_vars => AccountInv'
  BY StepKeepsAccounts
<1>2. QED  BY <1>1, InitAccounts, AlwaysTyped, PTL DEF WebSpec

\* Signups that do not overlap keep e-mails unique and number the accounts by
\* their place, for every number of requests and whatever else they ask for.
THEOREM AccountsStayUnique == WebSpec => []AccountsAreUnique
  BY AlwaysAccounts, AccountInvGives, PTL

\* Every signup that was confirmed has made an account.
THEOREM ConfirmedSignupsAreKept == WebSpec => []SignupIsKept
  BY AlwaysAccounts, AccountInvGives, PTL

\* However the requests of a session overlap, and whichever copy of it is
\* stored last, it names the account whose credentials logged in.
THEOREM SessionsStayTrue == WebSpec => []SessionsKeepAccount
  BY AlwaysAccounts, AccountInvGives, PTL

\* No user is subscribed to what nobody asked for with that account's
\* credentials.
THEOREM SubscriptionsStayTrue == WebSpec => []SubscriptionsAreMade
  BY AlwaysAccounts, AccountInvGives, PTL

------------------------------------------------------------------------------
(***************************************************************************)
(* The page of a new subscription.                                         *)
(***************************************************************************)

\* What a request that redirects has asked for, shows and is logged in as.
Given(r) == <<reply[r], ask[r], shown[r], UserOf(r)>>

\* The middleware leaves every redirect as it is.
LEMMA MiddlewareKeepsGiven ==
  ASSUME TypeInv, NEW r \in Requests,
         \/ \E q \in Asks[r] : Arrive(r, q)
         \/ Authenticated(r) \/ NotAuthenticated(r) \/ Commit(r) \/ Receive(r),
         NEW s \in Requests
  PROVE  /\ reply[s] = "redirect" => UNCHANGED Given(s)
         /\ reply'[s] = "redirect" => reply[s] = "redirect"
<1>1. reply[r] = "redirect" => pc[r] \notin {"idle", "loaded"}
  BY DEF TypeInv, Places, Working
<1>2. ASSUME NEW q \in Asks[r], Arrive(r, q)
      PROVE  s # r => copy'[s] = copy[s]
  BY <1>2 DEF Arrive, TypeInv, StateTyped
<1>3. CASE \E q \in Asks[r] : Arrive(r, q)
  BY <1>1, <1>2, <1>3 DEF Arrive, At, Given, UserOf, TypeInv, StateTyped
<1>4. CASE Authenticated(r) \/ NotAuthenticated(r) \/ Receive(r)
  BY <1>1, <1>4
  DEF Authenticated, NotAuthenticated, Receive, Respond, Given, UserOf, TypeInv, StateTyped
<1>5. CASE Commit(r)
  <2>1. UNCHANGED <<reply, ask, shown>>
    BY <1>5 DEF Commit
  <2>2. copy'[s].data = copy[s].data
    <3> DEFINE t == IF copy[r].token = NoToken THEN r ELSE copy[r].token
    <3>1. /\ [copy[r] EXCEPT !.token = t] \in Copies
          /\ [copy[r] EXCEPT !.token = t].data = copy[r].data
      BY CopyTyped DEF Copies, Tokens
    <3>2. UNCHANGED copy \/ copy' = [copy EXCEPT ![r] = [copy[r] EXCEPT !.token = t]]
      BY <1>5 DEF Commit
    <3> HIDE DEF t
    <3>3. QED  BY <3>1, <3>2, CopyChanges
  <2>3. QED  BY <2>1, <2>2 DEF Given, UserOf
<1>6. QED  BY <1>3, <1>4, <1>5

\* A handler responds to its own request, which had no response.
LEMMA HandlersKeepGiven ==
  ASSUME TypeInv, NEW r \in Requests, NEW s \in Requests,
         \/ Refuse(r) \/ DuplicateEmail(r) \/ ScanUsers(r) \/ HashFails(r)
         \/ NumberUser(r) \/ ReadUsers(r) \/ StoreUser(r)
         \/ ShowLogin(r) \/ CheckPassword(r) \/ InvalidCredentials(r)
         \/ StartSession(r) \/ EndSession(r)
         \/ Subscribe(r) \/ Unsubscribe(r)
         \/ GetFeed(r) \/ NoRecord(r) \/ ViewFeed(r) \/ ListFeeds(r)
  PROVE  /\ reply[s] = "redirect" => UNCHANGED Given(s)
         /\ reply'[s] = "redirect" /\ ask'[s].kind = "create" =>
              reply[s] = "redirect" \/ (s = r /\ Subscribe(r))
<1>1. pc[r] \in Working /\ reply[r] = "none"
  BY DEF Refuse, DuplicateEmail, ScanUsers, HashFails, NumberUser, ReadUsers, StoreUser, ShowLogin,
     CheckPassword, InvalidCredentials, StartSession, EndSession, Subscribe, Unsubscribe, GetFeed,
     NoRecord, ViewFeed, ListFeeds, Handles, At, TypeInv, Places, Working
<1>2. s # r => copy'[s] = copy[s]
  BY DEF Refuse, DuplicateEmail, ScanUsers, HashFails, NumberUser, ReadUsers, StoreUser, ShowLogin,
     CheckPassword, InvalidCredentials, StartSession, EndSession, Subscribe, Unsubscribe, GetFeed,
     NoRecord, ViewFeed, ListFeeds, PutFlash, PopFlash, RenewToken, TypeInv, StateTyped
<1>3. /\ s # r => reply'[s] = reply[s] /\ shown'[s] = shown[s]
      /\ UNCHANGED ask
  BY DEF Refuse, DuplicateEmail, ScanUsers, HashFails, NumberUser, ReadUsers, StoreUser, ShowLogin,
     CheckPassword, InvalidCredentials, StartSession, EndSession, Subscribe, Unsubscribe, GetFeed,
     NoRecord, ViewFeed, ListFeeds, Respond, TypeInv, StateTyped
<1>4. ~Subscribe(r) => reply'[r] # "redirect" \/ ask[r].kind # "create"
  BY <1>1
  DEF Refuse, DuplicateEmail, ScanUsers, HashFails, NumberUser, ReadUsers, StoreUser, ShowLogin,
     CheckPassword, InvalidCredentials, StartSession, EndSession, Unsubscribe, GetFeed,
     NoRecord, ViewFeed, ListFeeds, Handles, Respond, Creating, TypeInv, StateTyped, Places
<1>5. QED  BY <1>1, <1>2, <1>3, <1>4 DEF Given, UserOf

\* No feed changes or disappears, and only an unsubscription takes one away
\* from a user.
LEMMA FeedsGrow ==
  ASSUME TypeInv, FeedInv, [WebNext]_vars
  PROVE  /\ DOMAIN feedsByID \subseteq DOMAIN feedsByID'
         /\ \A i \in DOMAIN feedsByID : feedsByID'[i] = feedsByID[i]
         /\ \A p \in userFeeds \ userFeeds' :
              \E r \in Requests : Unsubscribe(r) /\ p = <<UserOf(r), ask[r].feed>>
<1>1. ASSUME NEW r \in Requests, Subscribe(r)
      PROVE  /\ DOMAIN feedsByID \subseteq DOMAIN feedsByID' /\ userFeeds \subseteq userFeeds'
             /\ \A i \in DOMAIN feedsByID : feedsByID'[i] = feedsByID[i]
  <2>1. ask[r].url \in URLs
    BY <1>1, AskTyped DEF Subscribe, Handles
  <2>2. GetOrCreate(ask[r].url, "manual") /\ userFeeds \subseteq userFeeds'
    BY <1>1 DEF Subscribe, SubscribeToFeed
  <2>3. QED  BY <2>1, <2>2, GetOrCreateIndexes DEF FeedInv
<1>2. ASSUME NEW u \in Found, JobFinds(u)
      PROVE  /\ DOMAIN feedsByID \subseteq DOMAIN feedsByID' /\ UNCHANGED userFeeds
             /\ \A i \in DOMAIN feedsByID : feedsByID'[i] = feedsByID[i]
  <2>1. u \in URLs /\ GetOrCreate(u, "discovered") /\ UNCHANGED userFeeds
    BY <1>2, WebAssumption DEF WebAssumption, JobFinds, GetOrCreateFeed
  <2>2. QED  BY <2>1, GetOrCreateIndexes DEF FeedInv
<1>3. ASSUME NEW r \in Requests, Unsubscribe(r)
      PROVE  UNCHANGED feedsByID /\ \A p \in userFeeds \ userFeeds' : p = <<UserOf(r), ask[r].feed>>
  BY <1>3 DEF Unsubscribe, UnsubscribeFromFeed
<1>4. CASE \E r \in Requests : Subscribe(r) \/ Unsubscribe(r)
  BY <1>1, <1>3, <1>4
<1>5. CASE \E u \in Found : JobFinds(u)
  BY <1>2, <1>5
<1>6. CASE UNCHANGED feedVars
  BY <1>6 DEF feedVars
<1>7. \/ \E r \in Requests : Subscribe(r) \/ Unsubscribe(r)
      \/ \E u \in Found : JobFinds(u)
      \/ UNCHANGED feedVars
  BY DEF WebNext, Terminated, vars, Arrive, Authenticated, NotAuthenticated, Commit, Receive, Refuse,
     DuplicateEmail, ScanUsers, HashFails, NumberUser, ReadUsers, StoreUser, ShowLogin,
     CheckPassword, InvalidCredentials, StartSession, EndSession, GetFeed, NoRecord, ViewFeed,
     ListFeeds
<1>8. QED  BY <1>4, <1>5, <1>6, <1>7

\* A redirect stays as it was given, and only Subscribe gives one for a new
\* subscription.
LEMMA StepKeepsGiven ==
  ASSUME TypeInv, [WebNext]_vars, NEW s \in Requests
  PROVE  /\ reply[s] = "redirect" => UNCHANGED Given(s)
         /\ reply'[s] = "redirect" /\ ask'[s].kind = "create" =>
              reply[s] = "redirect" \/ Subscribe(s)
<1>1. CASE \E u \in Found : JobFinds(u)
  BY <1>1 DEF JobFinds, Given, UserOf
<1>2. CASE UNCHANGED vars
  BY <1>2 DEF vars, Given, UserOf
<1>3. QED
  BY <1>1, <1>2, MiddlewareKeepsGiven, HandlersKeepGiven DEF WebNext, Terminated

\* CreatedIsThere is inductive over the types and the indices.
LEMMA StepKeepsCreated ==
  ASSUME TypeInv, FeedInv, CreatedIsThere, [WebNext]_vars
  PROVE  CreatedIsThere'
<1> DEFINE Gone(u, i) == \E s \in Requests :
             /\ reply[s] = "redirect" /\ ask[s].kind = "unsubscribe"
             /\ ask[s].feed = i /\ UserOf(s) = u
<1>1. ASSUME NEW u, NEW i, Gone(u, i)  PROVE Gone(u, i)'
  <2>1. PICK s \in Requests : /\ reply[s] = "redirect" /\ ask[s].kind = "unsubscribe"
                              /\ ask[s].feed = i /\ UserOf(s) = u
    BY <1>1
  <2>2. reply'[s] = reply[s] /\ ask'[s] = ask[s] /\ UserOf(s)' = UserOf(s)
    BY <2>1, StepKeepsGiven DEF Given
  <2>3. QED  BY <2>1, <2>2
<1>2. ASSUME NEW u, NEW i, <<u, i>> \in userFeeds, <<u, i>> \notin userFeeds'  PROVE Gone(u, i)'
  <2>1. PICK r \in Requests : Unsubscribe(r) /\ <<u, i>> = <<UserOf(r), ask[r].feed>>
    BY <1>2, FeedsGrow
  <2>2. u = UserOf(r) /\ i = ask[r].feed
    BY <2>1
  <2>3. /\ reply'[r] = "redirect" /\ UNCHANGED ask /\ ask[r].kind = "unsubscribe"
        /\ UserOf(r)' = UserOf(r)
    BY <2>1, FlashTyped DEF Unsubscribe, Respond, Handles, TypeInv, StateTyped, UserOf
  <2>4. QED  BY <2>2, <2>3
<1> HIDE DEF Gone
<1> SUFFICES ASSUME NEW r \in Requests,
                    ask'[r] # NoQuestion, reply'[r] = "redirect", ask'[r].kind = "create",
                    NEW i \in shown'[r], NEW u, u = UserOf(r)'
             PROVE  /\ i \in DOMAIN feedsByID' /\ feedsByID'[i].url = ask'[r].url
                    /\ <<u, i>> \in userFeeds' \/ Gone(u, i)'
  BY DEF CreatedIsThere, Gone
<1>3. CASE reply[r] = "redirect"
  <2>1. reply'[r] = reply[r] /\ ask'[r] = ask[r] /\ shown'[r] = shown[r] /\ u = UserOf(r)
    BY <1>3, StepKeepsGiven DEF Given
  <2>2. /\ i \in DOMAIN feedsByID /\ feedsByID[i].url = ask[r].url
        /\ <<u, i>> \in userFeeds \/ Gone(u, i)
    BY <1>3, <2>1 DEF CreatedIsThere, Gone
  <2>3. <<u, i>> \in userFeeds' \/ Gone(u, i)'
    BY <1>1, <1>2, <2>2
  <2>4. i \in DOMAIN feedsByID' /\ feedsByID'[i] = feedsByID[i]
    BY <2>2, FeedsGrow
  <2>5. QED  BY <2>1, <2>2, <2>3, <2>4
<1>4. CASE reply[r] # "redirect"
  <2> DEFINE f == FeedFor(ask[r].url, "manual")
  <2>1. Subscribe(r)
    BY <1>4, StepKeepsGiven
  <2>2. ask[r].url \in URLs
    BY <2>1, AskTyped DEF Subscribe, Handles
  <2>3. f.id \in DOMAIN feedsByID' /\ feedsByID'[f.id] = f /\ f.url = ask[r].url
    BY <2>1, <2>2, GetOrCreateIndexes DEF Subscribe, SubscribeToFeed, FeedInv
  <2>4. /\ shown' = [shown EXCEPT ![r] = {f.id}] /\ <<UserOf(r), f.id>> \in userFeeds'
        /\ UNCHANGED ask
    BY <2>1 DEF Subscribe, SubscribeToFeed
  <2>5. u = UserOf(r)
    BY <2>1, FlashTyped DEF Subscribe, UserOf
  <2> HIDE DEF f
  <2>6. i = f.id
    BY <2>4 DEF TypeInv, StateTyped
  <2>7. QED  BY <2>3, <2>4, <2>5, <2>6
<1>5. QED  BY <1>3, <1>4

\* The page a new subscription leads to exists and is of the feed that was
\* asked for, and its user is subscribed, unless the user has unsubscribed.
THEOREM NewSubscriptionsAreThere == WebSpec => []CreatedIsThere
<1>1. WebInit => CreatedIsThere
  BY DEF WebInit, CreatedIsThere
<1>2. TypeInv /\ FeedInv /\ CreatedIsThere /\ [WebNext]_vars => CreatedIsThere'
  BY StepKeepsCreated
<1>3. QED  BY <1>1, <1>2, AlwaysTyped, PTL DEF WebSpec
=============================================================================
