------------------------------- MODULE WebApp -------------------------------
(***************************************************************************)
(* internal/server: the handlers of accounts and subscriptions, with the   *)
(* middleware around them (sessionManager.LoadAndSave, authenticate,       *)
(* requireAuthentication), over UserService and FeedService.               *)
(*                                                                         *)
(* Every request runs in its own goroutine.  LoadAndSave gives it a copy   *)
(* of the session its cookie names; the handler changes the copy, and the  *)
(* whole copy is written back when the handler is done, if it changed.     *)
(* So requests of one browser that overlap overwrite each other's session, *)
(* and a session is only as good as the copy that was stored last.         *)
(*                                                                         *)
(* A token is named by the request that generated it: each generates at    *)
(* most one.  The searches are in DiscoveryService; what their jobs find   *)
(* becomes a feed here (JobFinds).  CSRF tokens decide whether a request   *)
(* gets this far; requests that fail there are left out.                   *)
(***************************************************************************)
EXTENDS UserService, FeedService

CONSTANTS
  Requests,
  Browsers,
  Asks,        \* Asks[r]: what request r may ask for
  NoQuestion,  \* what a request asks that has not arrived
  NoToken,     \* no cookie, or a session without a token yet
  NoCred,      \* nobody is logged in
  Found        \* the URLs at which jobs may find a feed

\* "malformed" is a signup whose form can not be decoded or is not valid.
Public == {"signup", "malformed", "login", "loginPage"}
Kinds  == Public \cup {"logout", "create", "unsubscribe", "view", "list", "home"}

Questions ==
  [kind : Kinds, browser : Browsers, cred : Credentials, url : URLs, feed : IDs]

ASSUME WebAssumption ==
  /\ Asks \in [Requests -> SUBSET Questions]
  /\ NoToken \notin Requests
  /\ NoCred \notin Credentials
  /\ Found \subseteq URLs

VARIABLES
  pc,
  ask,      \* what each request asks for
  copy,     \* its session data
  scan,     \* the slice of users CreateUser is about to append to
  num,      \* the ID CreateUser has chosen, or Authenticate has returned
  reply,    \* its response
  shown,    \* the feeds the response shows or leads to
  store,    \* the session store: token -> data, for the tokens it knows
  cookie,   \* the token each browser sends
  raced,    \* history: two signups were in CreateUser together
  made      \* history: <<credentials, feed>> of the subscriptions asked for

vars == <<users, feedVars, pc, ask, copy, scan, num, reply, shown, store, cookie, raced, made>>

Tokens == Requests

\* Session data.  "as" is history: the credentials the user logged in with.
NoSession == [user |-> 0, flash |-> FALSE, as |-> NoCred]
Sessions  == [user : Nat, flash : BOOLEAN, as : Credentials \cup {NoCred}]

PCs ==
  {"idle", "loaded", "routed", "hash", "read", "store", "verified", "found",
   "commit", "sent", "answered"}

Replies == {"none", "redirect", "show", "notFound", "rejected", "login", "error"}

WebTypeOK ==
  /\ users \in Seq(Users)
  /\ FeedTypeOK
  /\ pc \in [Requests -> PCs]
  /\ ask \in [Requests -> Questions \cup {NoQuestion}]
  /\ \A r \in Requests : pc[r] # "idle" => ask[r] \in Asks[r]
  /\ copy \in [Requests -> [token : Tokens \cup {NoToken}, data : Sessions, modified : BOOLEAN]]
  /\ scan \in [Requests -> Seq(Users)]
  /\ num \in [Requests -> Nat]
  /\ reply \in [Requests -> Replies]
  /\ shown \in [Requests -> SUBSET IDs]
  /\ DOMAIN store \subseteq Tokens
  /\ \A t \in DOMAIN store : store[t] \in Sessions
  /\ cookie \in [Browsers -> Tokens \cup {NoToken}]
  /\ raced \in BOOLEAN
  /\ made \subseteq (Credentials \cup {NoCred}) \X IDs

Loaded(t, d) == [token |-> t, data |-> d, modified |-> FALSE]

WebInit ==
  /\ UserInit
  /\ FeedInit
  /\ pc = [r \in Requests |-> "idle"]
  /\ ask = [r \in Requests |-> NoQuestion]
  /\ copy = [r \in Requests |-> Loaded(NoToken, NoSession)]
  /\ scan = [r \in Requests |-> <<>>]
  /\ num = [r \in Requests |-> 0]
  /\ reply = [r \in Requests |-> "none"]
  /\ shown = [r \in Requests |-> {}]
  /\ store = [t \in {} |-> NoSession]
  /\ cookie = [b \in Browsers |-> NoToken]
  /\ raced = FALSE
  /\ made = {}

Goto(r, l) == pc' = [pc EXCEPT ![r] = l]

At(r, l, m) == pc[r] = l /\ Goto(r, m)

\* The middleware has let request r through to the handler of kind k.
Handles(r, k) == pc[r] = "routed" /\ ask[r].kind = k

Respond(r, s) == Goto(r, "commit") /\ reply' = [reply EXCEPT ![r] = s]

\* s.getUserID(r)
UserOf(r) == copy[r].data.user

\* sessionManager.Put(..., "flash", ...), PopString(..., "flash")
PutFlash(r) == copy' = [copy EXCEPT ![r].data.flash = TRUE, ![r].modified = TRUE]
PopFlash(r) == copy' = [copy EXCEPT ![r].data.flash = FALSE,
                                    ![r].modified = @ \/ copy[r].data.flash]

\* sessionManager.RenewToken: the old token is forgotten at once; the data are
\* stored under the new one with the response.
RenewToken(r, d) ==
  /\ store' = [t \in DOMAIN store \ {copy[r].token} |-> store[t]]
  /\ copy' = [copy EXCEPT ![r] = [token |-> r, data |-> d, modified |-> TRUE]]

\* In CreateUser, past the scan.
Creating(r) == pc[r] \in {"hash", "read", "store"}

accountVars == <<users, scan, num, raced>>

------------------------------------------------------------------------------
(***************************************************************************)
(* Wrong variants: bugs this code could plausibly have, each the form of   *)
(* one action below with one thing changed.  They show that the properties *)
(* tell such bugs from the code; no specification uses them.               *)
(***************************************************************************)

\* CreateUser does not look for the e-mail.
ScanNothing(r) ==
  /\ Handles(r, "signup")
  /\ Goto(r, "hash")
  /\ raced' = (raced \/ \E s \in Requests : Creating(s))
  /\ UNCHANGED <<users, feedVars, ask, copy, scan, num, reply, shown, store, cookie, made>>

\* CreateUser leaves the ID at its zero value.
NumberForgotten(r) ==
  /\ At(r, "hash", "read")
  /\ ask[r].cred[2] \notin LongPasswords
  /\ UNCHANGED <<users, feedVars, ask, copy, scan, num, reply, shown, store, cookie, raced, made>>

\* CreateUser does not assign the result of append.
StoreForgotten(r) ==
  /\ pc[r] = "store"
  /\ PutFlash(r)
  /\ Respond(r, "redirect")
  /\ UNCHANGED <<users, feedVars, ask, scan, num, shown, store, cookie, raced, made>>

\* The login handler ignores the error and asks for the user by e-mail.
CheckEmailOnly(r) ==
  /\ Handles(r, "login")
  /\ EmailTaken(ask[r].cred[1])
  /\ num' = [num EXCEPT ![r] = users[CHOOSE n \in DOMAIN users :
                                       users[n].cred[1] = ask[r].cred[1]].id]
  /\ Goto(r, "verified")
  /\ UNCHANGED <<users, feedVars, ask, copy, scan, reply, shown, store, cookie, raced, made>>

------------------------------------------------------------------------------
(* The middleware *)

\* sessionManager.LoadAndSave: a token the store does not know is dropped.
Arrive(r, q) ==
  /\ q \in Asks[r]
  /\ At(r, "idle", "loaded")
  /\ ask' = [ask EXCEPT ![r] = q]
  /\ LET t == cookie[q.browser] IN
       copy' = [copy EXCEPT ![r] = IF t \in DOMAIN store THEN Loaded(t, store[t])
                                                         ELSE Loaded(NoToken, NoSession)]
  /\ UNCHANGED <<accountVars, feedVars, reply, shown, store, cookie, made>>

\* authenticate looks the session's user up, requireAuthentication lets the
\* request through.  Signup and login are open to all.
Authenticated(r) ==
  /\ pc[r] = "loaded"
  /\ Exists(UserOf(r)) \/ ask[r].kind \in Public
  /\ Goto(r, "routed")
  /\ UNCHANGED <<accountVars, feedVars, ask, copy, reply, shown, store, cookie, made>>

\* Otherwise "/" is the landing page, and the rest leads to the login.
NotAuthenticated(r) ==
  /\ pc[r] = "loaded"
  /\ ~Exists(UserOf(r))
  /\ ask[r].kind \notin Public
  /\ Respond(r, IF ask[r].kind = "home" THEN "show" ELSE "login")
  /\ UNCHANGED <<accountVars, feedVars, ask, copy, shown, store, cookie, made>>

\* LoadAndSave, when the handler is done: a modified session is stored whole.
Commit(r) ==
  /\ At(r, "commit", "sent")
  /\ IF copy[r].modified
     THEN LET t == IF copy[r].token = NoToken THEN r ELSE copy[r].token IN
            /\ store' = [u \in DOMAIN store \cup {t} |-> IF u = t THEN copy[r].data ELSE store[u]]
            /\ copy' = [copy EXCEPT ![r].token = t]
     ELSE UNCHANGED <<store, copy>>
  /\ UNCHANGED <<accountVars, feedVars, ask, reply, shown, cookie, made>>

\* The browser gets the response, with a cookie if the session was stored.
Receive(r) ==
  /\ At(r, "sent", "answered")
  /\ cookie' = IF copy[r].modified THEN [cookie EXCEPT ![ask[r].browser] = copy[r].token]
                                   ELSE cookie
  /\ UNCHANGED <<accountVars, feedVars, ask, copy, reply, shown, store, made>>

------------------------------------------------------------------------------
(* handleUserSignUpPost and CreateUser *)

Refuse(r) ==
  /\ Handles(r, "malformed")
  /\ Respond(r, "rejected")
  /\ UNCHANGED <<accountVars, feedVars, ask, copy, shown, store, cookie, made>>

DuplicateEmail(r) ==
  /\ Handles(r, "signup")
  /\ EmailTaken(ask[r].cred[1])
  /\ Respond(r, "rejected")
  /\ UNCHANGED <<accountVars, feedVars, ask, copy, shown, store, cookie, made>>

ScanUsers(r) ==
  /\ Handles(r, "signup")
  /\ ~EmailTaken(ask[r].cred[1])
  /\ Goto(r, "hash")
  /\ raced' = (raced \/ \E s \in Requests : Creating(s))
  /\ UNCHANGED <<users, feedVars, ask, copy, scan, num, reply, shown, store, cookie, made>>

\* bcrypt refuses the password: the handler answers with its error.
HashFails(r) ==
  /\ pc[r] = "hash"
  /\ ask[r].cred[2] \in LongPasswords
  /\ Respond(r, "error")
  /\ UNCHANGED <<accountVars, feedVars, ask, copy, shown, store, cookie, made>>

\* The password is hashed, then ID: len(s.users) + 1.
NumberUser(r) ==
  /\ At(r, "hash", "read")
  /\ ask[r].cred[2] \notin LongPasswords
  /\ num' = [num EXCEPT ![r] = Len(users) + 1]
  /\ UNCHANGED <<users, feedVars, ask, copy, scan, reply, shown, store, cookie, raced, made>>

\* append reads the slice ...
ReadUsers(r) ==
  /\ At(r, "read", "store")
  /\ scan' = [scan EXCEPT ![r] = users]
  /\ UNCHANGED <<users, feedVars, ask, copy, num, reply, shown, store, cookie, raced, made>>

\* ... and its result is stored: the signup is confirmed.
StoreUser(r) ==
  /\ pc[r] = "store"
  /\ users' = Append(scan[r], [id |-> num[r], cred |-> ask[r].cred])
  /\ PutFlash(r)
  /\ Respond(r, "redirect")
  /\ UNCHANGED <<feedVars, ask, scan, num, shown, store, cookie, raced, made>>

------------------------------------------------------------------------------
(* handleUserLogin, handleUserLoginPost, handleUserLogoutPost *)

ShowLogin(r) ==
  /\ Handles(r, "loginPage")
  /\ PopFlash(r)
  /\ Respond(r, "show")
  /\ UNCHANGED <<accountVars, feedVars, ask, shown, store, cookie, made>>

CheckPassword(r) ==
  /\ Handles(r, "login")
  /\ Authenticate(ask[r].cred) # 0
  /\ num' = [num EXCEPT ![r] = Authenticate(ask[r].cred)]
  /\ Goto(r, "verified")
  /\ UNCHANGED <<users, feedVars, ask, copy, scan, reply, shown, store, cookie, raced, made>>

InvalidCredentials(r) ==
  /\ Handles(r, "login")
  /\ Authenticate(ask[r].cred) = 0
  /\ Respond(r, "rejected")
  /\ UNCHANGED <<accountVars, feedVars, ask, copy, shown, store, cookie, made>>

StartSession(r) ==
  /\ pc[r] = "verified"
  /\ RenewToken(r, [copy[r].data EXCEPT !.user = num[r], !.as = ask[r].cred])
  /\ Respond(r, "redirect")
  /\ UNCHANGED <<accountVars, feedVars, ask, shown, cookie, made>>

EndSession(r) ==
  /\ Handles(r, "logout")
  /\ RenewToken(r, [NoSession EXCEPT !.flash = TRUE])
  /\ Respond(r, "redirect")
  /\ UNCHANGED <<accountVars, feedVars, ask, shown, cookie, made>>

------------------------------------------------------------------------------
(* The handlers of feeds *)

\* handleFeedCreatePost and handleFeedSubscribe.
Subscribe(r) ==
  /\ Handles(r, "create")
  /\ SubscribeToFeed(UserOf(r), ask[r].url)
  /\ LET f == FeedFor(ask[r].url, "manual") IN
       /\ shown' = [shown EXCEPT ![r] = {f.id}]
       /\ made' = made \cup {<<copy[r].data.as, f.id>>}
  /\ PutFlash(r)
  /\ Respond(r, "redirect")
  /\ UNCHANGED <<accountVars, ask, store, cookie>>

\* handleFeedUnsubscribe
Unsubscribe(r) ==
  /\ Handles(r, "unsubscribe")
  /\ UnsubscribeFromFeed(UserOf(r), ask[r].feed)
  /\ PutFlash(r)
  /\ Respond(r, "redirect")
  /\ UNCHANGED <<accountVars, ask, shown, store, cookie, made>>

\* handleFeedView looks for the feed, and then for the subscription.
GetFeed(r) ==
  /\ Handles(r, "view")
  /\ GetFeedByID(ask[r].feed)
  /\ Goto(r, "found")
  /\ UNCHANGED <<accountVars, feedVars, ask, copy, reply, shown, store, cookie, made>>

NoRecord(r) ==
  /\ \/ Handles(r, "view") /\ ~GetFeedByID(ask[r].feed)
     \/ pc[r] = "found" /\ ~IsUserSubscribed(UserOf(r), ask[r].feed)
  /\ Respond(r, "notFound")
  /\ UNCHANGED <<accountVars, feedVars, ask, copy, shown, store, cookie, made>>

ViewFeed(r) ==
  /\ pc[r] = "found"
  /\ IsUserSubscribed(UserOf(r), ask[r].feed)
  /\ shown' = [shown EXCEPT ![r] = {ask[r].feed}]
  /\ PopFlash(r)
  /\ Respond(r, "show")
  /\ UNCHANGED <<accountVars, feedVars, ask, store, cookie, made>>

\* handleFeedsList; handleRootView shows the same and leaves the flash.
ListFeeds(r) ==
  /\ \/ Handles(r, "list") /\ PopFlash(r)
     \/ Handles(r, "home") /\ UNCHANGED copy
  /\ shown' = [shown EXCEPT ![r] = GetUserFeeds(UserOf(r))]
  /\ Respond(r, "show")
  /\ UNCHANGED <<accountVars, feedVars, ask, store, cookie, made>>

\* A discovery job persists a feed.
JobFinds(u) ==
  /\ GetOrCreateFeed(u)
  /\ UNCHANGED <<accountVars, pc, ask, copy, reply, shown, store, cookie, made>>

------------------------------------------------------------------------------
Terminated == (\A r \in Requests : pc[r] = "answered") /\ UNCHANGED vars

WebNext ==
  \/ \E r \in Requests :
       \/ \E q \in Asks[r] : Arrive(r, q)
       \/ Authenticated(r) \/ NotAuthenticated(r) \/ Commit(r) \/ Receive(r)
       \/ Refuse(r) \/ DuplicateEmail(r) \/ ScanUsers(r) \/ HashFails(r)
       \/ NumberUser(r) \/ ReadUsers(r) \/ StoreUser(r)
       \/ ShowLogin(r) \/ CheckPassword(r) \/ InvalidCredentials(r)
       \/ StartSession(r) \/ EndSession(r)
       \/ Subscribe(r) \/ Unsubscribe(r)
       \/ GetFeed(r) \/ NoRecord(r) \/ ViewFeed(r) \/ ListFeeds(r)
  \/ \E u \in Found : JobFinds(u)
  \/ Terminated

WebSpec == WebInit /\ [][WebNext]_vars

------------------------------------------------------------------------------
(* Properties *)

\* Signups that do not overlap keep e-mails unique, and an account's ID is its
\* place in the slice, whatever other requests do meanwhile.
AccountsAreUnique ==
  ~raced =>
    /\ \A n \in DOMAIN users : users[n].id = n
    /\ \A m, n \in DOMAIN users : users[m].cred[1] = users[n].cred[1] => m = n

\* A signup that was confirmed ("Your signup was successful. Please log in.",
\* server.go:443) has made an account, if signups did not overlap.
SignupIsKept ==
  ~raced =>
    \A r \in Requests :
      reply[r] = "redirect" /\ ask[r].kind = "signup" =>
        \E n \in DOMAIN users : users[n].cred = ask[r].cred

\* The session data of a browser, and every copy of it a request works with,
\* name the account whose credentials logged in, however the requests of a
\* session overlap and whichever copy of it is stored last.
SessionsKeepAccount ==
  ~raced =>
    \A d \in {store[t] : t \in DOMAIN store} \cup {copy[r].data : r \in Requests} :
      d.user # 0 => d.user \in DOMAIN users /\ users[d.user].cred = d.as

\* A user has only the subscriptions that requests asked for which were logged
\* in with the credentials of that account.
SubscriptionsAreMade ==
  ~raced =>
    \A p \in userFeeds :
      p[1] \in DOMAIN users /\ <<users[p[1]].cred, p[2]>> \in made

\* The page a new subscription leads to ("/feeds/%d", server.go:307) exists
\* and is of the feed that was asked for, and its user is subscribed, unless
\* a request of the same user has unsubscribed since.
CreatedIsThere ==
  \A r \in Requests : ask[r] # NoQuestion /\ reply[r] = "redirect" /\ ask[r].kind = "create" =>
    \A i \in shown[r] :
      /\ i \in DOMAIN feedsByID /\ feedsByID[i].url = ask[r].url
      /\ \/ <<UserOf(r), i>> \in userFeeds
         \/ \E s \in Requests :
              /\ reply[s] = "redirect" /\ ask[s].kind = "unsubscribe"
              /\ ask[s].feed = i /\ UserOf(s) = UserOf(r)

\* Whatever handlers and jobs do at the same time, the feeds and subscriptions
\* are the catalogue models.FeedService describes: a URL is added once and
\* keeps its source, and no step moves or drops a subscription but its own.
ImplementsCatalogue == FC!CatalogueSpec

------------------------------------------------------------------------------
(* What the documentation or the comments say and the code does not do *)

\* "Email address is already in use" (server.go:427): no two accounts have the
\* same e-mail.
EmailsAreUnique ==
  \A m, n \in DOMAIN users : users[m].cred[1] = users[n].cred[1] => m = n

=============================================================================
