------------------------------ MODULE MCWebApp ------------------------------
(* Instances of WebApp for TLC. *)
EXTENDS WebApp, FiniteSets

CONSTANTS b1, b2, e1, e2, p1, p2, p3, u1, u2, q1, q2, q3, q4

MCTestUser == <<e1, p1>>
MCKnown    == <<u1>>

Q(k, b, c, u, f) == [kind |-> k, browser |-> b, cred |-> c, url |-> u, feed |-> f]

\* One browser logs in as the test user and uses its session in three requests
\* that may overlap: two subscriptions, and an unsubscription, a page or a
\* logout; or two signups of one e-mail, or a signup and a login, overlap with
\* that, and the new user subscribes.
MCAsks ==
  [r \in Requests |->
     CASE r = q1 -> {Q("login", b1, <<e1, p1>>, u1, 1)}
       [] r = q2 -> {Q("create", b, <<e1, p1>>, u2, 1) : b \in {b1, b2}}
       [] r = q3 -> {Q(k, b1, <<e1, p1>>, u1, 2) :
                       k \in {"unsubscribe", "view", "list", "home", "logout",
                              "loginPage", "malformed"}}
                    \cup {Q("signup", b2, <<e2, p>>, u1, 1) : p \in {p2, p3}}
                    \cup {Q("login", b2, <<e2, p>>, u1, 1) : p \in {p1, p2}}
       [] r = q4 -> {Q("signup", b2, <<e2, p1>>, u1, 1), Q("logout", b1, <<e1, p1>>, u1, 1)}
                    \cup {Q("create", b, <<e1, p1>>, u, 1) : b \in {b1, b2}, u \in {u1, u2}}]

\* Two browsers sign up with one e-mail.
MCSignups ==
  [r \in Requests |->
     IF r = q1 THEN {Q("signup", b1, <<e2, p1>>, u1, 1)} ELSE {Q("signup", b2, <<e2, p2>>, u1, 1)}]

=============================================================================
