SPECIFICATION WebSpec
CONSTANTS
  b1 = b1
  b2 = b2
  e1 = e1
  e2 = e2
  p1 = p1
  p2 = p2
  p3 = p3
  u1 = u1
  u2 = u2
  q1 = q1
  q2 = q2
  q3 = q3
  q4 = q4
  Emails = {e1, e2}
  Passwords = {p1, p2, p3}
  LongPasswords = {p3}
  TestUser <- MCTestUser
  URLs = {u1, u2}
  KnownFeeds <- MCKnown
  Requests = {q1, q2, q3, q4}
  Browsers = {b1, b2}
  Asks <- MCAsks
  NoQuestion = NoQuestion
  NoToken = NoToken
  NoCred = NoCred
  Found = {u2}
INVARIANTS
  WebTypeOK
  FeedsIndexed
  AccountsAreUnique
  SignupIsKept
  SessionsKeepAccount
  SubscriptionsAreMade
  CreatedIsThere
PROPERTY ImplementsCatalogue
