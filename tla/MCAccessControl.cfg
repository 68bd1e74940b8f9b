SPECIFICATION AccessSpec
CONSTANTS
  t1 = t1
  t2 = t2
  admin = admin
  bob = bob
  pw1 = pw1
  pw2 = pw2
  team = team
  shop = shop
  Threads <- MCThreads
  Users = {admin, bob}
  Admin = admin
  Passwords = {pw1, pw2}
  AdminPassword = pw1
  Groups = {team}
  Dbs = {shop}
  Tables = {}
  Keys = {}
  Statements <- MCStatements
  NoUser = NoUser
  NoDb = NoDb
  NoToken = NoToken
  Ttl = 1
  MaxTime = 2
  MaxTokens = 2
  MaxRestarts = 1
INVARIANTS
  AccessTypeOK
  NameDecidesNothing
  TokenStandsForAccount
  OwnNameUnlessOvertaken
SYMMETRY ThreadSymmetry
