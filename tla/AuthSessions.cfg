CONSTANTS
  a1 = a1
  l1 = l1
  l2 = l2
  r1 = r1
  r2 = r2
  s1 = s1
  Ips <- OneIp
  Logins <- TwoLogins
  Requests <- TwoRequests
  Ids <- OneId
  MaxFailures = 2
  Window = 2
  Ttl = 3
SPECIFICATION AuthSpec
INVARIANT AuthInv
PROPERTY SessionsEndOnce
PROPERTY TermsEnd
