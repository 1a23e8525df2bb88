SPECIFICATION SessionsFairSpec
CONSTANTS
  Requests = {r1, r2}
  Given = {}
  NumRequests = 3
  NumEvents = 1
  fMaxSessionsAllowed = 1
  Cleaner = Cleaner
  Admin = Admin
  Handler = Handler
  Main = Main
  Nobody = Nobody
INVARIANT SessionInUse
CHECK_DEADLOCK FALSE
