SPECIFICATION Spec
CONSTANTS
  Roles = {"guest", "user", "admin"}
  DefaultRole = "guest"
  Pages = {"HomePage", "LoginPage", "ErrorPage"}
  StartPage = "HomePage"
  ErrorPage = "ErrorPage"
  Map <- MCMap
  RoleChanges <- MCRoleChanges
  Scripts <- MCScripts
  Actions = {"", "Show", "DoLogin", "Logout"}
  QueryPages = {"HomePage", "LoginPage"}
  Indices <- ClientIndices
  NumRequests = 3
  None = None
INVARIANTS DelayedIsClients NotExecutedAgain
CHECK_DEADLOCK FALSE
