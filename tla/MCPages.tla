------------------------------ MODULE MCPages ------------------------------
(* A site with a guest, a user and an admin: the login page may log in by   *)
(* itself, one page is missing, and every other page may fail.              *)
EXTENDS Pages, TLC

MCMap ==
  [e \in {"guest", "user", "admin"} \X {"Default"} \X {"Home", "Logout"} |-> <<"HomePage", "PreprocessAction">>]
  @@ [e \in {"guest", "user", "admin"} \X {"Default"} \X {"Error"} |-> <<"ErrorPage", "Error">>]
  @@ [e \in {"guest", "user"} \X {"HomePage"} \X {"Login"} |-> <<"LoginPage", "PreprocessAction">>]
  @@ [e \in {"guest", "user", "admin"} \X {"LoginPage"} \X {"DoLogin"} |-> <<"HomePage", "">>]
  @@ <<"user", "Default", "Show">> :> <<"LoginPage", "PreprocessAction">>
  @@ <<"admin", "Default", "Show">> :> <<"Missing", "PreprocessAction">>

MCRoleChanges ==
  <<"DoLogin", "guest">> :> "user" @@ <<"DoLogin", "user">> :> "admin"
  @@ [c \in {"Logout"} \X {"guest", "user", "admin"} |-> "guest"]

MCScripts ==
  [s \in {"HomePage", "ErrorPage"} \X {"PreprocessAction", "Show", "Error"} |-> {<<TRUE, s[2]>>, <<FALSE, "Error">>}]
  @@ <<"LoginPage", "PreprocessAction">> :> {<<TRUE, "PreprocessAction">>, <<FALSE, "DoLogin">>}
  @@ <<"LoginPage", "DoLogin">> :> {<<TRUE, "DoLogin">>, <<FALSE, "StayOnSamePage">>}

\* Without one, the slot in use and one that is not.
ClientIndices == {-1, 0, 1}
=============================================================================
