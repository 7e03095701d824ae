----------------------------- MODULE MCHotReload -----------------------------
(***************************************************************************)
(* Charts and instances for the HotReload runs.                            *)
(***************************************************************************)
EXTENDS HotReload, ChartLibrary

CONSTANTS e1

OneMap == {{e1}}

\* An edit that removes the state walk.
Shorter ==
  LET parent == "post" :> NoNode @@ "idle" :> "post" @@ "rest" :> NoNode
  IN Plain(parent, [n \in DOMAIN parent |-> IF n = "post" THEN "compound" ELSE "atomic"],
       "post" :> "idle", <<>>, "rest",
       <<After("post", 3, "rest", FALSE),
         After("rest", 1, "post", FALSE)>>)
Removal == <<Sentry, Shorter>>

\* The same, and an edit that does not validate.
RemovalOrBroken == Removal \o <<Sentry>>
=============================================================================
