------------------------------- MODULE MCWebUI -------------------------------
(***************************************************************************)
(* WebUI for TLC: environments and forms that differ from a good one in    *)
(* one field, and one environment that is accepted and good in none.       *)
(***************************************************************************)
EXTENDS WebUI

GoodEnv == [token |-> Token("secret", "abcd"), server |-> "wss", plex |-> "",
            subdomain |-> "valid", level |-> "", max |-> 2, ping |-> "",
            tuning |-> ""]

MCEnvs ==
  {GoodEnv,
   [GoodEnv EXCEPT !.token = NoToken], [GoodEnv EXCEPT !.server = ""],
   [GoodEnv EXCEPT !.server = "other"], [GoodEnv EXCEPT !.subdomain = "invalid"],
   [GoodEnv EXCEPT !.level = "loud"], [GoodEnv EXCEPT !.max = 33],
   [GoodEnv EXCEPT !.ping = "malformed"], [GoodEnv EXCEPT !.tuning = "malformed"],
   [GoodEnv EXCEPT !.server = "ws", !.ping = "zero", !.max = Unset,
                   !.subdomain = "", !.level = "trace"]}

Edit(field, value) == [field |-> field, value |-> value]

MCEdits ==
  {Edit("token", Token("other", "wxyz")), Edit("server", "other"), Edit("max", 33)}
=============================================================================
