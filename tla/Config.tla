------------------------------- MODULE Config -------------------------------
(***************************************************************************)
(* Configurations: how LoadConfig (src/pkg/client/config.go) makes one     *)
(* from the environment and handleSettings (src/cmd/client/ui.go) makes    *)
(* one from another and a submitted form.                                  *)
(*                                                                         *)
(* A text is the class the code tells it by: "" for none, a URL by its     *)
(* scheme, a subdomain by whether it matches the pattern, a duration by    *)
(* its sign.  A number that does not parse is treated like one out of      *)
(* range, so it is one.                                                    *)
(***************************************************************************)
EXTENDS Integers

\* A token, cut before its last four characters; a shorter one has no tail.
Token(body, tail) == [body |-> body, tail |-> tail]

NoToken == Token("", "")

maskToken(token) == Token("****", token.tail)

Unset == -1                     \* a number whose text is empty
ConnectionLimits == 1 .. 32
WebSocketURLs == {"ws", "wss"}
WebURLs == {"http", "https"}
OfferedLevels == {"debug", "info", "warn", "error"}
ParsedLevels == OfferedLevels \cup {"trace"}

OrDefault(value, default) == IF value = "" THEN default ELSE value

-----------------------------------------------------------------------------
(* LoadConfig, and the level check of main that follows it *)

\* The settings that only have to parse, or to lie in a range, are one here:
\* env.tuning is malformed when any of them is.  The ping interval is apart: it
\* too has to parse only, but Run cannot work with every duration.
LoadOK(env) ==
  /\ env.token # NoToken
  /\ env.server \in WebSocketURLs
  /\ env.subdomain \in {"", "valid"}
  /\ env.max \in ConnectionLimits \cup {Unset}
  /\ env.ping # "malformed"
  /\ env.tuning # "malformed"
  /\ OrDefault(env.level, "info") \in ParsedLevels

LoadConfig(env) ==
  [token |-> env.token, server |-> env.server, subdomain |-> env.subdomain,
   plex |-> OrDefault(env.plex, "http"), level |-> OrDefault(env.level, "info"),
   ping |-> OrDefault(env.ping, "positive"),
   max |-> IF env.max = Unset THEN 0 ELSE env.max]

-----------------------------------------------------------------------------
(* handleIndex: the form the page shows *)

\* A select with no selected option sends its first one.
Rendered(c, assigned) ==
  [token |-> IF c.token = NoToken THEN NoToken ELSE maskToken(c.token),
   server |-> c.server, subdomain |-> OrDefault(c.subdomain, assigned),
   plex |-> c.plex, max |-> c.max,
   level |-> IF c.level \in OfferedLevels THEN c.level ELSE "debug"]

-----------------------------------------------------------------------------
(* handleSettings: the configuration a form turns c into *)

\* Fault: the masked token of the page is taken for a new token.
SettingsTakesMask(c, form) ==
  [token |-> IF form.token = NoToken THEN c.token ELSE form.token,
   server |-> form.server, subdomain |-> form.subdomain, plex |-> form.plex,
   level |-> OrDefault(form.level, "info"), ping |-> c.ping,
   max |-> IF form.max = Unset THEN c.max ELSE form.max]

Settings(c, form) ==
  [token |-> IF form.token \in {NoToken, maskToken(c.token)}
             THEN c.token ELSE form.token,
   server |-> form.server, subdomain |-> form.subdomain, plex |-> form.plex,
   level |-> OrDefault(form.level, "info"), ping |-> c.ping,
   max |-> IF form.max = Unset THEN c.max ELSE form.max]

\* Fault: the scheme of the server URL is not checked.
SettingsOKAnyServer(c, form) ==
  LET new == Settings(c, form)
  IN  /\ form.max \in ConnectionLimits \cup {Unset}
      /\ new.token # NoToken
      /\ new.server # ""
      /\ new.plex \in WebURLs
      /\ new.level \in ParsedLevels

\* Fault: the number of connections is not checked.
SettingsOKAnyMax(c, form) ==
  LET new == Settings(c, form)
  IN  /\ new.token # NoToken
      /\ new.plex \in WebURLs
      /\ new.server \in WebSocketURLs
      /\ new.level \in ParsedLevels

SettingsOK(c, form) ==
  LET new == Settings(c, form)
  IN  /\ form.max \in ConnectionLimits \cup {Unset}
      /\ new.token # NoToken
      /\ new.plex \in WebURLs
      /\ new.server \in WebSocketURLs
      /\ new.level \in ParsedLevels

\* What the two ways in ask of a configuration, however it came about.
Checked(c) ==
  /\ c.token # NoToken
  /\ c.server \in WebSocketURLs
  /\ c.level \in ParsedLevels
  /\ c.max \in ConnectionLimits \cup {0}

\* What Client.Run needs of one: runSession refuses a ws server, so that no
\* session ever begins, and time.NewTicker panics on an interval that is not
\* positive when the first one does.
Runnable(c) ==
  /\ c.token # NoToken
  /\ c.server = "wss"
  /\ c.ping = "positive"
=============================================================================
