-------------------------------- MODULE WebUI --------------------------------
(***************************************************************************)
(* The process around the tunnel client (src/cmd/client): main, the        *)
(* clientController that holds the running client.Client, and the web UI's *)
(* handlers that read its configuration and replace it.                    *)
(*                                                                         *)
(* Every request is a goroutine of net/http.  The controller's fields      *)
(* change under c.mu only, but ApplyConfig gives the mutex up while it     *)
(* waits for the old client to end.  c.runner, c.cancel and c.done are     *)
(* always set together and are one variable, current.  A client's Run is   *)
(* what Runner promises of it, which Reconnect is shown to implement.      *)
(***************************************************************************)
EXTENDS Config, FiniteSets

CONSTANTS
  Req,      \* browser tabs; one sends one request at a time
  RunnerId, \* bound: clients alive or awaited at one time
  None,     \* no client
  Envs,     \* the environments the program may start in
  Edits     \* what a user may change in a form: [field, value]

ASSUME WebUIAssumption == None \notin RunnerId

VARIABLES
  main,     \* where main is
  rootDone, \* ctx of main was cancelled
  ui,       \* ListenAndServe: "up", or "failed" with an error
  level,    \* zerolog's global level
  cfg,      \* c.cfg
  current,  \* c.runner, c.cancel, c.done
  run,      \* the clients, each with its runCtx and done
  req,      \* the requests
  stops,    \* the client Stop waits for
  edited    \* a user has typed a token (auxiliary)

vars == <<main, rootDone, ui, level, cfg, current, run, req, stops, edited>>

NoConfig == [token |-> NoToken, server |-> "", subdomain |-> "", plex |-> "",
             level |-> "", ping |-> "", max |-> 0]

Idle == [pc |-> "idle", form |-> NoConfig, cfg |-> NoConfig, waits |-> None]

Ended == [state |-> "returned", cancelled |-> FALSE, cfg |-> NoConfig]

\* main, controller, clients and requests stay within their types.
TypeOK ==
  /\ main \in {"load", "serve", "drain", "stop", "exited"}
  /\ rootDone \in BOOLEAN
  /\ ui \in {"up", "failed"}
  /\ level \in ParsedLevels
  /\ cfg.max \in ConnectionLimits \cup {0}
  /\ cfg.level \in ParsedLevels \cup {""}
  /\ current \in RunnerId \cup {None}
  /\ stops \in RunnerId \cup {None}
  /\ \A x \in RunnerId : /\ run[x].state \in {"running", "returned"}
                         /\ run[x].cancelled \in BOOLEAN
  /\ \A r \in Req : /\ req[r].pc \in {"idle", "page", "posted", "level", "swap",
                                      "cancel", "wait", "start"}
                    /\ req[r].waits \in RunnerId \cup {None}
  /\ edited \in BOOLEAN

Init ==
  /\ main = "load"
  /\ rootDone = FALSE
  /\ ui = "up"
  /\ level = "trace"
  /\ cfg = NoConfig
  /\ current = None
  /\ run = [x \in RunnerId |-> Ended]
  /\ req = [r \in Req |-> Idle]
  /\ stops = None
  /\ edited = FALSE

-----------------------------------------------------------------------------
(* clientController *)

\* A client that has ended and that nobody refers to: its id can be reused.
Unused ==
  {x \in RunnerId : /\ run[x].state = "returned"
                    /\ x \notin {current, stops}
                    /\ \A r \in Req : req[r].waits # x}

\* startLocked: a client with configuration c becomes the controller's.
startLocked(c) ==
  \E x \in Unused :
    /\ \A y \in Unused : x <= y
    /\ current' = x
    /\ run' = [run EXCEPT ![x] =
                 [state |-> "running", cancelled |-> FALSE, cfg |-> c]]

\* Run returns, for nothing but its context, and done is closed.
RunnerReturns(x) ==
  /\ main # "exited"
  /\ run[x].state = "running"
  /\ run[x].cancelled \/ rootDone
  /\ run' = [run EXCEPT ![x] = Ended]
  /\ UNCHANGED <<main, rootDone, ui, level, cfg, current, req, stops, edited>>

-----------------------------------------------------------------------------
(* main *)

MainRejects(env) ==
  /\ main = "load"
  /\ ~LoadOK(env)
  /\ main' = "exited"
  /\ UNCHANGED <<rootDone, ui, level, cfg, current, run, req, stops, edited>>

MainStart(env) ==
  /\ main = "load"
  /\ LoadOK(env)
  /\ cfg' = LoadConfig(env)
  /\ level' = cfg'.level
  /\ startLocked(cfg')
  /\ main' = "serve"
  /\ UNCHANGED <<rootDone, ui, req, stops, edited>>

Signal ==
  /\ main # "exited"
  /\ ~rootDone
  /\ rootDone' = TRUE
  /\ UNCHANGED <<main, ui, level, cfg, current, run, req, stops, edited>>

\* Fault: main is not told that the web UI is gone.
UIFailsUnnoticed ==
  /\ main = "serve"
  /\ ui = "up"
  /\ ui' = "failed"
  /\ UNCHANGED <<main, rootDone, level, cfg, current, run, req, stops, edited>>

\* ListenAndServe returns an error: the address is taken, or Accept failed.
UIFails ==
  /\ main = "serve"
  /\ ui = "up"
  /\ ui' = "failed"
  /\ rootDone' = TRUE
  /\ UNCHANGED <<main, level, cfg, current, run, req, stops, edited>>

\* srv.Shutdown: no new requests.
MainShutdown ==
  /\ main = "serve"
  /\ rootDone
  /\ main' = "drain"
  /\ UNCHANGED <<rootDone, ui, level, cfg, current, run, req, stops, edited>>

\* Shutdown returns, with every request answered or after its five seconds,
\* and the deferred Stop takes the client.  Its context is already cancelled,
\* so the call to cancel changes nothing.
MainStop ==
  /\ main = "drain"
  /\ stops' = current
  /\ current' = None
  /\ main' = "stop"
  /\ UNCHANGED <<rootDone, ui, level, cfg, run, req, edited>>

MainExit ==
  /\ main = "stop"
  /\ stops # None => run[stops].state = "returned"
  /\ main' = "exited"
  /\ UNCHANGED <<rootDone, ui, level, cfg, current, run, req, stops, edited>>

-----------------------------------------------------------------------------
(* The handlers *)

\* Requests are accepted, and those accepted go on until the process ends.  A
\* request that originAllowed, requireSession or ParseForm refuses changes
\* nothing and is left out.
Accepting == main = "serve" /\ ui = "up"

Handling(r, label) == main # "exited" /\ req[r].pc = label

\* handleIndex: a page is shown.  The subdomain of a configuration without one
\* is the one the server assigned, if the client has registered.
HandleIndex(r) ==
  /\ Accepting
  /\ req[r].pc = "idle"
  /\ \E assigned \in IF current = None THEN {""} ELSE {"", "valid"} :
       req' = [req EXCEPT ![r].pc = "page", ![r].form = Rendered(cfg, assigned)]
  /\ UNCHANGED <<main, rootDone, ui, level, cfg, current, run, stops, edited>>

\* The user changes at most one field and sends the form.  (The guard on Unused
\* is the bound: there is a client id for every restart under way.)
PostSettings(r, edit) ==
  /\ Accepting
  /\ req[r].pc = "page"
  /\ Cardinality({q \in Req : req[q].pc \notin {"idle", "page"}})
       < Cardinality(Unused)
  /\ req' = [req EXCEPT ![r].pc = "posted", ![r].form[edit.field] = edit.value]
  /\ edited' = (edited \/ edit.field = "token")
  /\ UNCHANGED <<main, rootDone, ui, level, cfg, current, run, stops>>

PostUnchanged(r) ==
  /\ Accepting
  /\ req[r].pc = "page"
  /\ Cardinality({q \in Req : req[q].pc \notin {"idle", "page"}})
       < Cardinality(Unused)
  /\ req' = [req EXCEPT ![r].pc = "posted"]
  /\ UNCHANGED <<main, rootDone, ui, level, cfg, current, run, stops, edited>>

\* handleSettings: a snapshot of the configuration, and the form checked ...
SettingsRejected(r) ==
  /\ Handling(r, "posted")
  /\ ~SettingsOK(cfg, req[r].form)
  /\ req' = [req EXCEPT ![r] = Idle]
  /\ UNCHANGED <<main, rootDone, ui, level, cfg, current, run, stops, edited>>

SettingsTaken(r) ==
  /\ Handling(r, "posted")
  /\ SettingsOK(cfg, req[r].form)
  /\ req' = [req EXCEPT ![r].pc = "level",
                        ![r].cfg = Settings(cfg, req[r].form),
                        ![r].form = NoConfig]
  /\ UNCHANGED <<main, rootDone, ui, level, cfg, current, run, stops, edited>>

\* ... and zerolog.SetGlobalLevel.
SetGlobalLevel(r) ==
  /\ Handling(r, "level")
  /\ level' = req[r].cfg.level
  /\ req' = [req EXCEPT ![r].pc = "swap"]
  /\ UNCHANGED <<main, rootDone, ui, cfg, current, run, stops, edited>>

\* ApplyConfig, under the mutex: the configuration is set, the client taken.
ApplySwap(r) ==
  /\ Handling(r, "swap")
  /\ cfg' = req[r].cfg
  /\ current' = None
  /\ req' = [req EXCEPT ![r].waits = current,
                        ![r].pc = IF current = None THEN "start" ELSE "cancel"]
  /\ UNCHANGED <<main, rootDone, ui, level, run, stops, edited>>

\* Fault: the client that was taken is waited for and not told to end.
ApplyNoCancel(r) ==
  /\ Handling(r, "cancel")
  /\ req' = [req EXCEPT ![r].pc = "wait"]
  /\ UNCHANGED <<main, rootDone, ui, level, cfg, current, run, stops, edited>>

\* Without the mutex: it is told to end ...
ApplyCancel(r) ==
  /\ Handling(r, "cancel")
  /\ run' = [run EXCEPT ![req[r].waits].cancelled =
                          (@ \/ run[req[r].waits].state = "running")]
  /\ req' = [req EXCEPT ![r].pc = "wait"]
  /\ UNCHANGED <<main, rootDone, ui, level, cfg, current, stops, edited>>

\* ... and waited for.
ApplyWait(r) ==
  /\ Handling(r, "wait")
  /\ run[req[r].waits].state = "returned"
  /\ req' = [req EXCEPT ![r].pc = "start", ![r].waits = None]
  /\ UNCHANGED <<main, rootDone, ui, level, cfg, current, run, stops, edited>>

\* Fault: the new client gets the configuration of the request.
ApplyStartsOwn(r) ==
  /\ Handling(r, "start")
  /\ startLocked(req[r].cfg)
  /\ req' = [req EXCEPT ![r] = Idle]
  /\ UNCHANGED <<main, rootDone, ui, level, cfg, stops, edited>>

\* Under the mutex again: a new client, with the configuration of that moment,
\* takes the place of whatever client is there.
ApplyStart(r) ==
  /\ Handling(r, "start")
  /\ startLocked(cfg)
  /\ req' = [req EXCEPT ![r] = Idle]
  /\ UNCHANGED <<main, rootDone, ui, level, cfg, stops, edited>>

-----------------------------------------------------------------------------
MainStep ==
  \/ \E env \in Envs : MainRejects(env) \/ MainStart(env)
  \/ MainShutdown \/ MainStop \/ MainExit

SettingsStep(r) ==
  \/ SettingsRejected(r) \/ SettingsTaken(r) \/ SetGlobalLevel(r)
  \/ ApplySwap(r) \/ ApplyCancel(r) \/ ApplyWait(r) \/ ApplyStart(r)

Next ==
  \/ MainStep
  \/ Signal \/ UIFails
  \/ \E r \in Req : HandleIndex(r) \/ PostUnchanged(r) \/ SettingsStep(r)
  \/ \E r \in Req, edit \in Edits : PostSettings(r, edit)
  \/ \E x \in RunnerId : RunnerReturns(x)

\* Goroutines go on; that a cancelled client ends is Runner's promise.
Spec ==
  /\ Init /\ [][Next]_vars
  /\ WF_vars(MainStep)
  /\ \A r \in Req : WF_vars(SettingsStep(r))
  /\ \A x \in RunnerId : WF_vars(RunnerReturns(x))

-----------------------------------------------------------------------------
(* Properties *)

Running == {x \in RunnerId : run[x].state = "running"}

\* The client the controller holds runs with the configuration the page shows,
\* however many settings requests are between their two critical sections.
HeldRunsCurrent == current \in Running => run[current].cfg = cfg

\* Whatever a form said and whichever snapshot it was laid over, every client
\* runs with a configuration that LoadConfig would have accepted: the checks
\* handleSettings makes, and the fields it keeps, are as good as LoadConfig's.
\* Accepted is not good: Run refuses a ws:// server in every session, and a ping
\* interval that is not positive (see Runnable, and CheckedFallsShort).
CheckedConfig == \A x \in Running : Checked(run[x].cfg)

\* The page shows the token masked; as long as nobody types another, the token
\* stays what the environment said, through any settings requests.
UntouchedTokenKept ==
  ~edited /\ main \in {"serve", "drain"} =>
    \E env \in Envs :
      /\ cfg.token = env.token
      /\ \A x \in Running : run[x].cfg.token = env.token

\* "Changes are applied immediately and restart the client connection loop"
\* (ui.go:400): there is one connection loop, the one the controller holds or
\* one that is being stopped.
OneConnectionLoop ==
  ~rootDone => \A x \in Running :
    \/ x = current
    \/ run[x].cancelled
    \/ \E r \in Req : req[r].waits = x

\* The controller is not left without a client by settings requests that take
\* it from each other: unless the process ends there is one again.
ClientComesBack ==
  main = "serve" /\ current = None ~> current # None \/ rootDone

\* A signal, and a web UI that cannot listen, end the process, whatever
\* settings requests are under way.
ShutdownExits == rootDone \/ ui = "failed" ~> main = "exited"
=============================================================================
