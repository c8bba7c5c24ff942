----------------------------- MODULE WebUI_proofs -----------------------------
(***************************************************************************)
(* Proofs about the controller and the web UI's handlers, for any number   *)
(* of browser tabs and of clients, any environments and any edits: the     *)
(* client the controller holds runs with the configuration it shows, every *)
(* client runs with a checked configuration, and the masked token of       *)
(* the page never replaces the token itself.                               *)
(***************************************************************************)
EXTENDS WebUI, TLAPS

Labels == {"idle", "page", "posted", "level", "swap", "cancel", "wait", "start"}

\* The requests and the clients, with forms of F and configurations of C.
Requests(F, C) == [Req -> [pc : Labels, form : F, cfg : C,
                           waits : RunnerId \cup {None}]]
Clients(C) ==
  [RunnerId -> [state : {"running", "returned"}, cancelled : BOOLEAN, cfg : C]]

\* Nothing is assumed of what a form or a configuration holds.
Shape ==
  /\ \E F, C : req \in Requests(F, C)
  /\ \E C : run \in Clients(C)

\* A configuration that is in use, or about to be, has been checked.
ConfigsOK ==
  /\ main = "load" => \A r \in Req : req[r].pc = "idle"
  /\ main \notin {"load", "exited"} => Checked(cfg)
  /\ \A r \in Req : req[r].pc \in {"level", "swap"} => Checked(req[r].cfg)

\* What the two properties of the running configurations rest on.
WebInv == Shape /\ TypeOK /\ ConfigsOK /\ HeldRunsCurrent /\ CheckedConfig

\* LoadConfig's configuration has all the properties it asks for.
LEMMA LoadedChecked ==
  ASSUME NEW env, LoadOK(env)
  PROVE  Checked(LoadConfig(env))
  BY DEF LoadOK, LoadConfig, Checked, ConnectionLimits, Unset

\* A form that leaves the number of connections out keeps a good one.
LEMMA SettingsChecked ==
  ASSUME NEW c, NEW form, Checked(c), SettingsOK(c, form)
  PROVE  Checked(Settings(c, form))
  BY DEF SettingsOK, Settings, Checked, ConnectionLimits, Unset

\* What startLocked does to the clients.
LEMMA StartedClient ==
  ASSUME Shape, NEW c, startLocked(c)
  PROVE  /\ \E C : run' \in Clients(C)
         /\ \E x \in RunnerId :
              /\ current' = x
              /\ run'[x] = [state |-> "running", cancelled |-> FALSE, cfg |-> c]
              /\ \A y \in RunnerId \ {x} : run'[y] = run[y]
<1>1. PICK x \in Unused :
        /\ current' = x
        /\ run' = [run EXCEPT ![x] =
                     [state |-> "running", cancelled |-> FALSE, cfg |-> c]]
  BY DEF startLocked
<1>2. x \in RunnerId
  BY DEF Unused
<1>3. PICK C : run \in Clients(C)
  BY DEF Shape
<1>4. run' \in Clients(C \cup {c})
  BY <1>1, <1>2, <1>3 DEF Clients
<1> QED BY <1>1, <1>2, <1>3, <1>4 DEF Clients

-----------------------------------------------------------------------------
(* The steps of a request, by what they do to it *)

\* Request r goes on to label, and the others stay as they are.
Goes(r, label) ==
  /\ \E F, C : req' \in Requests(F, C)
  /\ req'[r].pc = label
  /\ \A q \in Req \ {r} : req'[q] = req[q]

\* A request goes on with another form.
LEMMA EditedRequest ==
  ASSUME NEW F, NEW C, req \in Requests(F, C), NEW r \in Req,
         NEW label \in Labels, NEW form,
         req' = [req EXCEPT ![r].pc = label, ![r].form = form]
  PROVE  Goes(r, label)
<1> DEFINE new == [req[r] EXCEPT !.pc = label, !.form = form]
<1>1. req \in Requests(F \cup {form}, C)
  BY DEF Requests
<1>2. new \in [pc : Labels, form : F \cup {form}, cfg : C,
               waits : RunnerId \cup {None}]
  BY <1>1 DEF Requests
<1>3. new.pc = label
  BY DEF Requests
<1>4. req' = [req EXCEPT ![r] = new]
  BY DEF Requests
<1> HIDE DEF new
<1>5. req' \in Requests(F \cup {form}, C)
  BY <1>1, <1>2, <1>4 DEF Requests
<1>6. req'[r].pc = label /\ \A q \in Req \ {r} : req'[q] = req[q]
  BY <1>3, <1>4 DEF Requests
<1> QED
  BY <1>5, <1>6 DEF Goes

\* A request goes on with another form and another configuration.
LEMMA FilledRequest ==
  ASSUME NEW F, NEW C, req \in Requests(F, C), NEW r \in Req,
         NEW label \in Labels, NEW form, NEW c,
         req' = [req EXCEPT ![r].pc = label, ![r].cfg = c, ![r].form = form]
  PROVE  Goes(r, label) /\ req'[r].cfg = c
<1> DEFINE new == [req[r] EXCEPT !.pc = label, !.cfg = c, !.form = form]
<1>1. req \in Requests(F \cup {form}, C \cup {c})
  BY DEF Requests
<1>2. new \in [pc : Labels, form : F \cup {form}, cfg : C \cup {c},
               waits : RunnerId \cup {None}]
  BY <1>1 DEF Requests
<1>3. new.pc = label /\ new.cfg = c
  BY DEF Requests
<1>4. req' = [req EXCEPT ![r] = new]
  BY DEF Requests
<1> HIDE DEF new
<1>5. req' \in Requests(F \cup {form}, C \cup {c})
  BY <1>1, <1>2, <1>4 DEF Requests
<1>6. req'[r] = new /\ \A q \in Req \ {r} : req'[q] = req[q]
  BY <1>4 DEF Requests
<1>7. Goes(r, label)
  BY <1>3, <1>5, <1>6 DEF Goes
<1> QED
  BY <1>3, <1>6, <1>7

\* Every step of a request is of this kind.
LEMMA RequestGoes ==
  ASSUME Shape, TypeOK, NEW r \in Req
  PROVE  /\ HandleIndex(r) => Goes(r, "page")
         /\ PostUnchanged(r) => Goes(r, "posted")
         /\ \A edit \in Edits : PostSettings(r, edit) => Goes(r, "posted")
         /\ SettingsRejected(r) => Goes(r, "idle")
         /\ SettingsTaken(r) => /\ Goes(r, "level")
                                /\ req'[r].cfg = Settings(cfg, req[r].form)
         /\ SetGlobalLevel(r) => Goes(r, "swap") /\ req'[r].cfg = req[r].cfg
         /\ ApplySwap(r) => Goes(r, "start") \/ Goes(r, "cancel")
         /\ ApplyCancel(r) => Goes(r, "wait")
         /\ ApplyWait(r) => Goes(r, "start")
         /\ ApplyStart(r) => Goes(r, "idle")
<1> PICK F, C : req \in Requests(F, C)
  BY DEF Shape
<1> USE DEF Requests, Labels
<1>1. ASSUME HandleIndex(r)
      PROVE  Goes(r, "page")
  <2>1. PICK form : req' = [req EXCEPT ![r].pc = "page", ![r].form = form]
    BY <1>1 DEF HandleIndex
  <2> QED BY <2>1, EditedRequest
<1>2. ASSUME PostUnchanged(r)
      PROVE  Goes(r, "posted")
  <2>1. req' \in Requests(F, C)
    BY <1>2 DEF PostUnchanged
  <2> QED BY <1>2, <2>1 DEF Goes, PostUnchanged
<1>3. ASSUME NEW edit \in Edits, PostSettings(r, edit)
      PROVE  Goes(r, "posted")
  <2> DEFINE form == [req[r].form EXCEPT ![edit.field] = edit.value]
  <2>1. req' = [req EXCEPT ![r].pc = "posted", ![r].form = form]
    BY <1>3 DEF PostSettings
  <2> HIDE DEF form
  <2> QED BY <2>1, EditedRequest
<1>4. ASSUME SettingsRejected(r) \/ ApplyStart(r)
      PROVE  Goes(r, "idle")
  <2>1. req' = [req EXCEPT ![r] = Idle]
    BY <1>4 DEF SettingsRejected, ApplyStart
  <2>2. req' \in Requests(F \cup {NoConfig}, C \cup {NoConfig})
    BY <2>1 DEF Idle
  <2>3. req'[r].pc = "idle" /\ \A q \in Req \ {r} : req'[q] = req[q]
    BY <2>1 DEF Idle
  <2> QED BY <2>2, <2>3 DEF Goes
<1>5. ASSUME SettingsTaken(r)
      PROVE  Goes(r, "level") /\ req'[r].cfg = Settings(cfg, req[r].form)
  <2> DEFINE new == Settings(cfg, req[r].form)
  <2>1. req' = [req EXCEPT ![r].pc = "level", ![r].cfg = new, ![r].form = NoConfig]
    BY <1>5 DEF SettingsTaken
  <2> HIDE DEF new
  <2>2. Goes(r, "level") /\ req'[r].cfg = new
    BY <2>1, FilledRequest
  <2> QED BY <2>2 DEF new
<1>6. ASSUME SetGlobalLevel(r)
      PROVE  Goes(r, "swap") /\ req'[r].cfg = req[r].cfg
  <2>1. req' \in Requests(F, C)
    BY <1>6 DEF SetGlobalLevel
  <2> QED BY <1>6, <2>1 DEF Goes, SetGlobalLevel
<1>7. ASSUME ApplySwap(r)
      PROVE  Goes(r, "start") \/ Goes(r, "cancel")
  <2>1. PICK label \in {"start", "cancel"} :
          req' = [req EXCEPT ![r].waits = current, ![r].pc = label]
    BY <1>7 DEF ApplySwap
  <2>2. current \in RunnerId \cup {None}
    BY DEF TypeOK
  <2>3. req' \in Requests(F, C) /\ req'[r].pc = label
    BY <2>1, <2>2
  <2> QED BY <2>1, <2>3 DEF Goes
<1>8. ASSUME ApplyCancel(r)
      PROVE  Goes(r, "wait")
  <2>1. req' \in Requests(F, C)
    BY <1>8 DEF ApplyCancel
  <2> QED BY <1>8, <2>1 DEF Goes, ApplyCancel
<1>9. ASSUME ApplyWait(r)
      PROVE  Goes(r, "start")
  <2>1. req' \in Requests(F, C)
    BY <1>9 DEF ApplyWait
  <2> QED BY <1>9, <2>1 DEF Goes, ApplyWait
<1> QED BY <1>1, <1>2, <1>3, <1>4, <1>5, <1>6, <1>7, <1>8, <1>9

-----------------------------------------------------------------------------
(* The invariant is inductive *)

\* The parts of the invariant that are about the requests, when request r goes
\* on while main and the configuration stay as they are.
LEMMA GoesKeeps ==
  ASSUME WebInv, NEW r \in Req, NEW label \in Labels, Goes(r, label),
         main \notin {"load", "exited"}, UNCHANGED main, Checked(cfg'),
         label \in {"level", "swap"} => Checked(req'[r].cfg)
  PROVE  /\ ConfigsOK'
         /\ \A q \in Req : /\ req'[q].pc \in Labels
                           /\ req'[q].waits \in RunnerId \cup {None}
<1>1. \A q \in Req : /\ req'[q].pc \in Labels
                     /\ req'[q].waits \in RunnerId \cup {None}
  BY DEF Goes, Requests
<1>2. ConfigsOK'
  BY DEF WebInv, ConfigsOK, Goes, Labels
<1> QED BY <1>1, <1>2

\* A request that goes on does so while the process serves or drains.
LEMMA BusyNotLoading ==
  ASSUME WebInv, NEW r \in Req, HandleIndex(r) \/ PostUnchanged(r)
           \/ SettingsStep(r) \/ \E edit \in Edits : PostSettings(r, edit)
  PROVE  main \notin {"load", "exited"} /\ Checked(cfg) /\ UNCHANGED main
  BY DEF WebInv, ConfigsOK, HandleIndex, PostUnchanged, PostSettings, Accepting,
         SettingsStep, SettingsRejected, SettingsTaken, SetGlobalLevel, ApplySwap,
         ApplyCancel, ApplyWait, ApplyStart, Handling

\* Requests that leave configuration and clients alone.
LEMMA QuietRequestStep ==
  ASSUME WebInv, NEW r \in Req,
         \/ HandleIndex(r) \/ PostUnchanged(r)
         \/ \E edit \in Edits : PostSettings(r, edit)
         \/ SettingsRejected(r) \/ SettingsTaken(r) \/ SetGlobalLevel(r)
         \/ ApplyWait(r)
  PROVE  WebInv'
<1> USE DEF WebInv
<1>1. UNCHANGED <<main, rootDone, ui, cfg, current, run, stops>>
  BY DEF HandleIndex, PostUnchanged, PostSettings, SettingsRejected, SettingsTaken,
         SetGlobalLevel, ApplyWait
<1>2. main \notin {"load", "exited"} /\ Checked(cfg)
  BY BusyNotLoading DEF SettingsStep
<1>3. \E label \in Labels :
        Goes(r, label) /\ (label \in {"level", "swap"} => Checked(req'[r].cfg))
  <2>1. CASE SettingsTaken(r)
    <3>1. SettingsOK(cfg, req[r].form)
      BY <2>1 DEF SettingsTaken
    <3>2. Checked(Settings(cfg, req[r].form))
      BY <1>2, <3>1, SettingsChecked
    <3>3. Goes(r, "level") /\ req'[r].cfg = Settings(cfg, req[r].form)
      BY <2>1, RequestGoes
    <3> QED BY <3>2, <3>3 DEF Labels
  <2>2. CASE SetGlobalLevel(r)
    BY <2>2, RequestGoes DEF SetGlobalLevel, Handling, ConfigsOK, Labels
  <2>3. CASE \/ HandleIndex(r) \/ PostUnchanged(r)
             \/ \E edit \in Edits : PostSettings(r, edit)
             \/ SettingsRejected(r) \/ ApplyWait(r)
    BY <2>3, RequestGoes DEF Labels
  <2> QED BY <2>1, <2>2, <2>3
<1>4. /\ ConfigsOK'
      /\ \A q \in Req : /\ req'[q].pc \in Labels
                        /\ req'[q].waits \in RunnerId \cup {None}
  BY <1>1, <1>2, <1>3, GoesKeeps
<1>5. level' \in ParsedLevels /\ edited' \in BOOLEAN
  <2>1. CASE SetGlobalLevel(r)
    BY <2>1 DEF SetGlobalLevel, Handling, ConfigsOK, Checked, TypeOK
  <2>2. CASE \E edit \in Edits : PostSettings(r, edit)
    BY <2>2 DEF PostSettings, TypeOK
  <2>3. CASE \/ HandleIndex(r) \/ PostUnchanged(r) \/ SettingsRejected(r)
             \/ SettingsTaken(r) \/ ApplyWait(r)
    BY <2>3 DEF HandleIndex, PostUnchanged, SettingsRejected, SettingsTaken,
                ApplyWait, TypeOK
  <2> QED BY <2>1, <2>2, <2>3
<1>6. TypeOK'
  BY <1>1, <1>4, <1>5 DEF TypeOK, Labels
<1>7. HeldRunsCurrent' /\ CheckedConfig'
  BY <1>1 DEF HeldRunsCurrent, CheckedConfig, Running
<1>8. Shape'
  BY <1>1, <1>3 DEF Shape, Goes
<1> QED BY <1>4, <1>6, <1>7, <1>8

\* ApplyConfig: the swap, the cancel and the start.
LEMMA ApplyStep ==
  ASSUME WebInv, NEW r \in Req, ApplySwap(r) \/ ApplyCancel(r) \/ ApplyStart(r)
  PROVE  WebInv'
<1> USE WebUIAssumption DEF WebInv
<1>1. main \notin {"load", "exited"} /\ Checked(cfg) /\ UNCHANGED main
  BY BusyNotLoading DEF SettingsStep
<1>2. UNCHANGED <<rootDone, ui, level, stops, edited>>
  BY DEF ApplySwap, ApplyCancel, ApplyStart
<1>3. CASE ApplySwap(r)
  <2>1. PICK label \in {"start", "cancel"} : Goes(r, label)
    BY <1>3, RequestGoes
  <2>2. cfg' = req[r].cfg /\ current' = None /\ UNCHANGED run
    BY <1>3 DEF ApplySwap
  <2>3. Checked(cfg')
    BY <1>3, <2>2 DEF ApplySwap, Handling, ConfigsOK
  <2>4. /\ ConfigsOK'
        /\ \A q \in Req : /\ req'[q].pc \in Labels
                          /\ req'[q].waits \in RunnerId \cup {None}
    BY <1>1, <2>1, <2>3, GoesKeeps DEF Labels
  <2>5. TypeOK'
    BY <1>1, <1>2, <2>2, <2>3, <2>4 DEF TypeOK, Labels, Checked
  <2>6. HeldRunsCurrent' /\ CheckedConfig'
    BY <2>2 DEF HeldRunsCurrent, CheckedConfig, Running
  <2>7. Shape'
    BY <2>1, <2>2 DEF Shape, Goes
  <2> QED BY <2>4, <2>5, <2>6, <2>7
<1>4. CASE ApplyCancel(r)
  <2>1. Goes(r, "wait") /\ UNCHANGED <<cfg, current>>
    BY <1>4, RequestGoes DEF ApplyCancel
  <2>2. PICK C : run \in Clients(C)
    BY DEF Shape
  <2>3. /\ run' \in Clients(C)
        /\ \A x \in RunnerId : run'[x].state = run[x].state /\ run'[x].cfg = run[x].cfg
    <3>1. PICK b \in BOOLEAN : run' = [run EXCEPT ![req[r].waits].cancelled = b]
      BY <1>4, <2>2 DEF ApplyCancel, Clients
    <3> QED BY <2>2, <3>1 DEF Clients
  <2>4. /\ ConfigsOK'
        /\ \A q \in Req : /\ req'[q].pc \in Labels
                          /\ req'[q].waits \in RunnerId \cup {None}
    BY <1>1, <2>1, GoesKeeps DEF Labels
  <2>5. \A x \in RunnerId : /\ run'[x].state \in {"running", "returned"}
                            /\ run'[x].cancelled \in BOOLEAN
    BY <2>3 DEF Clients
  <2>6. TypeOK'
    BY <1>1, <1>2, <2>1, <2>4, <2>5 DEF TypeOK, Labels
  <2>7. HeldRunsCurrent' /\ CheckedConfig'
    BY <2>1, <2>3 DEF HeldRunsCurrent, CheckedConfig, Running, TypeOK
  <2>8. Shape'
    BY <2>1, <2>3 DEF Shape, Goes
  <2> QED BY <2>4, <2>6, <2>7, <2>8
<1>5. CASE ApplyStart(r)
  <2>1. Goes(r, "idle") /\ UNCHANGED cfg /\ startLocked(cfg)
    BY <1>5, RequestGoes DEF ApplyStart
  <2>2. \E C : run' \in Clients(C)
    BY <2>1, StartedClient
  <2>3. PICK x \in RunnerId :
          /\ current' = x
          /\ run'[x] = [state |-> "running", cancelled |-> FALSE, cfg |-> cfg]
          /\ \A y \in RunnerId \ {x} : run'[y] = run[y]
    BY <2>1, StartedClient
  <2>4. /\ ConfigsOK'
        /\ \A q \in Req : /\ req'[q].pc \in Labels
                          /\ req'[q].waits \in RunnerId \cup {None}
    BY <1>1, <2>1, GoesKeeps DEF Labels
  <2>5. TypeOK'
    <3>1. \A y \in RunnerId : /\ run'[y].state \in {"running", "returned"}
                              /\ run'[y].cancelled \in BOOLEAN
      BY <2>2 DEF Clients
    <3> QED BY <1>1, <1>2, <2>1, <2>3, <2>4, <3>1 DEF TypeOK, Labels
  <2>6. HeldRunsCurrent' /\ CheckedConfig'
    BY <1>1, <2>1, <2>3 DEF HeldRunsCurrent, CheckedConfig, Running
  <2>7. Shape'
    BY <2>1, <2>2 DEF Shape, Goes
  <2> QED BY <2>4, <2>5, <2>6, <2>7
<1> QED BY <1>3, <1>4, <1>5

\* main, the signal, the web UI that fails and a client that returns.
LEMMA ProcessStep ==
  ASSUME WebInv,
         \/ MainStep \/ Signal \/ UIFails
         \/ \E x \in RunnerId : RunnerReturns(x)
         \/ UNCHANGED vars
  PROVE  WebInv'
<1> USE WebUIAssumption DEF WebInv
<1>1. CASE UNCHANGED vars
  <2>1. UNCHANGED <<main, rootDone, ui, level, cfg, current, run, req, stops, edited>>
    BY <1>1 DEF vars
  <2>2. Shape' /\ TypeOK'
    BY <2>1 DEF Shape, TypeOK
  <2>3. ConfigsOK' /\ HeldRunsCurrent' /\ CheckedConfig'
    BY <2>1 DEF ConfigsOK, HeldRunsCurrent, CheckedConfig, Running
  <2> QED
    BY <2>2, <2>3
<1>2. CASE \/ \E env \in Envs : MainRejects(env)
           \/ MainShutdown \/ MainStop \/ MainExit \/ Signal \/ UIFails
  <2>1. /\ UNCHANGED <<level, cfg, run, req, edited>>
        /\ \/ main' \in {main, "exited"}
           \/ main \notin {"load", "exited"} /\ main' # "load"
        /\ main' \in {"load", "serve", "drain", "stop", "exited"}
    BY <1>2 DEF MainRejects, MainShutdown, MainStop, MainExit, Signal, UIFails, TypeOK
  <2>2. /\ rootDone' \in BOOLEAN /\ ui' \in {"up", "failed"}
        /\ current' \in {current, None}
        /\ stops' \in RunnerId \cup {None}
    BY <1>2 DEF MainRejects, MainShutdown, MainStop, MainExit, Signal, UIFails, TypeOK
  <2>3. Shape' /\ ConfigsOK'
    BY <2>1 DEF Shape, ConfigsOK
  <2>4. TypeOK'
    BY <2>1, <2>2 DEF TypeOK
  <2>5. HeldRunsCurrent' /\ CheckedConfig'
    BY <2>1, <2>2 DEF HeldRunsCurrent, CheckedConfig, Running
  <2> QED BY <2>3, <2>4, <2>5
<1>3. ASSUME NEW env \in Envs, MainStart(env)
      PROVE  WebInv'
  <2>1. /\ main = "load" /\ main' = "serve"
        /\ UNCHANGED <<rootDone, ui, req, stops, edited>>
        /\ LoadOK(env) /\ cfg' = LoadConfig(env) /\ level' = cfg'.level
        /\ startLocked(cfg')
    BY <1>3 DEF MainStart
  <2>2. Checked(cfg')
    BY <2>1, LoadedChecked
  <2>3. \E C : run' \in Clients(C)
    BY <2>1, StartedClient
  <2>4. PICK x \in RunnerId :
          /\ current' = x
          /\ run'[x] = [state |-> "running", cancelled |-> FALSE, cfg |-> cfg']
          /\ \A y \in RunnerId \ {x} : run'[y] = run[y]
    BY <2>1, StartedClient
  <2>5. \A y \in RunnerId : /\ run'[y].state \in {"running", "returned"}
                            /\ run'[y].cancelled \in BOOLEAN
    BY <2>3 DEF Clients
  <2>6. Shape' /\ ConfigsOK'
    BY <2>1, <2>2, <2>3 DEF Shape, ConfigsOK
  <2>7. TypeOK'
    BY <2>1, <2>2, <2>4, <2>5 DEF TypeOK, Checked
  <2>8. HeldRunsCurrent' /\ CheckedConfig'
    BY <2>2, <2>4 DEF HeldRunsCurrent, CheckedConfig, Running
  <2> QED BY <2>6, <2>7, <2>8
<1>4. ASSUME NEW x \in RunnerId, RunnerReturns(x)
      PROVE  WebInv'
  <2>1. PICK C : run \in Clients(C)
    BY DEF Shape
  <2>2. UNCHANGED <<main, rootDone, ui, level, cfg, current, req, stops, edited>>
    BY <1>4 DEF RunnerReturns
  <2>3. /\ run' \in Clients(C \cup {NoConfig})
        /\ run'[x].state = "returned"
        /\ \A y \in RunnerId \ {x} : run'[y] = run[y]
    BY <1>4, <2>1 DEF RunnerReturns, Clients, Ended
  <2>4. \A y \in RunnerId : /\ run'[y].state \in {"running", "returned"}
                            /\ run'[y].cancelled \in BOOLEAN
    BY <2>3 DEF Clients
  <2>5. Shape' /\ ConfigsOK'
    BY <2>2, <2>3 DEF Shape, ConfigsOK
  <2>6. TypeOK'
    BY <2>2, <2>4 DEF TypeOK
  <2>7. HeldRunsCurrent' /\ CheckedConfig'
    BY <2>2, <2>3 DEF HeldRunsCurrent, CheckedConfig, Running
  <2> QED BY <2>5, <2>6, <2>7
<1> QED BY <1>1, <1>2, <1>3, <1>4 DEF MainStep

\* The process starts with no client and no request.
LEMMA WebInit == Init => WebInv
<1> SUFFICES ASSUME Init PROVE WebInv
  OBVIOUS
<1>1. Shape
  <2>1. req \in Requests({NoConfig}, {NoConfig})
    BY DEF Init, Idle, Requests, Labels
  <2>2. run \in Clients({NoConfig})
    BY DEF Init, Ended, Clients
  <2> QED BY <2>1, <2>2 DEF Shape
<1>2. TypeOK
  BY DEF Init, TypeOK, Idle, Ended, NoConfig, ParsedLevels
<1>3. ConfigsOK
  BY DEF Init, ConfigsOK, Idle
<1>4. Running = {}
  BY DEF Init, Running, Ended
<1> QED BY <1>1, <1>2, <1>3, <1>4 DEF WebInv, HeldRunsCurrent, CheckedConfig

\* The invariant holds as long as the process lives.
LEMMA WebInvariant == Spec => []WebInv
<1>1. WebInv /\ [Next]_vars => WebInv'
  BY QuietRequestStep, ApplyStep, ProcessStep DEF Next, SettingsStep
<1> QED BY <1>1, WebInit, PTL DEF Spec

\* main, controller, clients and requests keep their types.
THEOREM WebTypeCorrect == Spec => []TypeOK
  BY WebInvariant, PTL DEF WebInv

\* However many settings requests are between the two critical sections of
\* ApplyConfig, the client the controller holds runs with its configuration.
THEOREM HeldAlwaysCurrent == Spec => []HeldRunsCurrent
  BY WebInvariant, PTL DEF WebInv

\* No client runs with a configuration that LoadConfig's checks would have turned
\* down, whatever the environment and the forms said: a form laid over any snapshot
\* keeps what it does not carry, and what it carries is checked as strictly.
THEOREM ClientsChecked == Spec => []CheckedConfig
  BY WebInvariant, PTL DEF WebInv

\* What the checks leave to be desired is the scheme of the server and the sign of
\* the ping interval, nothing else of what Run needs.
THEOREM CheckedFallsShort ==
  ASSUME NEW c, Checked(c)
  PROVE  Runnable(c) <=> c.server # "ws" /\ c.ping = "positive"
  BY DEF Checked, Runnable, WebSocketURLs

-----------------------------------------------------------------------------
(* The token *)

\* As long as no token was typed there is one token, the environment's, and the
\* pages show its mask.
TokenOK ==
  /\ main = "load" => Running = {}
  /\ ~edited /\ main \notin {"load", "exited"} =>
       /\ \E env \in Envs : cfg.token = env.token
       /\ \A r \in Req :
            /\ req[r].pc \in {"page", "posted"} =>
                 /\ "token" \in DOMAIN req[r].form
                 /\ req[r].form.token = maskToken(cfg.token)
            /\ req[r].pc \in {"level", "swap"} => req[r].cfg.token = cfg.token
       /\ \A x \in Running : run[x].cfg.token = cfg.token

\* A form with the mask of the token leaves the token alone.
LEMMA MaskKeepsToken ==
  ASSUME NEW c, NEW form, form.token = maskToken(c.token)
  PROVE  Settings(c, form).token = c.token
  BY DEF Settings

\* A request that goes on, with its form and its configuration as TokenOK says,
\* under a configuration that has the same token.
LEMMA GoesKeepsToken ==
  ASSUME WebInv, TokenOK, NEW r \in Req, NEW label, Goes(r, label),
         main \notin {"load", "exited"}, UNCHANGED <<main, edited>>,
         ~edited =>
           /\ cfg'.token = cfg.token
           /\ label \in {"page", "posted"} =>
                /\ "token" \in DOMAIN req'[r].form
                /\ req'[r].form.token = maskToken(cfg.token)
           /\ label \in {"level", "swap"} => req'[r].cfg.token = cfg.token,
         ~edited =>
           \A x \in RunnerId : run'[x].state = "running" =>
             run'[x].cfg.token = cfg.token
  PROVE  TokenOK'
  BY DEF TokenOK, Goes, Running

\* The steps of a request.
LEMMA RequestToken ==
  ASSUME WebInv, TokenOK, NEW r \in Req,
         HandleIndex(r) \/ PostUnchanged(r) \/ SettingsStep(r)
  PROVE  TokenOK'
<1> USE DEF WebInv
<1>1. main \notin {"load", "exited"} /\ Checked(cfg) /\ UNCHANGED main
  BY BusyNotLoading
<1>2. UNCHANGED edited
  BY DEF HandleIndex, PostUnchanged, SettingsStep, SettingsRejected, SettingsTaken,
         SetGlobalLevel, ApplySwap, ApplyCancel, ApplyWait, ApplyStart
<1>3. ~edited => \A x \in RunnerId : run[x].state = "running" =>
                   run[x].cfg.token = cfg.token
  BY <1>1 DEF TokenOK, Running
<1>4. PICK F, C : req \in Requests(F, C)
  BY DEF Shape
<1>5. CASE HandleIndex(r)
  <2>1. Goes(r, "page") /\ UNCHANGED <<cfg, run>>
    BY <1>5, RequestGoes DEF HandleIndex
  <2>2. PICK assigned :
          req' = [req EXCEPT ![r].pc = "page", ![r].form = Rendered(cfg, assigned)]
    BY <1>5 DEF HandleIndex
  <2>3. req'[r].form = Rendered(cfg, assigned)
    BY <1>4, <2>2 DEF Requests
  <2>4. "token" \in DOMAIN req'[r].form /\ req'[r].form.token = maskToken(cfg.token)
    BY <1>1, <2>3 DEF Rendered, Checked
  <2> QED BY <1>1, <1>2, <1>3, <2>1, <2>4, GoesKeepsToken
<1>6. CASE PostUnchanged(r)
  <2>1. Goes(r, "posted") /\ UNCHANGED <<cfg, run>> /\ req[r].pc = "page"
    BY <1>6, RequestGoes DEF PostUnchanged
  <2>2. req'[r].form = req[r].form
    BY <1>4, <1>6 DEF PostUnchanged, Requests
  <2> QED BY <1>1, <1>2, <1>3, <2>1, <2>2, GoesKeepsToken DEF TokenOK
<1>7. CASE SettingsTaken(r)
  <2>1. /\ Goes(r, "level") /\ UNCHANGED <<cfg, run>> /\ req[r].pc = "posted"
        /\ req'[r].cfg = Settings(cfg, req[r].form)
    BY <1>7, RequestGoes DEF SettingsTaken, Handling
  <2>2. ~edited => req'[r].cfg.token = cfg.token
    BY <1>1, <2>1, MaskKeepsToken DEF TokenOK
  <2> QED BY <1>1, <1>2, <1>3, <2>1, <2>2, GoesKeepsToken
<1>8. CASE SetGlobalLevel(r)
  <2>1. /\ Goes(r, "swap") /\ UNCHANGED <<cfg, run>> /\ req[r].pc = "level"
        /\ req'[r].cfg = req[r].cfg
    BY <1>8, RequestGoes DEF SetGlobalLevel, Handling
  <2> QED BY <1>1, <1>2, <1>3, <2>1, GoesKeepsToken DEF TokenOK
<1>9. CASE ApplySwap(r)
  <2>1. PICK label \in {"start", "cancel"} : Goes(r, label)
    BY <1>9, RequestGoes
  <2>2. cfg' = req[r].cfg /\ UNCHANGED run /\ req[r].pc = "swap"
    BY <1>9 DEF ApplySwap, Handling
  <2>3. ~edited => cfg'.token = cfg.token
    BY <1>1, <2>2 DEF TokenOK
  <2> QED BY <1>1, <1>2, <1>3, <2>1, <2>2, <2>3, GoesKeepsToken
<1>10. CASE SettingsRejected(r) \/ ApplyWait(r)
  <2>1. \E label \in {"idle", "start"} : Goes(r, label)
    BY <1>10, RequestGoes
  <2>2. UNCHANGED <<cfg, run>>
    BY <1>10 DEF SettingsRejected, ApplyWait
  <2> QED BY <1>1, <1>2, <1>3, <2>1, <2>2, GoesKeepsToken
<1>11. CASE ApplyCancel(r)
  <2>1. Goes(r, "wait") /\ UNCHANGED cfg
    BY <1>11, RequestGoes DEF ApplyCancel
  <2>2. PICK D : run \in Clients(D)
    BY DEF Shape
  <2>3. \A x \in RunnerId : run'[x].state = run[x].state /\ run'[x].cfg = run[x].cfg
    BY <1>11, <2>2 DEF ApplyCancel, Clients
  <2> QED BY <1>1, <1>2, <1>3, <2>1, <2>3, GoesKeepsToken
<1>12. CASE ApplyStart(r)
  <2>1. Goes(r, "idle") /\ UNCHANGED cfg /\ startLocked(cfg)
    BY <1>12, RequestGoes DEF ApplyStart
  <2>2. PICK x \in RunnerId :
          /\ run'[x] = [state |-> "running", cancelled |-> FALSE, cfg |-> cfg]
          /\ \A y \in RunnerId \ {x} : run'[y] = run[y]
    BY <2>1, StartedClient
  <2> QED BY <1>1, <1>2, <1>3, <2>1, <2>2, GoesKeepsToken
<1> QED
  BY <1>5, <1>6, <1>7, <1>8, <1>9, <1>10, <1>11, <1>12 DEF SettingsStep

\* Every other step.
LEMMA TokenStep ==
  ASSUME WebInv, TokenOK, [Next]_vars
  PROVE  TokenOK'
<1> USE DEF WebInv
<1>1. CASE UNCHANGED <<main, cfg, run, req, edited>>
  BY <1>1 DEF TokenOK, Running
<1>2. ASSUME NEW r \in Req, NEW edit \in Edits, PostSettings(r, edit)
      PROVE  TokenOK'
  <2>1. /\ Goes(r, "posted") /\ UNCHANGED <<main, cfg, run>>
        /\ edited' = (edited \/ edit.field = "token")
        /\ req[r].pc = "page" /\ main \notin {"load", "exited"}
    BY <1>2, RequestGoes DEF PostSettings, Accepting
  <2>2. CASE edited'
    BY <2>1, <2>2 DEF TokenOK
  <2>3. CASE ~edited'
    <3>1. ~edited /\ edit.field # "token"
      BY <2>1, <2>3
    <3>2. PICK F, C : req \in Requests(F, C)
      BY DEF Shape
    <3>3. req'[r].form = [req[r].form EXCEPT ![edit.field] = edit.value]
      BY <1>2, <3>2 DEF PostSettings, Requests
    <3>4. /\ "token" \in DOMAIN req[r].form
          /\ req[r].form.token = maskToken(cfg.token)
      BY <2>1, <3>1 DEF TokenOK
    <3>5. /\ "token" \in DOMAIN req'[r].form
          /\ req'[r].form.token = maskToken(cfg.token)
      BY <3>1, <3>3, <3>4
    <3>6. \A x \in RunnerId : run[x].state = "running" =>
            run[x].cfg.token = cfg.token
      BY <2>1, <3>1 DEF TokenOK, Running
    <3>7. edited' = edited
      BY <2>1, <3>1 DEF TypeOK
    <3> QED BY <2>1, <3>5, <3>6, <3>7, GoesKeepsToken
  <2> QED BY <2>2, <2>3
<1>3. ASSUME NEW env \in Envs, MainStart(env)
      PROVE  TokenOK'
  <2>1. /\ main = "load" /\ main' = "serve" /\ UNCHANGED req
        /\ cfg'.token = env.token
        /\ startLocked(cfg')
    BY <1>3 DEF MainStart, LoadConfig
  <2>2. PICK x \in RunnerId :
          /\ run'[x] = [state |-> "running", cancelled |-> FALSE, cfg |-> cfg']
          /\ \A y \in RunnerId \ {x} : run'[y] = run[y]
    BY <2>1, StartedClient
  <2>3. \A r \in Req : req'[r].pc = "idle"
    BY <2>1 DEF ConfigsOK
  <2>4. \A y \in Running' : run'[y].cfg.token = cfg'.token
    BY <2>1, <2>2 DEF TokenOK, Running
  <2> QED BY <2>1, <2>3, <2>4 DEF TokenOK
<1>4. ASSUME NEW x \in RunnerId, RunnerReturns(x)
      PROVE  TokenOK'
  <2>1. PICK C : run \in Clients(C)
    BY DEF Shape
  <2>2. /\ UNCHANGED <<main, cfg, req, edited>>
        /\ run'[x].state = "returned"
        /\ \A y \in RunnerId \ {x} : run'[y] = run[y]
    BY <1>4, <2>1 DEF RunnerReturns, Clients, Ended
  <2>3. Running' \subseteq Running /\ \A y \in Running' : run'[y] = run[y]
    BY <2>2 DEF Running
  <2> QED BY <2>2, <2>3 DEF TokenOK
<1>5. CASE \/ \E env \in Envs : MainRejects(env)
           \/ MainShutdown \/ MainStop \/ MainExit \/ Signal \/ UIFails
  <2>1. /\ UNCHANGED <<cfg, run, req, edited>>
        /\ main' \in {main, "exited"}
             \/ (main \notin {"load", "exited"} /\ main' # "load")
    BY <1>5 DEF MainRejects, MainShutdown, MainStop, MainExit, Signal, UIFails
  <2> QED BY <2>1 DEF TokenOK, Running
<1> QED
  BY <1>1, <1>2, <1>3, <1>4, <1>5, RequestToken DEF Next, MainStep, vars

\* As long as no token was typed, the configuration and every client have the
\* token of the environment, whatever pages were shown and forms were sent.
THEOREM TokenKept == Spec => []UntouchedTokenKept
<1>1. Init => TokenOK
  BY DEF Init, TokenOK, Running, Ended
<1>2. WebInv /\ TokenOK /\ [Next]_vars => TokenOK'
  BY TokenStep
<1>3. TokenOK => UntouchedTokenKept
  BY DEF TokenOK, UntouchedTokenKept
<1> QED BY <1>1, <1>2, <1>3, WebInvariant, PTL DEF Spec
====
