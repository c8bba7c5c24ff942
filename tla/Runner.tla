-------------------------------- MODULE Runner --------------------------------
(***************************************************************************)
(* What clientController relies on in Client.Run (src/pkg/client): it runs *)
(* until its context is cancelled, whatever happens to the tunnel, and     *)
(* then returns.  WebUI is built on this; Reconnect implements it.         *)
(***************************************************************************)
VARIABLES
  running,  \* Run has not returned
  cancelled \* its context was cancelled

vars == <<running, cancelled>>

\* A client may be started after the process was told to end.
Init == running = TRUE /\ cancelled \in BOOLEAN

Cancel ==
  /\ ~cancelled
  /\ cancelled' = TRUE
  /\ UNCHANGED running

Return ==
  /\ running
  /\ cancelled
  /\ running' = FALSE
  /\ UNCHANGED cancelled

Next == Cancel \/ Return

Returns == cancelled ~> ~running

Spec == Init /\ [][Next]_vars /\ Returns
=============================================================================
