------------------------------- MODULE MCWebUI -------------------------------
(* WebSession and Console in one run, as they are in WebUI_proofs.  The two *)
(* share no state, so one moves only while the other has not begun.         *)
(*                                                                          *)
(* WebSession: a laptop that holds the recover token and a laptop that      *)
(* holds the store token and the WEB_TOKEN.  A browser on the device itself *)
(* needs no session; none runs here (bound), the theorems cover it.  Each   *)
(* deployment is asked for routes of its own (bound).                       *)
(* Console: two servers and two keys.                                       *)
EXTENDS WebSession, Console

CONSTANTS guest, owner

MCTold == [c \in Client |-> IF c = guest THEN {"recover"} ELSE {"store"}]

Standard == [profile |-> "standard", field |-> TRUE, pinned |-> {}]
Field == [profile |-> "field", field |-> FALSE, pinned |-> {"recover"}]
Device == [profile |-> "standard", field |-> FALSE, pinned |-> {"store"}]
MCEnv == {Standard, Field, Device}

RouteAsked ==
    [e \in MCEnv |-> CASE e = Standard -> {"rotate_token"}
                       [] e = Field    -> {"reset_session"}
                       [] OTHER        -> {"brick", "destroy_face", "panic", "store_overwrite"}]
Asked == \A c \in Client : req[c].route \in {"none"} \union RouteAsked[env]

WebUIInit == Init /\ ConsoleInit
WebUINext ==
    \/ ConsoleInit /\ ~lsof /\ Next /\ Asked' /\ UNCHANGED consoleVars
    \/ Init /\ env = Standard /\ ConsoleNext /\ UNCHANGED vars
WebUISpec ==
    /\ WebUIInit /\ [][WebUINext]_<<vars, consoleVars>>
    /\ WF_consoleVars(TimerThread) /\ WF_consoleVars(Waits)
=============================================================================
