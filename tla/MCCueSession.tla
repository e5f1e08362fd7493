----------------------------- MODULE MCCueSession -----------------------------
(* Two objects and two workers.  The command line and the WebUI have a      *)
(* reference of each entry, a third view of either, and bindings of their   *)
(* own; the console, which binds nothing, has two operations at once on the *)
(* secret entry's reference, or on none.                                    *)
EXTENDS CueSession
CONSTANTS o1, o2

Unbound == [dummy |-> NoObject, secret |-> NoObject]
MCEarlier == {[dummy |-> o1, secret |-> o2], Unbound}
MCEarlierSecret == {[dummy |-> NoObject, secret |-> o2], Unbound}
=============================================================================
