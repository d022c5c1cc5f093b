---------------------------- MODULE RequestReply ----------------------------
(***************************************************************************)
(* What callers of libdrda rely on: a synchronous exchange.  A call waits  *)
(* for its own reply, hears all of it, and only then returns; the next     *)
(* call starts from a clean slate.  A call returns without the whole reply *)
(* only if the connection is gone.  Once the exchange is out of sync,      *)
(* nothing is promised.                                                    *)
(***************************************************************************)
EXTENDS Naturals

VARIABLES
    calls,   \* calls made; at most one is in progress
    phase,   \* "idle", "reading" or "dead"
    heard,   \* of the current reply: "none", "part" or "whole"
    lost,    \* the connection is gone
    sync     \* replies and calls are still matched

vars == <<calls, phase, heard, lost, sync>>

Init ==
    /\ calls = 0 /\ phase = "idle" /\ heard = "none"
    /\ lost = FALSE /\ sync = TRUE

(* A call begins only when the previous reply is entirely heard.           *)
Call ==
    /\ sync /\ phase = "idle"
    /\ calls = 0 \/ heard = "whole" \/ lost
    /\ calls' = calls + 1 /\ heard' = "none"
    /\ phase' \in {"reading"} \cup (IF lost THEN {"dead"} ELSE {})
    /\ UNCHANGED <<lost, sync>>

(* A part of the reply arrives, not yet its end: the call goes on.         *)
HearPart ==
    /\ sync /\ phase = "reading" /\ heard \in {"none", "part"}
    /\ heard' = "part"
    /\ UNCHANGED <<calls, phase, lost, sync>>

(* The end of the reply arrives: the call returns with it.                 *)
HearAll ==
    /\ sync /\ phase = "reading" /\ heard \in {"none", "part"}
    /\ heard' = "whole" /\ phase' = "idle"
    /\ UNCHANGED <<calls, lost, sync>>

(* The call gives up, which only a lost connection justifies.              *)
GiveUp ==
    /\ sync /\ phase = "reading" /\ lost
    /\ phase' = "idle"
    /\ UNCHANGED <<calls, heard, lost, sync>>

Lose == ~lost /\ lost' /\ UNCHANGED <<calls, phase, heard, sync>>

(* The framing breaks while a call is reading, and stays broken.           *)
LoseSync == sync /\ phase = "reading" /\ ~sync'
Astray == ~sync /\ ~sync'

Next == Call \/ HearPart \/ HearAll \/ GiveUp \/ Lose \/ LoseSync \/ Astray

Spec == Init /\ [][Next]_vars
=============================================================================
