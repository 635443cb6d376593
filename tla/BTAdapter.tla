----------------------------- MODULE BTAdapter ------------------------------
(***************************************************************************)
(* The Bluetooth chip and connection manager (vmbt_cm.h), modelled from    *)
(* how LBTClient and LBTServer use it.  Switching on and off takes time:   *)
(* the power status changes at once, and an event follows when the chip is *)
(* done.  Events wait in the main thread's queue, so one can be delivered  *)
(* after the power has moved on.                                           *)
(***************************************************************************)
EXTENDS Sequences

CONSTANTS Faults,     \* the driver calls that may fail
          OtherUser   \* whether somebody else switches the chip too

VARIABLES
    power,   \* vm_bt_cm_get_power_status()
    cmq      \* connection manager events not yet delivered

adapter == <<power, cmq>>

PowerStatus == {"ON", "OFF", "SWITCHING_ON", "SWITCHING_OFF"}

AdapterType ==
    /\ power \in PowerStatus
    /\ cmq \in Seq({"ACTIVATE", "DEACTIVATE", "SET_VISIBILITY"})

AdapterInit == power \in PowerStatus /\ cmq = << >>

May(fault) == fault \in Faults

\* vm_bt_cm_switch_on() and vm_bt_cm_switch_off() succeed, or return an error.
SwitchOn == power = "OFF" /\ power' = "SWITCHING_ON"
SwitchOnFails == (power # "OFF" \/ May("switch_on")) /\ UNCHANGED power
SwitchOff == power = "ON" /\ power' = "SWITCHING_OFF"
SwitchOffFails == (power # "ON" \/ May("switch_off")) /\ UNCHANGED power

\* The chip is done; the event's result field says whether it succeeded, and no
\* callback of the repository looks at it.
Switched ==
    \/ /\ power = "SWITCHING_ON"
       /\ power' \in {"ON"} \cup (IF May("activate") THEN {"OFF"} ELSE {})
       /\ cmq' = Append(cmq, "ACTIVATE")
    \/ /\ power = "SWITCHING_OFF"
       /\ power' \in {"OFF"} \cup (IF May("deactivate") THEN {"ON"} ELSE {})
       /\ cmq' = Append(cmq, "DEACTIVATE")

\* Somebody else switches the chip while no event is under way.
OtherSwitches ==
    /\ OtherUser
    /\ cmq = << >>
    /\ SwitchOn \/ SwitchOff
    /\ UNCHANGED cmq

\* The oldest event reaches the callback.
Delivered(evt) ==
    /\ cmq # << >>
    /\ Head(cmq) = evt
    /\ cmq' = Tail(cmq)
=============================================================================
