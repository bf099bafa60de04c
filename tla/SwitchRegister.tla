----------------------------- MODULE SwitchRegister -----------------------------
(***************************************************************************)
(* What the store switch promises to everyone who sets it: each request     *)
(* takes effect at one moment while it is under way, or is given up.        *)
(***************************************************************************)
CONSTANTS Setters

VARIABLES
    switch,   \* "on", "off", or "absent" before the first setting
    wanted    \* what each setter has asked for and not yet got, or "nothing"

regVars == <<switch, wanted>>

RegInit == switch = "absent" /\ wanted = [s \in Setters |-> "nothing"]

Ask(s) ==
    /\ wanted[s] = "nothing"
    /\ \E v \in {"on", "off"} : wanted' = [wanted EXCEPT ![s] = v]
    /\ UNCHANGED switch

TakeEffect(s) ==
    /\ wanted[s] # "nothing"
    /\ switch' = wanted[s]
    /\ wanted' = [wanted EXCEPT ![s] = "nothing"]

GiveUp(s) ==
    /\ wanted[s] # "nothing"
    /\ wanted' = [wanted EXCEPT ![s] = "nothing"]
    /\ UNCHANGED switch

RegNext == \E s \in Setters : Ask(s) \/ TakeEffect(s) \/ GiveUp(s)

RegSpec == RegInit /\ [][RegNext]_regVars
=================================================================================
