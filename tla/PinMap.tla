-------------------------------- MODULE PinMap --------------------------------
(***************************************************************************)
(* What espbot_gpio.hpp promises of the pins: each is unprovisioned, an    *)
(* input or an output of its own, whatever is done with the others.        *)
(***************************************************************************)
CONSTANT Pins

VARIABLES
  mode,      \* of each pin: what it was last made
  drives,    \* of each pin: the level it is driven at, or "no"
  told       \* the last answer: a pin, and its mode or level

Init == /\ mode = [p \in Pins |-> "unprovisioned"] /\ drives = [p \in Pins |-> "no"]
        /\ told = <<"none">>

\* An output keeps its level, or its absence, until one is set.  A pin that is released
\* goes on as it was.
Become(p, m) ==
  /\ mode' = [mode EXCEPT ![p] = m]
  /\ \/ m = "input" /\ drives' = [drives EXCEPT ![p] = "no"]
     \/ m = "unprovisioned" /\ UNCHANGED drives
     \/ m = "output" /\ \E l \in {drives[p], "low", "high"} : drives' = [drives EXCEPT ![p] = l]

\* Only an output is driven.
Drive(p, l) == /\ mode[p] = "output" /\ UNCHANGED mode
               /\ drives' = [drives EXCEPT ![p] = l]

\* A request that is refused, or finds no heap for its answer, tells nothing of a pin.
Refuse == told' \in {<<"400">>, <<"500">>}

\* An answer is of the pin the request names, as the request leaves it.  The level of a pin
\* that is not driven is whatever is wired to it.
Tell(p) ==
  \/ told' = <<"200", p, mode'[p]>>
  \/ drives'[p] # "no" /\ mode'[p] # "unprovisioned" /\ told' = <<"200", p, drives'[p]>>
  \/ drives'[p] = "no" /\ mode'[p] # "unprovisioned"
     /\ \E l \in {"low", "high"} : told' = <<"200", p, l>>

Next ==
  \/ \E p \in Pins :
       /\ \/ \E m \in {"unprovisioned", "input", "output"} : Become(p, m)
          \/ \E l \in {"low", "high"} : Drive(p, l)
       /\ Tell(p) \/ Refuse \/ UNCHANGED told
  \/ \E p \in Pins : UNCHANGED <<mode, drives>> /\ Tell(p)
  \/ UNCHANGED <<mode, drives>> /\ Refuse

pinVars == <<mode, drives, told>>

Spec == Init /\ [][Next]_pinVars
===============================================================================
