--------------------------------- MODULE Gpio ---------------------------------
(***************************************************************************)
(* The pins of espbot_gpio.cpp, which the routes and the journal's LED     *)
(* share.  gpio_cfg is two words of one bit per pin, and is lost at every  *)
(* restart; here each word is the set of the pins whose bit is 1.          *)
(*                                                                         *)
(* An output is driven from the first gpio_set on, not from gpio_config,   *)
(* and gpio_unconfig leaves the pin as it is.  No caller asks for a type   *)
(* or a level that does not exist.  What gpio_set reports when the LED's   *)
(* pin is an input is in Diagnostic.                                       *)
(***************************************************************************)
EXTENDS Integers

CONSTANTS
  D,          \* ESPBOT_D1 .. ESPBOT_D8
  DIA_LED,    \* the journal's
  NotAPin     \* an index that is none

ASSUME GpioConstants == DIA_LED \in D /\ NotAPin \notin D

Levels == {"low", "high"}

VARIABLES
  provisioned, type,   \* gpio_cfg
  driven, latch,      \* the output drivers: which are driven, and their levels
  led_used,            \* dia_cfg.led_used is not 0
  reply                \* the answer to the last request

gpioVars == <<provisioned, type, driven, latch, led_used, reply>>

Pins0 == [provisioned |-> provisioned, type |-> type, driven |-> driven, latch |-> latch]
Ok == "200"

GpioInit ==
  /\ provisioned = {} /\ type = {}
  /\ driven = {} /\ latch = [p \in D |-> "low"]
  /\ led_used = FALSE /\ reply = <<"none">>

-----------------------------------------------------------------------------
gpio_config_Alone(g, p, t) ==      \* mutant: the other bits of the type are lost
  LET g1 == [g EXCEPT !.provisioned = @ \cup {p}]
  IN  IF t = "input" THEN [g1 EXCEPT !.type = {}, !.driven = @ \ {p}]
      ELSE [g1 EXCEPT !.type = @ \cup {p}]

gpio_config(g, p, t) ==
  LET g1 == [g EXCEPT !.provisioned = @ \cup {p}]
  IN  IF t = "input" THEN [g1 EXCEPT !.type = @ \ {p}, !.driven = @ \ {p}]
      ELSE [g1 EXCEPT !.type = @ \cup {p}]

gpio_unconfig(g, p) == [g EXCEPT !.provisioned = @ \ {p}]

gpio_get_config(g, p) == IF p \notin g.provisioned THEN "unprovisioned"
                         ELSE IF p \in g.type THEN "output" ELSE "input"

\* Whatever is wired to a pin that is not driven gives its level.
gpio_read(g, p) == IF p \notin g.provisioned THEN {"unprovisioned"}
                   ELSE IF p \in g.driven THEN {g.latch[p]} ELSE Levels

SetFails(g, p) == p \notin g.provisioned \/ p \notin g.type
gpio_set_pin(g, p, l) == IF SetFails(g, p) THEN g
                     ELSE [g EXCEPT !.driven = @ \cup {p}, !.latch[p] = l]

Are(g) == /\ provisioned' = g.provisioned /\ type' = g.type
          /\ driven' = g.driven /\ latch' = g.latch

-----------------------------------------------------------------------------
\* The stringified answer takes heap, after the pin has been changed.
Replies(p, bodies) == reply' = <<"500">> \/ \E b \in bodies : reply' = <<Ok, p, b>>
WrongId(p) == p = NotAPin /\ reply' = <<"400">> /\ Are(Pins0)

getGpioCfg(p) ==
  \/ WrongId(p)
  \/ p \in D /\ Are(Pins0) /\ Replies(p, {gpio_get_config(Pins0, p)})

setPinCfg(p) ==
  \/ WrongId(p)
  \/ p \in D /\ reply' = <<"400">> /\ Are(Pins0)      \* a body that is not understood
  \/ /\ p \in D
     /\ \E t \in {"unprovisioned", "input", "output"} :
          LET g == IF t = "unprovisioned" THEN gpio_unconfig(Pins0, p)
                   ELSE gpio_config(Pins0, p, t)
          IN  Are(g) /\ Replies(p, {gpio_get_config(g, p)})

getGpioLevel(p) ==
  \/ WrongId(p)
  \/ p \in D /\ Are(Pins0) /\ Replies(p, gpio_read(Pins0, p))

setPinLevel(p) ==
  \/ WrongId(p)
  \/ p \in D /\ reply' = <<"400">> /\ Are(Pins0)      \* a body that is not understood
  \/ /\ p \in D
     /\ \E l \in Levels :
          LET g == gpio_set_pin(Pins0, p, l)
          IN  /\ Are(g)
              /\ IF SetFails(Pins0, p) THEN reply' = <<"400">>
                 ELSE Replies(p, gpio_read(g, p))

Request(p) ==
  /\ getGpioCfg(p) \/ setPinCfg(p) \/ getGpioLevel(p) \/ setPinLevel(p)
  /\ UNCHANGED led_used

\* The journal: dia_set_led_mask and dia_init_custom, dia_add_event and dia_ack_events.
LedMask(mask, shown) ==
  LET on == gpio_set_pin(gpio_config(Pins0, DIA_LED, "output"), DIA_LED, "high")
  IN  /\ IF ~mask THEN Are(gpio_unconfig(Pins0, DIA_LED))
         ELSE Are(IF shown THEN gpio_set_pin(on, DIA_LED, "low") ELSE on)
      /\ led_used' = mask /\ UNCHANGED reply
LedOn ==
  led_used /\ Are(gpio_set_pin(Pins0, DIA_LED, "low")) /\ UNCHANGED <<led_used, reply>>
LedOff ==
  led_used /\ Are(gpio_set_pin(Pins0, DIA_LED, "high")) /\ UNCHANGED <<led_used, reply>>

GpioNext ==
  \/ \E p \in D \cup {NotAPin} : Request(p)
  \/ \E mask, shown \in BOOLEAN : LedMask(mask, shown)
  \/ LedOn \/ LedOff

GpioSpec == GpioInit /\ [][GpioNext]_gpioVars

-----------------------------------------------------------------------------
Promised == INSTANCE PinMap WITH
  Pins <- D, mode <- [p \in D |-> gpio_get_config(Pins0, p)],
  drives <- [p \in D |-> IF p \in driven THEN latch[p] ELSE "no"],
  told <- reply

\* Two words of bits are a map of pins: no request and no event of the journal changes
\* the type or the level of a pin other than the one it names, an input never drives its
\* pin, an output's level is the last one that was set, and what a request is answered is
\* the pin as that request left it.
PinsApart == Promised!Spec
===============================================================================
