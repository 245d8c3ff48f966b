------------------------------- MODULE MCJournal -------------------------------
(***************************************************************************)
(* What the hardware is made to do, side by side: the journal with its     *)
(* LED, the pins that the LED hangs on, and the file system's flash.  A    *)
(* behaviour is about one of them, and part tells which.                   *)
(***************************************************************************)
EXTENDS MCDiagnostic, Gpio, MCFlash

VARIABLE part

JournalInit ==
  /\ part \in {"journal", "pins", "flash"} /\ Init /\ GpioInit /\ FlashInit
  /\ part # "flash" => \A a \in Memory : flash[a] = 1

JournalNext ==
  /\ UNCHANGED part
  /\ \/ part = "journal" /\ Next /\ UNCHANGED <<gpioVars, flashVars>>
     \/ part = "pins" /\ GpioNext /\ UNCHANGED <<vars, flashVars>>
     \/ part = "flash" /\ FlashNext /\ UNCHANGED <<vars, gpioVars>>

JournalSpec == JournalInit /\ [][JournalNext]_<<part, vars, gpioVars, flashVars>>
===============================================================================
