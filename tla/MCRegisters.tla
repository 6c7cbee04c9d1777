---------------------------- MODULE MCRegisters ----------------------------
(***************************************************************************)
(* The register drivers for TLC: GPIO, the clock manager and SPI0.  They   *)
(* share no register, nor do the parts of the GPIO driver: a behaviour is  *)
(* one of pin functions, of pin events, of outputs, of pulls, of the clock *)
(* manager or of SPI0.                                                     *)
(*                                                                         *)
(* Pins are inputs, outputs or in alternate function 3 (the codes 000, 001 *)
(* and 111), and one word holds all three; pulls are down and up.  The     *)
(* clock values are at both ends of the fields, within and past them.      *)
(***************************************************************************)
EXTENDS GpioPads, Clock, Spi

VARIABLE driver  \* whose behaviour this is

regVars == <<gpioVars, padVars, vars, spiVars, driver>>

RegInit ==
  /\ GpioInit /\ PadInit /\ Init /\ SpiInit
  /\ driver \in {"functions", "events", "outputs", "pulls", "CLOCK", "SPI"}

RegNext ==
  /\ \/ driver = "functions" /\ FunctionNext /\ UNCHANGED <<padVars, vars, spiVars>>
     \/ driver = "events" /\ EventNext /\ UNCHANGED <<padVars, vars, spiVars>>
     \/ driver = "outputs" /\ OutputNext /\ UNCHANGED <<gpioVars, vars, spiVars>>
     \/ driver = "pulls" /\ PullNext /\ UNCHANGED <<gpioVars, vars, spiVars>>
     \/ driver = "CLOCK" /\ Next /\ UNCHANGED <<gpioVars, padVars, spiVars>>
     \/ driver = "SPI" /\ SpiNext /\ UNCHANGED <<gpioVars, padVars, vars>>
  /\ UNCHANGED driver

RegSpec == RegInit /\ [][RegNext]_regVars

MCFunctions == {{0}, {0, 1, 2}}
MCWords     == {{0, 24, 25, 26, 27}}
MCPulls     == {{0}, {1}}
MCValues    == {{0, 1, 12}, {3, 11, 24}}
MCSlaves    == {{0}, {1}}
MCModes     == {<<{}, {}>>, <<{0}, {}>>}
=============================================================================
