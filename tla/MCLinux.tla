------------------------------ MODULE MCLinux ------------------------------
(***************************************************************************)
(* Linux for TLC: pages of 4 addresses, the peripheral bases 4 pages       *)
(* apart, one block at the start of a page and one across the end of one.  *)
(***************************************************************************)
EXTENDS Linux, TLC

MCDevices == {"/dev/mem", "/dev/gpiomem"} \cup Adapters
MCSocPeriphBase == [BCM2835 |-> 16, BCM2836_7 |-> 32, BCM2711 |-> 48]
MCOffset == [GPIO |-> 0, CLOCK |-> 7]
MCSymmetry == Permutations(Objects) \cup Permutations(Maps)
              \cup Permutations(Transports)
MCSize   == [GPIO |-> 3, CLOCK |-> 2]
=============================================================================
