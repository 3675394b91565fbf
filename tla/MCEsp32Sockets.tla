---------------------------- MODULE MCEsp32Sockets ----------------------------
(* Instances of Esp32Sockets: sockets of the application are alike. *)
EXTENDS Esp32Sockets, TLC

Alike == Permutations(Handles)
=============================================================================
