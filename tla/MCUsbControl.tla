---------------------------- MODULE MCUsbControl ----------------------------
(***************************************************************************)
(* A device like the one main.c builds, with an alternate setting and a    *)
(* second configuration, built in every order.                             *)
(***************************************************************************)
EXTENDS UsbControl, TLC

CONSTANTS c0, c1, g0, g1, i0, i1, e0, e1

MCConfs == {c0, c1}
MCIfs == {i0, i1}
MCConfValue == c0 :> 0 @@ c1 :> 1
MCIfNum == i0 :> 0 @@ i1 :> 0
MCIfAlt == i0 :> 0 @@ i1 :> 1
MCEps == {e0, e1}
MCEpNb == e0 :> 2 @@ e1 :> 2
MCEpDir == e0 :> 0 @@ e1 :> 1
=============================================================================
