------------------------------ MODULE MCDevices ------------------------------
(***************************************************************************)
(* Devices with one message of one character and five cells of which four, *)
(* one line, are on the screen; the cursor wraps in the middle of a line.  *)
(***************************************************************************)
EXTENDS Devices

MCMessages == {<<"m">>}
MCBanner == <<"b">>
=============================================================================
