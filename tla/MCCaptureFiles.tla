-------------------------- MODULE MCCaptureFiles ----------------------------
(* Three captured requests, two of them of one key, over two days, with a    *)
(* failing operation and a restart anywhere.                                 *)
EXTENDS CaptureFiles, TLC

CONSTANTS e1, e2, e3, k1, k2

MCKeyOf == (e1 :> k1) @@ (e2 :> k1) @@ (e3 :> k2)
=============================================================================
