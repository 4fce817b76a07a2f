----------------------------- MODULE MCContrast -----------------------------
(* Values, for TLC, of the constants of Contrast.                             *)
EXTENDS Contrast

MCLocalSizes == {<<2, 2>>, <<3, 2>>, <<4, 3>>}

(* No limit, and one that cuts the tops off.                                  *)
MCClips == {-1, 1}
=============================================================================
