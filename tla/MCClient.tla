------------------------------ MODULE MCClient ------------------------------
(* A small site for TLC.  home has links whose idx is the q (113), too large *)
(* for a char (200), and equal to another one as a char (258 and 2); news    *)
(* has more references than are kept, and two links with one idx; broken has *)
(* a < that begins no reference, after a link.  The paths of news are longer *)
(* than those of home.                                                       *)
EXTENDS Client, TLC

CONSTANTS home, news, broken, logo, banner

SiteContent ==
    home :> <<Text(1), REF(logo), IDXREF(258, broken), IDXREF(2, news), IDXREF(113, news),
              IDXREF(200, news), REF(banner)>>
    @@ news :> <<REF(banner), REF(logo), REF(banner), IDXREF(2, banner), IDXREF(2, home)>>
    @@ broken :> <<IDXREF(7, home), Bad, REF(logo)>>
    @@ logo :> <<Text(2), IDXREF(1, logo)>>
    @@ banner :> <<Text(3)>>

SiteLength == home :> 1 @@ news :> 1 @@ broken :> 3 @@ logo :> 1 @@ banner :> 2
=============================================================================
