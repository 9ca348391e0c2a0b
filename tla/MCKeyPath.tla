------------------------------ MODULE MCKeyPath ------------------------------
(***************************************************************************)
(* Three keys: Backlight, one that goes down the menu and one that leaves  *)
(* it, in the order of the scan.                                           *)
(***************************************************************************)
EXTENDS KeyPathProps, TLC

CONSTANTS backlight, volume, exit

MCKeys == {backlight, volume, exit}
MCRank == volume :> 1 @@ exit :> 2 @@ backlight :> 3
MCNav  == volume :> "down" @@ exit :> "exit" @@ backlight :> "other"
=============================================================================
