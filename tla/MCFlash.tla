--------------------------------- MODULE MCFlash ---------------------------------
(* Instances of FTLExt and WearLeveling for TLC.  The two share no state (the wear *)
(* leveler has counters of its own here), so a behaviour exercises one of them.    *)
EXTENDS FTLExt, WearLeveling

VARIABLE part

FlashInit ==
    /\ part \in {"ext", "wear"}
    /\ ExtInit /\ WLInit
    /\ part = "ext" => algorithm = "DYNAMIC"

FlashNext ==
    /\ \/ part = "ext"  /\ ExtNext /\ UNCHANGED wl_vars
       \/ part = "wear" /\ WLNext  /\ UNCHANGED ext_vars
    /\ UNCHANGED part

FlashSpec == FlashInit /\ [][FlashNext]_<<part, ext_vars, wl_vars>>

\* The buffer and the tables keep their types; every block chosen keeps the wear even:
\* no block runs ahead of the others by more than one burst, and a fresh choice is one
\* of the least worn.
FlashSound == ExtTypeOK /\ WLTypeOK /\ SpreadBounded /\ FreshChoiceIsLeastWorn
================================================================================
