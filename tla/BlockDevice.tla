------------------------------ MODULE BlockDevice ------------------------------
(***************************************************************************)
(* What a host may rely on when it uses the flash translation layer as a   *)
(* block device: every logical block holds the data last written to it,    *)
(* and no operation on one block is seen through another.                  *)
(*                                                                         *)
(* The only licence a device with MayRefuse has is that a write it refuses *)
(* may cost the block its old contents: the block then reports an error on *)
(* every read until it is written or trimmed.  A refused write never       *)
(* leaves foreign data behind.                                             *)
(***************************************************************************)
CONSTANTS
    LBA,          \* logical block addresses
    Data,         \* page contents
    Zero,         \* the contents of a block never written, or trimmed
    Unreadable,   \* the block answers a read with an error
    MayRefuse     \* whether the device may refuse a write

VARIABLE content  \* what a read of each block returns

Init == content = [l \in LBA |-> Zero]

Write(l, d) == content' = [content EXCEPT ![l] = d]

WriteRefused(l) ==
    /\ MayRefuse
    /\ \/ UNCHANGED content
       \/ content' = [content EXCEPT ![l] = Unreadable]

Trim(l) == content' = [content EXCEPT ![l] = Zero]

Next ==
    \E l \in LBA :
        \/ \E d \in Data : Write(l, d)
        \/ WriteRefused(l)
        \/ Trim(l)

Spec == Init /\ [][Next]_content
================================================================================
