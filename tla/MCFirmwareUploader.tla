------------------------- MODULE MCFirmwareUploader -------------------------
(* Small images: none, one or two blocks, with and without a rest. *)
EXTENDS FirmwareUploader

MCBlocks == [i \in Images |-> CASE i = "BOOTLOADER" -> 1
                                [] i = "EXT_BOOTLOADER" -> 0
                                [] OTHER -> 2]
=============================================================================
