--------------------------- MODULE AppUploaderState ---------------------------
(***************************************************************************)
(* How far uploader.py is with its commands, the files it puts on the      *)
(* phone, and what must be true of them.  AppUploader has the steps.       *)
(***************************************************************************)
EXTENDS Naturals, Sequences

VARIABLES
    at,         \* the command of Commands the script is at, or "failed"
    program,    \* the size of this run's main.vxp
    main,       \* main.vxp on the phone: the bytes written, whether its end was, its full size
    autostart   \* per drive: autostart.txt on the phone

\* Mutated form of Commands: the program is removed while autostart.txt still names it.
CommandsAppFirst ==
    <<"AT", "EXIT_ALL", "mode", "root", "root", "createFolder", "root", "delete main",
      "root", "delete D", "root", "delete C",
      "open main", "data main", "close", "open autostart", "data autostart", "close",
      "ListFiles", "ListFiles", "ListFiles", "ListFiles", "ListFiles", "ListFiles",
      "ListFiles", "ListFiles", "mode", "REBOOT">>

\* The commands in the order main() sends them, those of createFolder, DeleteFile,
\* sendFile and sendAutostartTxt included; "data main" as often as it takes.
Commands ==
    <<"AT", "EXIT_ALL", "mode", "root", "root", "createFolder", "root", "delete D",
      "root", "delete C", "root", "delete main",
      "open main", "data main", "close", "open autostart", "data autostart", "close",
      "ListFiles", "ListFiles", "ListFiles", "ListFiles", "ListFiles", "ListFiles",
      "ListFiles", "ListFiles", "mode", "REBOOT">>

Ended == Len(Commands) + 1

Complete(f) == f.ended /\ f.bytes = f.of

\* Whenever the script is broken off or refused, an autostart.txt on the phone names a
\* program that is there as a whole.
AutostartSafe == (\E d \in {"C", "D"} : autostart[d] = "whole") => Complete(main)

\* A script that has ended well has put this run's program on the phone, up to its last
\* packet, and its autostart.txt, though some answers are not read.
UploadedWhenDone ==
    at = Ended => Complete(main) /\ main.of = program /\ autostart["C"] = "whole"
=============================================================================
