---------------------------- MODULE AppUploader -----------------------------
(***************************************************************************)
(* uploader.py: the script that puts a program (main.vxp) on the phone, as *)
(* AT commands over a serial line, run as often as the user likes.  The    *)
(* phone starts the program named by autostart.txt, which is therefore     *)
(* removed first and written last.                                         *)
(*                                                                         *)
(* The phone is not in the repository: it executes commands in order and   *)
(* answers OK or ERROR.  Some answers the script does not read, and some   *)
(* errors it ignores, so an answer may be taken for another command's.     *)
(***************************************************************************)
EXTENDS AppUploaderState, SequencesExt

CONSTANTS WRITE_SIZE,  \* bytes of a packet (400)
          Sizes,       \* the sizes main.vxp may have
          MaxRuns,     \* bound: times the script is started
          Faults       \* commands the phone may refuse without a reason in its files; "slow", "hangs"

ASSUME SizesAssumption == WRITE_SIZE \in Nat \ {0} /\ Sizes \subseteq Nat

VARIABLES
    waiting,    \* the script waits for an answer
    size,       \* sendFile: the bytes left
    tx,         \* commands the phone has not executed
    rx,         \* answers the script has not read
    open,       \* the file open on the phone
    hung,       \* the phone has stopped answering
    runs        \* history: how often the script was started

script == <<at, waiting, size, program>>
line == <<tx, rx>>
files == <<open, main, autostart>>
vars == <<script, line, files, hung, runs>>

Failed == Len(Commands) + 2
Command == Commands[at]

\* The answers of these commands are not read.
Unread == {"EXIT_ALL", "REBOOT"}

\* Mutated form of IgnoreError: autostart.txt may fail too.
IgnoreErrorAutostart ==
    {"createFolder", "delete D", "delete C", "delete main", "ListFiles",
     "open autostart", "data autostart"}

\* An ERROR that answers one of these is passed over.
IgnoreError == {"createFolder", "delete D", "delete C", "delete main", "ListFiles"}

NoFile == [bytes |-> 0, ended |-> FALSE, of |-> 0]

TypeOK ==
    /\ at \in 1 .. Failed
    /\ waiting \in BOOLEAN
    /\ program \in Sizes /\ size \in 0 .. program
    /\ tx \in Seq([command : ToSet(Commands), len : Nat, eof : BOOLEAN, of : Nat])
    /\ rx \in Seq({"OK", "ERROR"})
    /\ open \in {"none", "main", "autostart"}
    /\ main \in [bytes : Nat, ended : BOOLEAN, of : Nat]
    /\ autostart \in [{"C", "D"} -> {"none", "empty", "whole"}]
    /\ hung \in BOOLEAN
    /\ runs \in 1 .. MaxRuns

\* A phone without a program, or with one that was uploaded before.
Init ==
    /\ at = 1 /\ waiting = FALSE
    /\ program \in Sizes /\ size = program
    /\ tx = << >> /\ rx = << >>
    /\ open = "none"
    /\ main \in {NoFile, [bytes |-> 1, ended |-> TRUE, of |-> 1]}
    /\ autostart \in [{"C", "D"} -> {"none"} \cup (IF Complete(main) /\ main.of > 0 THEN {"whole"} ELSE {})]
    /\ hung = FALSE
    /\ runs = 1

May(fault) == fault \in Faults

----------------------------------------------------------------------------
(* The script *)

Sends(len, eof) ==
    tx' = Append(tx, [command |-> Command, len |-> len, eof |-> eof, of |-> program])

\* SendCommand and SendCommandResult, but for the packets of main.vxp.
SendCommand ==
    /\ at <= Len(Commands) /\ ~waiting
    /\ Command \notin {"data main"} \cup Unread
    /\ (Command = "open main") => size > 0
    /\ Sends(0, FALSE)
    /\ waiting' = TRUE
    /\ UNCHANGED <<at, size, program, rx>>

\* An empty file is an exception, after everything was deleted.
EmptyFile ==
    /\ at <= Len(Commands) /\ ~waiting
    /\ Command = "open main" /\ size = 0
    /\ at' = Failed
    /\ UNCHANGED <<waiting, size, program, line>>

\* A full packet is the last one when just so much is left, and the rest always is.
EndsFile == size <= WRITE_SIZE

sendFile ==
    /\ at <= Len(Commands) /\ ~waiting
    /\ Command = "data main"
    /\ LET len == IF size >= WRITE_SIZE THEN WRITE_SIZE ELSE size IN
       Sends(len, EndsFile) /\ size' = size - len
    /\ waiting' = TRUE
    /\ UNCHANGED <<at, program, rx>>

\* Mutated form of ExitAll: the answer is read after it was thrown away.
ExitAllReads ==
    /\ at <= Len(Commands) /\ ~waiting
    /\ Command = "EXIT_ALL"
    /\ rx' = << >>
    /\ UNCHANGED tx \/ (May("slow") /\ Sends(0, FALSE))
    /\ waiting' = TRUE
    /\ UNCHANGED <<at, size, program>>

\* EXIT_ALL and two seconds later flushCom: the phone has answered by then, or is slow
\* and its answer is taken for the next command's.
ExitAll ==
    /\ at <= Len(Commands) /\ ~waiting
    /\ Command = "EXIT_ALL"
    /\ rx' = << >>
    /\ UNCHANGED tx \/ (May("slow") /\ Sends(0, FALSE))
    /\ at' = at + 1
    /\ UNCHANGED <<waiting, size, program>>

\* The phone starts again, and with it what it had not executed.
Reboot ==
    /\ at <= Len(Commands) /\ ~waiting
    /\ Command = "REBOOT"
    /\ Sends(0, FALSE)
    /\ at' = at + 1
    /\ UNCHANGED <<waiting, size, program, rx>>

\* ReadLine, and the loop of SendCommandResult: an answer, whichever command's it is.
\* After an ERROR that is not ignored there is an exception.
ReadLine ==
    /\ waiting /\ rx # << >>
    /\ rx' = Tail(rx)
    /\ waiting' = FALSE
    /\ at' = IF Head(rx) = "ERROR" /\ Command \notin IgnoreError THEN Failed
             ELSE IF Command = "data main" /\ size > 0 THEN at
             ELSE at + 1
    /\ UNCHANGED <<size, program, tx>>

Script ==
    /\ SendCommand \/ EmptyFile \/ sendFile \/ ExitAll \/ Reboot \/ ReadLine
    /\ UNCHANGED <<files, hung, runs>>

----------------------------------------------------------------------------
(* The phone *)

Executes(command) == tx # << >> /\ Head(tx).command = command /\ tx' = Tail(tx)
Answers(answer) == rx' = Append(rx, answer)
Drive(command) == IF command = "delete D" THEN "D" ELSE "C"

Refuses ==
    /\ tx # << >> /\ May(Head(tx).command)
    /\ tx' = Tail(tx) /\ Answers("ERROR")
    /\ UNCHANGED files

\* AT, EXIT_ALL, the mode, the folders and their lists.
Obeys ==
    /\ \E command \in {"AT", "EXIT_ALL", "mode", "root", "createFolder", "ListFiles"} :
          Executes(command)
    /\ Answers("OK")
    /\ UNCHANGED files

DeletesAutostart ==
    \E command \in {"delete C", "delete D"} :
        /\ Executes(command)
        /\ Answers(IF autostart[Drive(command)] = "none" THEN "ERROR" ELSE "OK")
        /\ autostart' = [autostart EXCEPT ![Drive(command)] = "none"]
        /\ UNCHANGED <<open, main>>

DeletesMain ==
    /\ Executes("delete main")
    /\ Answers(IF main = NoFile THEN "ERROR" ELSE "OK")
    /\ main' = NoFile
    /\ UNCHANGED <<open, autostart>>

\* A file that is opened to be written is empty.
Opens ==
    /\ \/ /\ Executes("open main")
          /\ open' = "main"
          /\ main' = [NoFile EXCEPT !.of = Head(tx).of]
          /\ UNCHANGED autostart
       \/ /\ Executes("open autostart")
          /\ open' = "autostart"
          /\ autostart' = [autostart EXCEPT !["C"] = "empty"]
          /\ UNCHANGED main
    /\ Answers("OK")

Writes ==
    /\ \/ /\ Executes("data main")
          /\ open = "main"
          /\ main' = [main EXCEPT !.bytes = @ + Head(tx).len, !.ended = Head(tx).eof]
          /\ UNCHANGED autostart
       \/ /\ Executes("data autostart")
          /\ open = "autostart"
          /\ autostart' = [autostart EXCEPT !["C"] = "whole"]
          /\ UNCHANGED main
    /\ Answers("OK")
    /\ UNCHANGED open

\* Data for a file that is not open.
NotOpen ==
    /\ \/ Executes("data main") /\ open # "main"
       \/ Executes("data autostart") /\ open # "autostart"
    /\ Answers("ERROR")
    /\ UNCHANGED files

Closes ==
    /\ Executes("close")
    /\ open' = "none"
    /\ Answers("OK")
    /\ UNCHANGED <<main, autostart>>

Starts ==
    /\ Executes("REBOOT")
    /\ open' = "none"
    /\ UNCHANGED <<rx, main, autostart>>

Phone ==
    /\ ~hung
    /\ \/ Refuses \/ Obeys \/ DeletesAutostart \/ DeletesMain \/ Opens
       \/ Writes \/ NotOpen \/ Closes \/ Starts
    /\ UNCHANGED <<script, hung, runs>>

Hangs ==
    /\ ~hung /\ May("hangs")
    /\ hung' = TRUE
    /\ UNCHANGED <<script, line, files, runs>>

----------------------------------------------------------------------------
(* The specification *)

\* The line is cut, which is an exception, or the user stops the script: what the phone
\* has not executed is lost.
BreakOff ==
    /\ at <= Len(Commands)
    /\ at' = Failed /\ waiting' = FALSE
    /\ tx' = << >> /\ rx' = << >>
    /\ open' \in {open, "none"}
    /\ UNCHANGED <<size, program, main, autostart, hung, runs>>

\* The script is started again, with the phone as it is or switched off and on, and
\* with a file that may be another; opening the port throws away what was received.
Restart ==
    /\ at \in {Failed, Ended} /\ tx = << >> /\ runs < MaxRuns
    /\ at' = 1 /\ waiting' = FALSE
    /\ program' \in Sizes /\ size' = program'
    /\ rx' = << >>
    /\ hung' = FALSE
    /\ open' \in {"none"} \cup (IF hung THEN {} ELSE {open})
    /\ runs' = runs + 1
    /\ UNCHANGED <<tx, main, autostart>>

Next == Script \/ Phone \/ Hangs \/ BreakOff \/ Restart

Spec == Init /\ [][Next]_vars

\* The script runs on, and a phone that does not hang answers.
FairSpec == Spec /\ WF_vars(Script) /\ WF_vars(Phone)

----------------------------------------------------------------------------
(* Properties *)

\* The script ends unless the phone falls silent, which ReadLine would wait out for ever.
ScriptEnds == at = 1 ~> (at \in {Failed, Ended} \/ hung)
=============================================================================
