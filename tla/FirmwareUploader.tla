-------------------------- MODULE FirmwareUploader --------------------------
(***************************************************************************)
(* firmwareUploader.py, run as often as the user likes: the script brings  *)
(* the phone's memory up through the boot ROM, starts the download agent   *)
(* (DA) in it, and through the agent erases and writes the flash.  Blocks  *)
(* are acknowledged one by one and sent again when their checksum fails.   *)
(*                                                                         *)
(* The phone is not in the repository: it is modelled from the answers the *)
(* script reads.  It may answer badly, damage a block, fall silent or be   *)
(* unplugged at any time; what is in the flash survives.  It may also hold *)
(* the script up: wherever that polls, by answering "not yet", and wherever *)
(* it writes, by not taking what is written.  An exception anywhere ends   *)
(* the script.                                                             *)
(***************************************************************************)
EXTENDS Naturals, Sequences, SequencesExt

CONSTANTS Blocks,      \* per image: how many blocks of DA_WRITE_SIZE its file has
          Tails,       \* the images with a rest, sent as one more block
          Timings,     \* bound: how many memory timings are tried (31)
          MaxDamage,   \* bound: blocks damaged
          MaxRuns,     \* bound: times the script is started
          Faults       \* steps at which the phone may answer badly

BootImages == <<"BOOTLOADER", "EXT_BOOTLOADER">>
RomImages == <<"ROM", "VIVA">>
Images == ToSet(BootImages) \cup ToSet(RomImages)

ASSUME ImageAssumption == Blocks \in [Images -> Nat] /\ Tails \subseteq Images
ASSUME TimingAssumption == Timings \in Nat \ {0}

VARIABLES
    stage,      \* the function main() is in
    native,     \* --native: run a test binary instead
    timing,     \* the memory timing set last
    ram,        \* the program sent to the phone's memory: "none", "whole" or "damaged"
    file,       \* the image DA_LoadImage sends, by its place in the stage's pair
    block,      \* the blocks of it that are done
    pc,         \* where DA_LoadImage and retrySend are
    rx,         \* bytes of the phone's answers the script has not read
    da,         \* what the agent does with what it gets
    sent,       \* the block it gets: its image and its number
    flash,      \* per image: the blocks in the flash, or Old
    formatted,  \* the FAT partition was formatted by this run
    alive,      \* the phone is connected and answers
    held,       \* it is not ready for what the script polls for, or does not take its bytes
    damaged,    \* history: how many blocks were damaged
    runs        \* history: how often the script was started

script == <<stage, native, timing, file, block, pc>>
phone == <<ram, rx, da, sent, flash, formatted, alive, held>>
vars == <<script, phone, damaged, runs>>

\* The order in which main() calls the functions.
Order == <<"connectBootloader", "BL_EMI_PSRAM_Calibration", "BL_PowerUpBaseband",
           "BL_UploadAndStartDA_Bootloader", "DA_WaitForSync", "DA_DetectFlash", "DA_FormatCBR",
           "DA_DownloadBootLoader", "LoadBootImages", "FinishResponse", "DA_SetMemBlock",
           "DA_WriteCMD",
           "LoadRomImages", "VerifyChecksums", "DA_doFATParition", "DA_disconnect", "done">>
Finished == {"done", "failed", "native"}
Bytes == {"CONT", "ACK", "ERROR", "CODE", "JUNK", "FLUSH"}

TypeOK ==
    /\ stage \in ToSet(Order) \cup Finished
    /\ native \in BOOLEAN
    /\ timing \in 0 .. Timings
    /\ ram \in {"none", "whole", "damaged"}
    /\ file \in 1 .. 2
    /\ block \in Nat
    /\ pc \in {"send", "answer", "code", "flush", "resend", "ack", "cont"}
    /\ rx \in Seq(Bytes) /\ Len(rx) <= 2
    /\ da \in {"idle", "received", "rejected", "again"}
    /\ sent \in [image : Images, number : Nat]
    /\ DOMAIN flash = Images
    /\ {formatted, alive, held} \subseteq BOOLEAN
    /\ damaged \in 0 .. MaxDamage /\ runs \in 1 .. MaxRuns

\* The blocks of an image, in order; the rest is the last of them.
Size(i) == Blocks[i] + (IF i \in Tails THEN 1 ELSE 0)
Whole(i) == [n \in 1 .. Size(i) |-> n]

\* What is in the flash before the image is written for the first time.
Old == <<0>>

Nothing == [image |-> "ROM", number |-> 0]

Reset ==
    /\ stage' = "connectBootloader"
    /\ native' \in BOOLEAN
    /\ timing' = 0 /\ ram' = "none"
    /\ file' = 1 /\ block' = 0 /\ pc' = "send"
    /\ rx' = << >> /\ da' = "idle" /\ sent' = Nothing /\ formatted' = FALSE /\ alive' = TRUE
    /\ held' = FALSE

Init ==
    /\ stage = "connectBootloader"
    /\ native \in BOOLEAN
    /\ timing = 0 /\ ram = "none"
    /\ file = 1 /\ block = 0 /\ pc = "send"
    /\ rx = << >> /\ da = "idle" /\ sent = Nothing /\ formatted = FALSE /\ alive = TRUE
    /\ held = FALSE
    /\ flash = [i \in Images |-> Old]
    /\ damaged = 0 /\ runs = 1

May(fault) == fault \in Faults

----------------------------------------------------------------------------
(* Functions of one command: the answers are right and main() goes on, or an *)
(* exception ends the script.                                                *)

Place(s) == CHOOSE n \in DOMAIN Order : Order[n] = s

\* Mutated form of Following: the flash of the ROM is prepared first.
FollowingRomFirst(s) ==
    CASE s = "DA_FormatCBR" -> "DA_SetMemBlock"
      [] s = "DA_SetMemBlock" -> "DA_DownloadBootLoader"
      [] s = "FinishResponse" -> "DA_WriteCMD"
      [] OTHER -> Order[Place(s) + 1]

Following(s) == Order[Place(s) + 1]

Fails == stage' = "failed" /\ UNCHANGED <<native, timing, file, block, pc>>

\* In each of these functions the script writes (ser.write has no timeout, and rtscts lets
\* the phone stop it) or polls: a register until a test or the power-up is finished, the
\* answers until 0xC0 or an ACK comes, as many as the phone says the format takes.  The
\* polls in between change nothing; only a phone that does not hold it lets it go on.
Exchanges(s) == stage = s /\ alive /\ ~held

Refused(s) == Exchanges(s) /\ May(s) /\ Fails /\ UNCHANGED phone

Done(s) ==
    /\ Exchanges(s)
    /\ stage' = Following(s)
    /\ UNCHANGED <<native, file, block, pc>>

\* connectBootloader and the hardware code main() then asks for.
connectBootloader ==
    Done("connectBootloader") /\ UNCHANGED <<timing, phone>>

\* One timing is set and tested; after a deep test that fails there is an exception.
TryTiming ==
    /\ Exchanges("BL_EMI_PSRAM_Calibration")
    /\ timing < Timings
    /\ timing' = timing + 1
    /\ stage' \in {stage, Following(stage)} \cup (IF May("deep_test") THEN {"failed"} ELSE {})
    /\ UNCHANGED <<native, file, block, pc, phone>>

NoTiming ==
    /\ Exchanges("BL_EMI_PSRAM_Calibration")
    /\ timing = Timings
    /\ Fails
    /\ UNCHANGED phone

\* BL_PowerUpBaseband and BL_RemapEMI.
BL_PowerUpBaseband ==
    Done("BL_PowerUpBaseband") /\ UNCHANGED <<timing, phone>>

\* writeFile: blocks to the memory, and the checksum the phone has computed.
Sent == IF May("upload") THEN {"whole", "damaged"} ELSE {"whole"}

BL_UploadAndStartDA_Bootloader ==
    /\ Exchanges("BL_UploadAndStartDA_Bootloader") /\ ~native
    /\ ram' \in Sent
    /\ stage' = IF ram' = "whole" THEN Following(stage) ELSE "failed"
    /\ UNCHANGED <<native, timing, file, block, pc, rx, da, sent, flash, formatted, alive, held>>

\* With --native the checksum is read and nothing is done with it.
RunNative ==
    /\ Exchanges("BL_UploadAndStartDA_Bootloader") /\ native
    /\ ram' \in Sent
    /\ stage' = "native"
    /\ UNCHANGED <<native, timing, file, block, pc, rx, da, sent, flash, formatted, alive, held>>

DA_WaitForSync == Done("DA_WaitForSync") /\ UNCHANGED <<timing, phone>>

\* The flash chip is looked up in a table, entry by entry; exhausted, it is an exception.
DA_DetectFlash == Done("DA_DetectFlash") /\ UNCHANGED <<timing, phone>>

DA_FormatCBR == Done("DA_FormatCBR") /\ UNCHANGED <<timing, phone>>

Erased(images) == [i \in Images |-> IF i \in ToSet(images) THEN << >> ELSE flash[i]]

\* The agent erases what is to be written.
DA_DownloadBootLoader ==
    /\ Done("DA_DownloadBootLoader")
    /\ flash' = Erased(BootImages)
    /\ UNCHANGED <<timing, ram, rx, da, sent, formatted, alive, held>>

\* The end of DA_DownloadBootLoader: its "download finish response" and status.
FinishResponse == Done("FinishResponse") /\ UNCHANGED <<timing, phone>>

\* With DA_CheckEFuse and DA_CBRInfo before it.
DA_SetMemBlock ==
    /\ Done("DA_SetMemBlock")
    /\ flash' = Erased(RomImages)
    /\ UNCHANGED <<timing, ram, rx, da, sent, formatted, alive, held>>

\* DA_ERASE_MAUI_INFO and the head of DA_WriteCMD.
DA_WriteCMD == Done("DA_WriteCMD") /\ UNCHANGED <<timing, phone>>

\* The end of DA_WriteCMD: the agent compares the checksums of both images.
VerifyChecksums ==
    /\ Exchanges("VerifyChecksums")
    /\ stage' = IF \A n \in 1 .. 2 : flash[RomImages[n]] = Whole(RomImages[n])
                 THEN Following(stage) ELSE "failed"
    /\ UNCHANGED <<native, timing, file, block, pc, phone>>

\* It is done as long as --nofatformat is not given.
DA_doFATParition ==
    /\ Done("DA_doFATParition")
    /\ formatted' \in BOOLEAN
    /\ UNCHANGED <<timing, ram, rx, da, sent, flash, alive, held>>

DA_disconnect == Done("DA_disconnect") /\ UNCHANGED <<timing, phone>>

----------------------------------------------------------------------------
(* DA_LoadImage and retrySend *)

Loading == stage \in {"LoadBootImages", "LoadRomImages"}
Pair == IF stage = "LoadBootImages" THEN BootImages ELSE RomImages
Image == Pair[file]

\* The script goes on to where in these two functions, or to the next function.
GoesTo(where) == pc' = where /\ UNCHANGED <<stage, native, timing, file, block>>

\* An agent that is connected gets the block.
Gets(how) ==
    IF alive THEN da' = how /\ sent' = [image |-> Image, number |-> block + 1]
             ELSE UNCHANGED <<da, sent>>

\* A block, its checksum, and before it an ACK.
SendBlock ==
    /\ Loading /\ pc = "send" /\ block < Size(Image) /\ ~held
    /\ GoesTo("answer")
    /\ Gets("received")
    /\ UNCHANGED <<ram, rx, flash, formatted, alive, held>>

\* The whole file is sent; that of an empty one is an exception.
NextImage ==
    /\ Loading /\ pc = "send" /\ block = Size(Image)
    /\ IF Size(Image) = 0 THEN Fails
       ELSE /\ block' = 0
            /\ IF file = 1 THEN file' = 2 /\ UNCHANGED stage
                           ELSE file' = 1 /\ stage' = Following(stage)
            /\ UNCHANGED <<native, timing, pc>>
    /\ UNCHANGED phone

Read(byte) == Loading /\ rx # << >> /\ Head(rx) = byte /\ rx' = Tail(rx)
ReadOther(byte) == Loading /\ rx # << >> /\ Head(rx) # byte /\ rx' = Tail(rx)
OnlyRead == UNCHANGED <<ram, da, sent, flash, formatted, alive, held>>

BlockDone == /\ block' = block + 1 /\ pc' = "send"
             /\ UNCHANGED <<stage, native, timing, file>>

Accepted == pc = "answer" /\ Read("CONT") /\ BlockDone /\ OnlyRead

NotAccepted == pc = "answer" /\ ReadOther("CONT") /\ GoesTo("code") /\ OnlyRead

\* The block with the rest of the file is not sent again: retrySend(var, crc) has one
\* argument too many, which is an exception.
IsRest == block = Blocks[Image]

ErrorCode ==
    /\ pc = "code" /\ Read("CODE") /\ OnlyRead
    /\ IF IsRest THEN Fails ELSE GoesTo("flush")

Waiting == pc = "flush" /\ ReadOther("FLUSH") /\ GoesTo("flush") /\ OnlyRead

Flushed == pc = "flush" /\ Read("FLUSH") /\ GoesTo("resend") /\ OnlyRead

\* CONT, ACK and the same block.
Resend ==
    /\ Loading /\ pc = "resend" /\ ~held
    /\ GoesTo("ack")
    /\ Gets("again")
    /\ UNCHANGED <<ram, rx, flash, formatted, alive, held>>

\* An ACK or not, it is one byte.
ResendAnswered ==
    /\ Loading /\ pc = "ack"
    /\ rx # << >> /\ rx' = Tail(rx)
    /\ GoesTo("cont")
    /\ OnlyRead

\* Mutated form of ResendAccepted: the loop does not go on to the next block.
ResendAcceptedStays == pc = "cont" /\ Read("CONT") /\ GoesTo("send") /\ OnlyRead

ResendAccepted == pc = "cont" /\ Read("CONT") /\ BlockDone /\ OnlyRead

ResendRejected == pc = "cont" /\ ReadOther("CONT") /\ Fails /\ OnlyRead

\* Mutated form of TimedOut: the script waits on.
TimedOutWaits == ~alive /\ rx = << >> /\ UNCHANGED <<script, phone>>

\* ser.read() gives up after 5 seconds, and what it returns cannot be unpacked.  A phone
\* that is only slow is the same to the script.  Not so the answers while the phone
\* formats, which DA_SetMemBlock does not look at: it counts them down all the same.
TimedOut ==
    /\ stage \notin Finished
    /\ Loading => pc \notin {"send", "resend"} /\ rx = << >>
    /\ stage = "DA_SetMemBlock" => ~held
    /\ ~alive \/ (May("slow") /\ Loading)
    /\ Fails
    /\ UNCHANGED phone

----------------------------------------------------------------------------
(* The phone *)

Stores(answer) ==
    /\ flash' = [flash EXCEPT ![sent.image] = Append(@, sent.number)]
    /\ rx' = rx \o answer
    /\ da' = "idle"
    /\ UNCHANGED damaged

Damage == damaged < MaxDamage /\ damaged' = damaged + 1

\* Mutated form of Receives: a damaged block goes to the flash.
ReceivesDamaged ==
    /\ da = "received"
    /\ \/ Stores(<<"CONT">>)
       \/ /\ Damage
          /\ rx' = rx \o <<"CONT">> /\ da' = "idle"
          /\ flash' = [flash EXCEPT ![sent.image] = Append(@, Size(sent.image) + 1)]

Receives ==
    /\ da = "received"
    /\ \/ Stores(<<"CONT">>)
       \/ Damage /\ rx' = rx \o <<"ERROR", "CODE">> /\ da' = "rejected" /\ UNCHANGED flash

\* It throws away what it has, says so, and waits.  As long as it holds the script up,
\* other bytes come.
Flushes ==
    /\ da = "rejected" /\ rx = << >>
    /\ \/ held /\ rx' = <<"JUNK">> /\ UNCHANGED da
       \/ rx' = <<"FLUSH">> /\ da' = "idle"
    /\ UNCHANGED <<flash, damaged>>

ReceivesAgain ==
    /\ da = "again"
    /\ \/ Stores(<<"ACK", "CONT">>)
       \/ Damage /\ rx' = rx \o <<"ACK", "ERROR">> /\ da' = "idle" /\ UNCHANGED flash

Agent ==
    /\ alive
    /\ Receives \/ Flushes \/ ReceivesAgain
    /\ UNCHANGED <<script, ram, sent, formatted, alive, held, runs>>

\* It holds the script up, or lets it go on.
HoldsUp ==
    /\ stage \notin Finished
    /\ held' = ~held /\ (alive \/ held)
    /\ UNCHANGED <<script, ram, rx, da, sent, flash, formatted, alive, damaged, runs>>

Unplug ==
    /\ alive /\ stage \notin Finished
    /\ alive' = FALSE
    /\ UNCHANGED <<script, ram, rx, da, sent, flash, formatted, held, damaged, runs>>

----------------------------------------------------------------------------
(* The specification *)

Command ==
    \/ \E s \in ToSet(Order) : Refused(s)
    \/ connectBootloader \/ TryTiming \/ NoTiming \/ BL_PowerUpBaseband
    \/ BL_UploadAndStartDA_Bootloader \/ RunNative \/ DA_WaitForSync
    \/ DA_DetectFlash \/ DA_FormatCBR \/ DA_DownloadBootLoader
    \/ FinishResponse \/ DA_SetMemBlock \/ DA_WriteCMD \/ VerifyChecksums
    \/ DA_doFATParition \/ DA_disconnect

DA_LoadImage == SendBlock \/ NextImage \/ Accepted \/ NotAccepted \/ ErrorCode

retrySend == Waiting \/ Flushed \/ Resend \/ ResendAnswered \/ ResendAccepted \/ ResendRejected

Script == (Command \/ DA_LoadImage \/ retrySend \/ TimedOut) /\ UNCHANGED <<damaged, runs>>

\* The phone is reset and the script is started again.
Restart ==
    /\ stage \in Finished /\ runs < MaxRuns
    /\ runs' = runs + 1
    /\ Reset
    /\ UNCHANGED <<flash, damaged>>

Next == Script \/ Agent \/ HoldsUp \/ Unplug \/ Restart

Spec == Init /\ [][Next]_vars

\* The script runs on, and the agent answers while it is connected.  Nothing makes the
\* phone let go of the script.
FairSpec == Spec /\ WF_vars(Script) /\ WF_vars(Agent)

----------------------------------------------------------------------------
(* Properties *)

\* The flash holds the blocks of each image once and in order, whatever was damaged,
\* sent again or broken off.
InOrder == \A i \in Images : flash[i] = Old \/ IsPrefix(flash[i], Whole(i))

\* "Update done" is printed only when all four images are in the flash, the boot loader's
\* too, whose checksum nobody asks for.
WholeWhenDone == stage = "done" => \A i \in Images : flash[i] = Whole(i)

\* The ROM is erased only once the boot loader is whole: the first run, broken off, leaves
\* one of them as it was.  A later run finds both as the earlier ones left them, and
\* nothing is promised of it.
OneAtATime ==
    \/ \A n \in 1 .. 2 : flash[BootImages[n]] = Whole(BootImages[n])
    \/ \A n \in 1 .. 2 : flash[RomImages[n]] = Old
    \/ runs > 1

\* The script ends, whether the phone answers, refuses, damages or is unplugged, as long as
\* it does not keep it polling or writing for ever.
Ends == <>[]~held => (stage = "connectBootloader" ~> stage \in Finished)
=============================================================================
