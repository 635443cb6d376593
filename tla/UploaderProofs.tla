--------------------------- MODULE UploaderProofs ---------------------------
(***************************************************************************)
(* The two scripts that upload to the phone, each for any number of runs.  *)
(*                                                                         *)
(* firmwareUploader.py, for any sizes of the images, any damage and any    *)
(* faults: the flash holds the blocks of each image in order, a finished   *)
(* run has written all of them, and the first run spares the ROM until the *)
(* boot loader is whole.                                                   *)
(*                                                                         *)
(* uploader.py, for any sizes of the program, and a phone that refuses     *)
(* what it likes but the deletion of autostart.txt: autostart.txt names no *)
(* program that is not whole, and a script that has ended has put the      *)
(* program and its autostart.txt on the phone.                             *)
(***************************************************************************)
EXTENDS FirmwareUploader, AppUploaderState, SequenceTheorems, TLAPS

CONSTANTS WRITE_SIZE, Sizes   \* of AppUploader; MaxRuns and Faults are each script's own

VARIABLES waiting, size, tx, open, hung

App == INSTANCE AppUploader

\* The first n blocks of an image.
Upto(n) == [k \in 1 .. n |-> k]

Boot == {"BOOTLOADER", "EXT_BOOTLOADER"}
Rom == {"ROM", "VIVA"}

\* main()'s functions before, between and after the two that load images.
Early == {"connectBootloader", "BL_EMI_PSRAM_Calibration", "BL_PowerUpBaseband",
          "BL_UploadAndStartDA_Bootloader", "DA_WaitForSync", "DA_DetectFlash", "DA_FormatCBR",
          "DA_DownloadBootLoader"}
Between == {"FinishResponse", "DA_SetMemBlock", "DA_WriteCMD"}
Late == {"VerifyChecksums", "DA_doFATParition", "DA_disconnect", "done"}
Loads == {"LoadBootImages", "LoadRomImages"}

BootWhole == \A i \in Boot : flash[i] = Upto(Size(i))
RomWhole == \A i \in Rom : flash[i] = Upto(Size(i))
RomOld == \A i \in Rom : flash[i] = Old

FlashInv ==
    /\ flash \in [Images -> Seq(Nat)]
    /\ \A i \in Images : flash[i] = Old \/ \E n \in 0 .. Size(i) : flash[i] = Upto(n)

\* The agent has the block that is next in the flash, even if the script has given up.
Holds == da \in {"received", "again"}
AgentInv ==
    Holds => /\ sent.image \in Images
             /\ sent.number \in 1 .. Size(sent.image)
             /\ flash[sent.image] = Upto(sent.number - 1)

\* Where the script and the agent are in the exchange of a block, before the block is in
\* the flash and after.
Sending ==
    /\ flash[Image] = Upto(block)
    /\ \/ pc \in {"send", "resend"} /\ rx = << >> /\ da = "idle"
       \/ /\ pc \in {"answer", "ack"} /\ rx = << >>
          /\ \/ da = "idle" /\ ~alive
             \/ /\ da = (IF pc = "answer" THEN "received" ELSE "again")
                /\ sent = [image |-> Image, number |-> block + 1]
       \/ pc = "answer" /\ rx = <<"ERROR", "CODE">> /\ da = "rejected"
       \/ pc = "code" /\ rx = <<"CODE">> /\ da = "rejected"
       \/ pc = "flush" /\ rx \in {<< >>, <<"JUNK">>} /\ da = "rejected"
       \/ pc = "flush" /\ rx = <<"FLUSH">> /\ da = "idle"
       \/ pc = "ack" /\ rx = <<"ACK", "ERROR">> /\ da = "idle"
       \/ pc = "cont" /\ rx = <<"ERROR">> /\ da = "idle"

Stored ==
    /\ flash[Image] = Upto(block + 1)
    /\ da = "idle"
    /\ \/ pc = "answer" /\ rx = <<"CONT">>
       \/ pc = "ack" /\ rx = <<"ACK", "CONT">>
       \/ pc = "cont" /\ rx = <<"CONT">>

LoadInv ==
    stage \in Loads =>
        /\ file \in {1, 2}
        /\ file = 1 => flash[Pair[2]] = Upto(0)
        /\ file = 2 => flash[Pair[1]] = Upto(Size(Pair[1]))
        /\ block \in 0 .. Size(Image)
        /\ pc # "send" => block < Size(Image)
        /\ Sending \/ Stored

\* Everywhere else nothing is under way.
QuietInv ==
    stage \in Early \cup Between \cup Late =>
        file = 1 /\ block = 0 /\ pc = "send" /\ rx = << >> /\ da = "idle"

StageInv ==
    /\ stage \in Early \cup Loads \cup Between \cup Late \cup {"failed", "native"}
    /\ runs \in Nat \ {0}
    /\ stage \in Between \cup {"LoadRomImages"} \cup Late => BootWhole
    /\ stage = "DA_WriteCMD" => \A i \in Rom : flash[i] = Upto(0)
    /\ stage \in Late => RomWhole
    /\ stage \in Early \cup {"LoadBootImages"} /\ runs = 1 => RomOld

\* In the first run a block of the ROM reaches the agent only after the boot loader.
FirstInv == runs = 1 => BootWhole \/ (RomOld /\ (Holds => sent.image \in Boot))

IInv == FlashInv /\ AgentInv /\ LoadInv /\ QuietInv /\ StageInv /\ FirstInv

----------------------------------------------------------------------------
(* Images, blocks and the order of the functions *)

LEMMA ImagesLemma ==
    /\ Images = Boot \cup Rom
    /\ BootImages[1] = "BOOTLOADER" /\ BootImages[2] = "EXT_BOOTLOADER"
    /\ RomImages[1] = "ROM" /\ RomImages[2] = "VIVA"
    /\ ToSet(BootImages) = Boot /\ ToSet(RomImages) = Rom
<1>1. ToSet(BootImages) = Boot
  BY DEF ToSet, BootImages, Boot
<1>2. ToSet(RomImages) = Rom
  BY DEF ToSet, RomImages, Rom
<1> QED  BY <1>1, <1>2 DEF Images, BootImages, RomImages

LEMMA SizeLemma == \A i \in Images : Size(i) \in Nat
  BY ImageAssumption DEF Size

LEMMA UptoSeq ==
    ASSUME NEW n \in Nat
    PROVE  Upto(n) \in Seq(Nat) /\ Len(Upto(n)) = n
  BY DEF Upto

LEMMA UptoInjective ==
    ASSUME NEW m \in Nat, NEW n \in Nat, Upto(m) = Upto(n)
    PROVE  m = n
  BY UptoSeq

\* The next block makes a longer beginning.
LEMMA UptoAppend ==
    ASSUME NEW n \in Nat
    PROVE  Append(Upto(n), n + 1) = Upto(n + 1)
  BY DEF Upto

LEMMA UptoPrefix ==
    ASSUME NEW n \in Nat, NEW m \in 0 .. n
    PROVE  IsPrefix(Upto(m), Upto(n))
<1>1. Len(Upto(m)) = m /\ Len(Upto(n)) = n
  BY UptoSeq
<1>2. SubSeq(Upto(m), 1, m) = [k \in 1 .. m |-> k]
  BY DEF Upto
<1>3. SubSeq(Upto(n), 1, m) = [k \in 1 .. m |-> k]
  BY DEF Upto
<1> QED  BY <1>1, <1>2, <1>3 DEF IsPrefix

LEMMA UptoZero == Upto(0) = << >>
  BY DEF Upto

LEMMA WholeLemma == \A i \in Images : Whole(i) = Upto(Size(i))
  BY DEF Whole, Upto

LEMMA OrderLemma ==
    /\ ToSet(Order) = Early \cup Loads \cup Between \cup Late
    /\ \A s \in ToSet(Order) : \E n \in 1 .. 17 : Order[n] = s /\ Place(s) = n
<1>1. DOMAIN Order = 1 .. 17
  BY DEF Order
<1>2. ToSet(Order) = {Order[n] : n \in 1 .. 17}
  BY <1>1 DEF ToSet
<1>3. \A m, n \in 1 .. 17 : Order[m] = Order[n] => m = n
  BY DEF Order
<1>4. {Order[n] : n \in 1 .. 17} = Early \cup Loads \cup Between \cup Late
  BY DEF Order, Early, Loads, Between, Late
<1>5. ASSUME NEW n \in 1 .. 17 PROVE Place(Order[n]) = n
  BY <1>1, <1>3, <1>5 DEF Place
<1> QED  BY <1>2, <1>4, <1>5

LEMMA FollowingLemma ==
    /\ \A s \in Early \ {"DA_DownloadBootLoader"} : Following(s) \in Early
    /\ Following("DA_DownloadBootLoader") = "LoadBootImages"
    /\ Following("LoadBootImages") = "FinishResponse"
    /\ Following("FinishResponse") = "DA_SetMemBlock"
    /\ Following("DA_SetMemBlock") = "DA_WriteCMD"
    /\ Following("DA_WriteCMD") = "LoadRomImages"
    /\ Following("LoadRomImages") = "VerifyChecksums"
    /\ \A s \in Late \ {"done"} : Following(s) \in Late
<1>1. DOMAIN Order = 1 .. 17
  BY DEF Order
<1>3. \A m, n \in 1 .. 17 : Order[m] = Order[n] => m = n
  BY DEF Order
<1>5. ASSUME NEW n \in 1 .. 16 PROVE Following(Order[n]) = Order[n + 1]
  <2>1. Place(Order[n]) = n
    BY <1>1, <1>3 DEF Place
  <2> QED  BY <2>1 DEF Following
<1> QED  BY <1>5 DEF Order, Early, Late

----------------------------------------------------------------------------
(* What steps have in common *)

LEMMA InitIInv == Init => IInv
<1> SUFFICES ASSUME Init PROVE IInv
  OBVIOUS
<1>1. FlashInv
  <2>1. Old \in Seq(Nat)
    BY DEF Old
  <2> QED  BY <2>1 DEF Init, FlashInv
<1>2. AgentInv /\ LoadInv /\ QuietInv
  BY DEF Init, AgentInv, Holds, LoadInv, Loads, QuietInv
<1>3. RomOld
  BY ImagesLemma DEF Init, RomOld
<1>4. StageInv /\ FirstInv
  BY <1>3 DEF Init, StageInv, FirstInv, Holds, Early, Between, Late, Loads
<1> QED  BY <1>1, <1>2, <1>4 DEF IInv

\* A script that ends leaves the agent what it has.
LEMMA FailStep ==
    ASSUME IInv, stage' \in {"failed", "native"}, UNCHANGED <<da, sent, flash, runs>>
    PROVE  IInv'
<1>1. FlashInv' /\ AgentInv' /\ FirstInv'
  BY DEF IInv, FlashInv, AgentInv, FirstInv, Holds, BootWhole, RomOld
<1>2. LoadInv' /\ QuietInv'
  BY DEF LoadInv, QuietInv, Loads, Early, Between, Late
<1>3. StageInv'
  BY DEF IInv, StageInv, Early, Between, Late, Loads
<1> QED  BY <1>1, <1>2, <1>3 DEF IInv

\* main() goes from one function to the next, and the flash is left alone.
LEMMA QuietStep ==
    ASSUME IInv, stage \in Early \cup Between \cup Late,
           stage' \in Early \cup Between \cup Late, StageInv',
           UNCHANGED <<file, block, pc, rx, da, sent, flash, runs>>
    PROVE  IInv'
<1>1. FlashInv' /\ AgentInv' /\ FirstInv'
  BY DEF IInv, FlashInv, AgentInv, FirstInv, Holds, BootWhole, RomOld
<1>2. LoadInv' /\ QuietInv'
  BY DEF IInv, LoadInv, QuietInv, Loads, Early, Between, Late
<1> QED  BY <1>1, <1>2 DEF IInv

LEMMA PairLemma ==
    ASSUME stage \in Loads, file \in {1, 2}
    PROVE  /\ Image \in Images /\ Pair[1] \in Images /\ Pair[2] \in Images
           /\ Pair[1] # Pair[2] /\ Image = Pair[file]
           /\ stage = "LoadBootImages" => {Pair[1], Pair[2]} = Boot /\ Image \in Boot
           /\ stage = "LoadRomImages" => {Pair[1], Pair[2]} = Rom /\ Image \in Rom
<1>1. CASE stage = "LoadBootImages"
  <2>1. Pair[1] = "BOOTLOADER" /\ Pair[2] = "EXT_BOOTLOADER"
    BY <1>1, ImagesLemma DEF Pair
  <2> QED  BY <1>1, <2>1, ImagesLemma DEF Image, Boot
<1>2. CASE stage = "LoadRomImages"
  <2>1. Pair[1] = "ROM" /\ Pair[2] = "VIVA"
    BY <1>2, ImagesLemma DEF Pair
  <2> QED  BY <1>2, <2>1, ImagesLemma DEF Image, Rom
<1> QED  BY <1>1, <1>2 DEF Loads

\* The script goes on with the image it loads.
LEMMA LoadStep ==
    ASSUME IInv, stage \in Loads, UNCHANGED <<stage, file, flash, runs>>,
           block' \in 0 .. Size(Image), pc' # "send" => block' < Size(Image),
           Sending' \/ Stored'
    PROVE  IInv'
<1>1. FlashInv' /\ QuietInv' /\ StageInv'
  BY DEF IInv, FlashInv, QuietInv, StageInv, BootWhole, RomWhole, RomOld, Loads, Early,
         Between, Late
<1>2. Image' = Image /\ Pair' = Pair
  BY DEF Image, Pair
<1>3. LoadInv'
  BY <1>2 DEF IInv, LoadInv
<1>4. file \in {1, 2}
  BY DEF IInv, LoadInv
<1>5. Holds' => /\ sent' = [image |-> Image, number |-> block' + 1]
                /\ block' < Size(Image) /\ flash[Image] = Upto(block')
  <2>1. ASSUME Holds', Sending' PROVE pc' # "send"
                                      /\ sent' = [image |-> Image, number |-> block' + 1]
                                      /\ flash[Image] = Upto(block')
    BY <1>2, <2>1 DEF Sending, Holds
  <2>2. ASSUME Holds', Stored' PROVE FALSE
    BY <2>2 DEF Stored, Holds
  <2> QED  BY <2>1, <2>2
<1>6. Size(Image) \in Nat
  BY <1>4, PairLemma, SizeLemma
<1>7. AgentInv'
  <2>1. ASSUME Holds'
        PROVE  /\ sent'.image = Image /\ sent'.number = block' + 1
               /\ sent'.number - 1 = block' /\ sent'.number \in 1 .. Size(Image)
    BY <1>5, <1>6, <2>1
  <2> QED  BY <1>4, <1>5, <2>1, PairLemma DEF AgentInv
<1>8. FirstInv'
  <2>1. CASE stage = "LoadRomImages"
    BY <2>1 DEF IInv, StageInv, FirstInv, BootWhole
  <2>2. CASE stage = "LoadBootImages"
    <3>1. runs = 1 => RomOld
      BY <2>2 DEF IInv, StageInv
    <3>2. Holds' => sent'.image \in Boot
      BY <1>4, <1>5, <2>2, PairLemma
    <3> QED  BY <3>1, <3>2 DEF FirstInv, RomOld
  <2> QED  BY <2>1, <2>2 DEF Loads
<1> QED  BY <1>1, <1>3, <1>7, <1>8 DEF IInv

\* The facts a step of DA_LoadImage starts from.
LEMMA LoadFacts ==
    ASSUME IInv, Loading
    PROVE  /\ stage \in Loads /\ file \in {1, 2}
           /\ file = 1 => flash[Pair[2]] = Upto(0)
           /\ file = 2 => flash[Pair[1]] = Upto(Size(Pair[1]))
           /\ block \in 0 .. Size(Image) /\ block \in Nat /\ Size(Image) \in Nat
           /\ pc # "send" => block < Size(Image)
           /\ Sending \/ Stored
<1>1. stage \in Loads
  BY DEF Loading, Loads
<1>2. file \in {1, 2}
  BY <1>1 DEF IInv, LoadInv
<1>3. Size(Image) \in Nat
  BY <1>1, <1>2, PairLemma, SizeLemma
<1> QED  BY <1>1, <1>2, <1>3 DEF IInv, LoadInv

----------------------------------------------------------------------------
(* DA_LoadImage and retrySend *)

\* What is left of an answer when its first byte was read.
LEMMA ReadLemma ==
    /\ Head(<<"CONT">>) = "CONT" /\ Tail(<<"CONT">>) = << >>
    /\ Head(<<"CODE">>) = "CODE" /\ Tail(<<"CODE">>) = << >>
    /\ Head(<<"FLUSH">>) = "FLUSH" /\ Tail(<<"FLUSH">>) = << >>
    /\ Head(<<"ERROR">>) = "ERROR" /\ Tail(<<"ERROR">>) = << >>
    /\ Head(<<"ERROR", "CODE">>) = "ERROR" /\ Tail(<<"ERROR", "CODE">>) = <<"CODE">>
    /\ Head(<<"JUNK">>) = "JUNK" /\ Tail(<<"JUNK">>) = << >>
    /\ Head(<<"ACK", "ERROR">>) = "ACK" /\ Tail(<<"ACK", "ERROR">>) = <<"ERROR">>
    /\ Head(<<"ACK", "CONT">>) = "ACK" /\ Tail(<<"ACK", "CONT">>) = <<"CONT">>
  OBVIOUS

\* An answer that is read leaves a later place in the exchange, or ends the block.
LEMMA ReadStep ==
    ASSUME IInv, UNCHANGED <<runs, alive>>,
           Accepted \/ NotAccepted \/ ErrorCode \/ Waiting \/ Flushed
             \/ ResendAnswered \/ ResendAccepted \/ ResendRejected
    PROVE  IInv'
<1>1. ASSUME Accepted \/ ResendAccepted PROVE IInv'
  <2>1. /\ Loading /\ rx = <<"CONT">> /\ rx' = << >> /\ Stored
        /\ UNCHANGED <<stage, file, flash, da>> /\ block' = block + 1 /\ pc' = "send"
    BY <1>1, LoadFacts, ReadLemma DEF Accepted, ResendAccepted, Read, BlockDone, OnlyRead, Sending, Stored
  <2>2. block < Size(Image)
    BY <1>1, <2>1, LoadFacts DEF Accepted, ResendAccepted
  <2>3. Image' = Image
    BY <2>1 DEF Image, Pair
  <2>4. Sending'
    BY <2>1, <2>3 DEF Stored, Sending
  <2>5. block' \in 0 .. Size(Image)
    BY <2>1, <2>2, LoadFacts
  <2> QED  BY <2>1, <2>4, <2>5, LoadFacts, LoadStep
<1>2. ASSUME (ErrorCode /\ IsRest) \/ ResendRejected PROVE IInv'
  <2>1. stage' = "failed" /\ UNCHANGED <<da, sent, flash>>
    BY <1>2 DEF ErrorCode, ResendRejected, Fails, OnlyRead
  <2> QED  BY <2>1, FailStep
<1>3. ASSUME NotAccepted \/ (ErrorCode /\ ~IsRest) \/ Waiting \/ Flushed \/ ResendAnswered
      PROVE IInv'
  <2>1. Loading /\ UNCHANGED <<stage, file, flash, block, da, sent, alive>> /\ pc # "send"
    BY <1>3 DEF NotAccepted, ErrorCode, Waiting, Flushed, ResendAnswered, Read, ReadOther,
                OnlyRead, GoesTo
  <2>2. Image' = Image
    BY <2>1 DEF Image, Pair
  <2>3. Sending' \/ Stored'
    <3>1. CASE NotAccepted
      <4>1. rx = <<"ERROR", "CODE">> /\ rx' = <<"CODE">> /\ pc' = "code" /\ Sending
            /\ da = "rejected"
        BY <3>1, <2>1, LoadFacts, ReadLemma DEF NotAccepted, ReadOther, GoesTo, Sending, Stored
      <4> QED  BY <4>1, <2>1, <2>2 DEF Sending
    <3>2. CASE ErrorCode /\ ~IsRest
      <4>1. rx = <<"CODE">> /\ rx' = << >> /\ pc' = "flush" /\ Sending /\ da = "rejected"
        BY <3>2, <2>1, LoadFacts, ReadLemma DEF ErrorCode, Read, GoesTo, Sending, Stored
      <4> QED  BY <4>1, <2>1, <2>2 DEF Sending
    <3>3. CASE Waiting
      <4>1. rx = <<"JUNK">> /\ rx' = << >> /\ pc' = "flush" /\ Sending /\ da = "rejected"
        BY <3>3, <2>1, LoadFacts, ReadLemma DEF Waiting, ReadOther, GoesTo, Sending, Stored
      <4> QED  BY <4>1, <2>1, <2>2 DEF Sending
    <3>4. CASE Flushed
      <4>1. rx = <<"FLUSH">> /\ rx' = << >> /\ pc' = "resend" /\ Sending /\ da = "idle"
        BY <3>4, <2>1, LoadFacts, ReadLemma DEF Flushed, Read, GoesTo, Sending, Stored
      <4> QED  BY <4>1, <2>1, <2>2 DEF Sending
    <3>5. CASE ResendAnswered
      <4>1. pc' = "cont" /\ da = "idle"
            /\ \/ Sending /\ rx = <<"ACK", "ERROR">> /\ rx' = <<"ERROR">>
               \/ Stored /\ rx = <<"ACK", "CONT">> /\ rx' = <<"CONT">>
        BY <3>5, <2>1, LoadFacts, ReadLemma DEF ResendAnswered, GoesTo, Sending, Stored
      <4> QED  BY <4>1, <2>1, <2>2 DEF Sending, Stored
    <3> QED  BY <1>3, <3>1, <3>2, <3>3, <3>4, <3>5
  <2> QED  BY <2>1, <2>3, LoadFacts, LoadStep
<1> QED  BY <1>1, <1>2, <1>3

LEMMA SendStep ==
    ASSUME IInv, UNCHANGED runs, SendBlock \/ Resend
    PROVE  IInv'
<1>1. Loading /\ UNCHANGED <<stage, file, block, flash, rx, alive>>
  BY DEF SendBlock, Resend, GoesTo
<1>2. Image' = Image
  BY <1>1 DEF Image, Pair
<1>3. Sending /\ rx = << >> /\ da = "idle" /\ block < Size(Image)
  BY <1>1, LoadFacts DEF SendBlock, Resend, Sending, Stored
<1>4. Sending'
  <2>1. CASE SendBlock
    BY <1>1, <1>2, <1>3, <2>1 DEF SendBlock, GoesTo, Gets, Sending
  <2>2. CASE Resend
    BY <1>1, <1>2, <1>3, <2>2 DEF Resend, GoesTo, Gets, Sending
  <2> QED  BY <2>1, <2>2
<1> QED  BY <1>1, <1>3, <1>4, LoadFacts, LoadStep

LEMMA NextImageStep ==
    ASSUME IInv, UNCHANGED runs, NextImage
    PROVE  IInv'
<1>0. CASE Size(Image) = 0
  BY <1>0, FailStep DEF NextImage, Fails, phone
<1> SUFFICES ASSUME Size(Image) # 0 PROVE IInv'
  BY <1>0
<1>1. /\ Loading /\ stage \in Loads /\ pc = "send" /\ pc' = "send" /\ block' = 0
      /\ UNCHANGED <<rx, da, sent, flash, alive>>
      /\ block = Size(Image)
  BY LoadFacts DEF NextImage, phone
<1>2. Sending /\ rx = << >> /\ da = "idle" /\ flash[Image] = Upto(Size(Image))
  BY <1>1, LoadFacts DEF Sending, Stored
<1>3. FlashInv' /\ AgentInv' /\ FirstInv'
  BY <1>1 DEF IInv, FlashInv, AgentInv, FirstInv, Holds, BootWhole, RomOld
<1>4. CASE file = 1
  <2>1. stage' = stage /\ file' = 2 /\ Pair' = Pair /\ Image' = Pair[2] /\ Image = Pair[1]
    BY <1>4 DEF NextImage, Pair, Image
  <2>2. flash[Pair[2]] = Upto(0) /\ Size(Pair[2]) \in Nat
    BY <1>1, <1>4, LoadFacts, PairLemma, SizeLemma
  <2>3. Sending'
    BY <1>1, <1>2, <2>1, <2>2 DEF Sending
  <2>4. LoadInv'
    BY <1>1, <1>2, <2>1, <2>2, <2>3 DEF LoadInv
  <2>5. QuietInv' /\ StageInv'
    BY <1>1, <2>1 DEF IInv, QuietInv, StageInv, Loads, Early, Between, Late, BootWhole,
                      RomWhole, RomOld
  <2> QED  BY <1>3, <2>4, <2>5 DEF IInv
<1>5. CASE file = 2
  <2>1. file' = 1 /\ stage' = Following(stage) /\ Image = Pair[2]
    BY <1>5 DEF NextImage, Image
  <2>2. \A i \in {Pair[1], Pair[2]} : flash[i] = Upto(Size(i))
    BY <1>1, <1>2, <1>5, <2>1, LoadFacts
  <2>3. StageInv' /\ stage' \in Between \cup Late
    <3>1. CASE stage = "LoadBootImages"
      <4>1. stage' = "FinishResponse"
        BY <2>1, <3>1, FollowingLemma
      <4>2. BootWhole'
        BY <1>1, <1>5, <2>2, <3>1, PairLemma DEF BootWhole, Size
      <4> QED  BY <1>1, <4>1, <4>2 DEF IInv, StageInv, Between, Late, Early, Loads
    <3>2. CASE stage = "LoadRomImages"
      <4>1. stage' = "VerifyChecksums"
        BY <2>1, <3>2, FollowingLemma
      <4>2. RomWhole' /\ BootWhole'
        BY <1>1, <1>5, <2>2, <3>2, PairLemma DEF IInv, StageInv, RomWhole, BootWhole, Size
      <4> QED  BY <1>1, <4>1, <4>2 DEF IInv, StageInv, Between, Late, Early, Loads
    <3> QED  BY <1>1, <3>1, <3>2 DEF Loads
  <2>4. QuietInv' /\ LoadInv'
    BY <1>1, <1>2, <2>1, <2>3 DEF QuietInv, LoadInv, Loads, Between, Late
  <2> QED  BY <1>3, <2>3, <2>4 DEF IInv
<1> QED  BY <1>1, <1>4, <1>5, LoadFacts

----------------------------------------------------------------------------
(* The other functions of main() *)

\* A function that goes on to the next and leaves everything else alone.
LEMMA DoneStep ==
    ASSUME IInv, NEW s \in Early \cup Late, s \notin {"DA_DownloadBootLoader", "done"},
           stage = s, stage' \in {s, Following(s), "failed", "native"},
           UNCHANGED <<file, block, pc, rx, da, sent, flash, runs>>
    PROVE  IInv'
<1>1. CASE stage' \in {"failed", "native"}
  BY <1>1, FailStep
<1>2. CASE stage' \notin {"failed", "native"}
  <2>1. s \in Early => stage' \in Early
    BY <1>2, FollowingLemma
  <2>2. s \in Late => stage' \in Late
    BY <1>2, FollowingLemma
  <2>3. StageInv'
    BY <2>1, <2>2 DEF IInv, StageInv, Early, Between, Late, Loads, BootWhole, RomWhole, RomOld
  <2> QED  BY <2>1, <2>2, <2>3, QuietStep
<1> QED  BY <1>1, <1>2

LEMMA FinishStep ==
    ASSUME IInv, UNCHANGED runs, FinishResponse
    PROVE  IInv'
<1>1. /\ stage = "FinishResponse" /\ stage' = "DA_SetMemBlock"
      /\ UNCHANGED <<file, block, pc, rx, da, sent, flash>>
  BY FollowingLemma DEF FinishResponse, Done, Exchanges, phone
<1>2. StageInv'
  BY <1>1 DEF IInv, StageInv, Early, Between, Late, Loads, BootWhole
<1>3. {stage, stage'} \subseteq Between
  BY <1>1 DEF Between
<1> QED  BY <1>1, <1>2, <1>3, QuietStep

LEMMA DoneCommands ==
    ASSUME IInv, UNCHANGED runs,
           \/ connectBootloader \/ TryTiming \/ NoTiming \/ BL_PowerUpBaseband
           \/ BL_UploadAndStartDA_Bootloader \/ RunNative \/ DA_WaitForSync \/ DA_DetectFlash
           \/ DA_FormatCBR \/ VerifyChecksums \/ DA_doFATParition \/ DA_disconnect
    PROVE  IInv'
<1> USE DEF Done, Exchanges, phone, Early, Late
<1>1. CASE connectBootloader
  BY <1>1, DoneStep DEF connectBootloader
<1>2. CASE TryTiming
  BY <1>2, DoneStep DEF TryTiming
<1>3. CASE NoTiming
  BY <1>3, FailStep DEF NoTiming, Fails
<1>4. CASE BL_PowerUpBaseband
  BY <1>4, DoneStep DEF BL_PowerUpBaseband
<1>5. CASE BL_UploadAndStartDA_Bootloader
  BY <1>5, DoneStep DEF BL_UploadAndStartDA_Bootloader
<1>6. CASE RunNative
  BY <1>6, FailStep DEF RunNative
<1>7. CASE DA_WaitForSync
  BY <1>7, DoneStep DEF DA_WaitForSync
<1>8. CASE DA_DetectFlash
  BY <1>8, DoneStep DEF DA_DetectFlash
<1>9. CASE DA_FormatCBR
  BY <1>9, DoneStep DEF DA_FormatCBR
<1>10. CASE VerifyChecksums
  BY <1>10, DoneStep DEF VerifyChecksums
<1>11. CASE DA_doFATParition
  BY <1>11, DoneStep DEF DA_doFATParition
<1>12. CASE DA_disconnect
  BY <1>12, DoneStep DEF DA_disconnect
<1> QED  BY <1>1, <1>2, <1>3, <1>4, <1>5, <1>6, <1>7, <1>8, <1>9, <1>10, <1>11, <1>12

\* The boot loader is erased, which leaves the ROM.
LEMMA EraseBootStep ==
    ASSUME IInv, UNCHANGED runs, DA_DownloadBootLoader
    PROVE  IInv'
<1>1. /\ stage = "DA_DownloadBootLoader" /\ stage' = "LoadBootImages"
      /\ UNCHANGED <<file, block, pc, rx, da, sent>>
  BY FollowingLemma DEF DA_DownloadBootLoader, Done, Exchanges
<1>2. file = 1 /\ block = 0 /\ pc = "send" /\ rx = << >> /\ da = "idle"
  BY <1>1 DEF IInv, QuietInv, Early
<1>3. /\ \A i \in Boot : flash'[i] = Upto(0)
      /\ \A i \in Rom : flash'[i] = flash[i]
      /\ flash' = [i \in Images |-> IF i \in Boot THEN << >> ELSE flash[i]]
  BY ImagesLemma, UptoZero DEF DA_DownloadBootLoader, Erased, Boot, Rom
<1>4. FlashInv'
  <2>1. flash' \in [Images -> Seq(Nat)]
    BY <1>3 DEF IInv, FlashInv
  <2>2. \A i \in Images : flash'[i] = Old \/ \E n \in 0 .. Size(i) : flash'[i] = Upto(n)
    BY <1>3, SizeLemma, UptoZero DEF IInv, FlashInv
  <2> QED  BY <2>1, <2>2 DEF FlashInv, Size
<1>5. AgentInv' /\ QuietInv'
  BY <1>1, <1>2 DEF AgentInv, Holds, QuietInv, Early, Between, Late
<1>6. runs = 1 => RomOld'
  BY <1>1, <1>3 DEF IInv, StageInv, Early, RomOld
<1>7. StageInv' /\ FirstInv'
  BY <1>1, <1>2, <1>6 DEF IInv, StageInv, FirstInv, Holds, Early, Between, Late, Loads
<1>8. LoadInv'
  <2>1. Pair'[2] \in Boot /\ Image' \in Boot
    BY <1>1, <1>2, ImagesLemma DEF Pair, Image, Boot
  <2>2. Size(Image)' \in Nat
    BY <2>1, ImagesLemma, SizeLemma DEF Size
  <2>3. Sending'
    BY <1>1, <1>2, <1>3, <2>1 DEF Sending
  <2>4. (flash[Pair[2]])' = Upto(0)
    BY <1>1, <1>3, <2>1
  <2>5. (block \in 0 .. Size(Image))'
    BY <1>1, <1>2, <2>2
  <2> QED  BY <1>1, <1>2, <2>3, <2>4, <2>5 DEF LoadInv
<1> QED  BY <1>4, <1>5, <1>7, <1>8 DEF IInv

\* The ROM is erased once the boot loader is whole.
LEMMA EraseRomStep ==
    ASSUME IInv, UNCHANGED runs, DA_SetMemBlock
    PROVE  IInv'
<1>1. /\ stage = "DA_SetMemBlock" /\ stage' = "DA_WriteCMD"
      /\ UNCHANGED <<file, block, pc, rx, da, sent>>
  BY FollowingLemma DEF DA_SetMemBlock, Done, Exchanges
<1>2. file = 1 /\ block = 0 /\ pc = "send" /\ rx = << >> /\ da = "idle"
  BY <1>1 DEF IInv, QuietInv, Between
<1>3. /\ \A i \in Rom : flash'[i] = Upto(0)
      /\ \A i \in Boot : flash'[i] = flash[i]
      /\ flash' = [i \in Images |-> IF i \in Rom THEN << >> ELSE flash[i]]
  BY ImagesLemma, UptoZero DEF DA_SetMemBlock, Erased, Boot, Rom
<1>4. FlashInv'
  <2>1. flash' \in [Images -> Seq(Nat)]
    BY <1>3 DEF IInv, FlashInv
  <2>2. \A i \in Images : flash'[i] = Old \/ \E n \in 0 .. Size(i) : flash'[i] = Upto(n)
    BY <1>3, SizeLemma, UptoZero DEF IInv, FlashInv
  <2> QED  BY <2>1, <2>2 DEF FlashInv, Size
<1>5. AgentInv' /\ QuietInv' /\ LoadInv'
  BY <1>1, <1>2 DEF AgentInv, Holds, QuietInv, LoadInv, Loads, Early, Between, Late
<1>6. BootWhole'
  BY <1>1, <1>3 DEF IInv, StageInv, Between, BootWhole, Size
<1>7. StageInv' /\ FirstInv'
  BY <1>1, <1>3, <1>6 DEF IInv, StageInv, FirstInv, Early, Between, Late, Loads
<1> QED  BY <1>4, <1>5, <1>7 DEF IInv

LEMMA WriteCMDStep ==
    ASSUME IInv, UNCHANGED runs, DA_WriteCMD
    PROVE  IInv'
<1>1. /\ stage = "DA_WriteCMD" /\ stage' = "LoadRomImages"
      /\ UNCHANGED <<file, block, pc, rx, da, sent, flash, alive>>
  BY FollowingLemma DEF DA_WriteCMD, Done, Exchanges, phone
<1>2. file = 1 /\ block = 0 /\ pc = "send" /\ rx = << >> /\ da = "idle"
  BY <1>1 DEF IInv, QuietInv, Between
<1>3. BootWhole /\ \A i \in Rom : flash[i] = Upto(0)
  BY <1>1 DEF IInv, StageInv, Between
<1>4. FlashInv' /\ AgentInv' /\ FirstInv'
  BY <1>1 DEF IInv, FlashInv, AgentInv, FirstInv, Holds, BootWhole, RomOld
<1>5. QuietInv' /\ StageInv'
  BY <1>1, <1>3 DEF IInv, QuietInv, StageInv, Early, Between, Late, Loads, BootWhole
<1>6. LoadInv'
  <2>1. Pair'[2] \in Rom /\ Image' \in Rom
    BY <1>1, <1>2, ImagesLemma DEF Pair, Image, Rom
  <2>2. Size(Image)' \in Nat
    BY <2>1, ImagesLemma, SizeLemma DEF Size
  <2>3. Sending'
    BY <1>1, <1>2, <1>3, <2>1 DEF Sending
  <2>4. (flash[Pair[2]])' = Upto(0)
    BY <1>1, <1>3, <2>1
  <2>5. (block \in 0 .. Size(Image))'
    BY <1>1, <1>2, <2>2
  <2> QED  BY <1>1, <1>2, <2>3, <2>4, <2>5 DEF LoadInv
<1> QED  BY <1>4, <1>5, <1>6 DEF IInv

LEMMA ScriptStep == IInv /\ Script => IInv'
<1> SUFFICES ASSUME IInv, Script PROVE IInv'
  OBVIOUS
<1>0. UNCHANGED runs
  BY DEF Script
<1>1. ASSUME NEW s \in ToSet(Order), Refused(s) PROVE IInv'
  BY <1>0, <1>1, FailStep DEF Refused, Fails, phone
<1>2. CASE TimedOut
  BY <1>0, <1>2, FailStep DEF TimedOut, Fails, phone
<1>3. CASE DA_LoadImage
  <2>1. Accepted \/ NotAccepted \/ ErrorCode => UNCHANGED alive
    BY DEF Accepted, NotAccepted, ErrorCode, OnlyRead
  <2> QED  BY <1>0, <1>3, <2>1, SendStep, NextImageStep, ReadStep DEF DA_LoadImage
<1>4. CASE retrySend
  <2>1. Waiting \/ Flushed \/ ResendAnswered \/ ResendAccepted \/ ResendRejected
          => UNCHANGED alive
    BY DEF Waiting, Flushed, ResendAnswered, ResendAccepted, ResendRejected, OnlyRead
  <2> QED  BY <1>0, <1>4, <2>1, SendStep, ReadStep DEF retrySend
<1>5. CASE Command
  BY <1>0, <1>1, <1>5, DoneCommands, FinishStep, EraseBootStep, EraseRomStep, WriteCMDStep DEF Command
<1> QED  BY <1>2, <1>3, <1>4, <1>5 DEF Script

----------------------------------------------------------------------------
(* The agent *)

\* A block goes to the flash: it is the next one of an image that may be written.
LEMMA StoreStep ==
    ASSUME IInv, Holds, da' = "idle", sent' = sent, alive,
           flash' = [flash EXCEPT ![sent.image] = Append(@, sent.number)],
           rx' = rx \o (IF da = "received" THEN <<"CONT">> ELSE <<"ACK", "CONT">>),
           UNCHANGED <<stage, file, block, pc, runs>>
    PROVE  IInv'
<1> DEFINE img == sent.image
           num == sent.number
<1>1. /\ img \in Images /\ num \in 1 .. Size(img) /\ Size(img) \in Nat
      /\ flash[img] = Upto(num - 1) /\ flash \in [Images -> Seq(Nat)]
  BY SizeLemma DEF IInv, AgentInv, FlashInv
<1>2. /\ \A i \in Images : i # img => flash'[i] = flash[i]
      /\ flash'[img] = Append(flash[img], num)
  BY <1>1
<1>3. Append(flash[img], num) = Upto(num)
  <2>1. num - 1 \in Nat /\ (num - 1) + 1 = num
    BY <1>1
  <2> QED  BY <1>1, <2>1, UptoAppend
<1>4. flash'[img] = Upto(num)
  BY <1>2, <1>3
<1> HIDE DEF img, num
<1>5. FlashInv'
  <2>1. Upto(num) \in Seq(Nat)
    BY <1>1, UptoSeq
  <2>2. flash' \in [Images -> Seq(Nat)]
    BY <1>1, <1>2, <1>3, <2>1 DEF img, num
  <2>3. ASSUME NEW i \in Images
        PROVE  flash'[i] = Old \/ \E n \in 0 .. Size(i) : flash'[i] = Upto(n)
    <3>1. CASE i = img
      <4>1. num \in 0 .. Size(i) /\ flash'[i] = Upto(num)
        BY <1>1, <1>4, <3>1
      <4> QED  BY <4>1
    <3>2. CASE i # img
      BY <1>2, <3>2 DEF IInv, FlashInv
    <3> QED  BY <3>1, <3>2
  <2> QED  BY <2>2, <2>3 DEF FlashInv, Size
<1>6. AgentInv' /\ QuietInv'
  BY DEF IInv, AgentInv, QuietInv, Holds
<1>7. stage \in Loads \cup {"failed", "native"}
  BY DEF IInv, StageInv, QuietInv, Holds
<1>8. ASSUME stage \in Loads
      PROVE  img = Image /\ num = block + 1 /\ rx = << >> /\ file \in {1, 2}
             /\ pc = (IF da = "received" THEN "answer" ELSE "ack")
  <2>1. Sending /\ ~Stored
    BY <1>8 DEF IInv, LoadInv, Stored, Holds
  <2> QED  BY <1>8, <2>1 DEF IInv, LoadInv, Sending, Holds, img, num
<1>9. LoadInv'
  <2> SUFFICES ASSUME stage \in Loads PROVE LoadInv'
    BY DEF LoadInv
  <2>1. Image' = Image /\ Pair' = Pair
    BY DEF Image, Pair
  <2>2. rx' = IF da = "received" THEN <<"CONT">> ELSE <<"ACK", "CONT">>
    BY <1>8
  <2>3. Stored'
    BY <1>4, <1>8, <2>1, <2>2 DEF Stored, Holds
  <2>4. file = 1 => (flash[Pair[2]])' = Upto(0)
    BY <1>2, <1>8, <2>1, PairLemma DEF IInv, LoadInv
  <2>5. file = 2 => (flash[Pair[1]])' = Upto(Size(Pair[1]))
    BY <1>2, <1>8, <2>1, PairLemma DEF IInv, LoadInv
  <2> QED  BY <2>1, <2>3, <2>4, <2>5 DEF IInv, LoadInv, Size
<1>10. StageInv'
  <2>1. CASE stage = "LoadRomImages"
    <3>1. img \in Rom /\ BootWhole
      BY <1>8, <2>1, PairLemma DEF IInv, StageInv, Loads
    <3>2. BootWhole'
      BY <1>2, <3>1, ImagesLemma DEF BootWhole, Boot, Rom, Size
    <3> QED  BY <2>1, <3>2 DEF IInv, StageInv, Early, Between, Late
  <2>2. CASE stage = "LoadBootImages"
    <3>1. img \in Boot
      BY <1>8, <2>2, PairLemma DEF Loads
    <3>2. RomOld => RomOld'
      BY <1>2, <3>1, ImagesLemma DEF RomOld, Boot, Rom
    <3> QED  BY <2>2, <3>2 DEF IInv, StageInv, Early, Between, Late
  <2>3. CASE stage \in {"failed", "native"}
    BY <2>3 DEF IInv, StageInv, Early, Between, Late, Loads
  <2> QED  BY <1>7, <2>1, <2>2, <2>3 DEF Loads
<1>11. FirstInv'
  <2>1. CASE runs = 1 /\ BootWhole
    <3>1. img \notin Boot
      <4> SUFFICES ASSUME img \in Boot PROVE FALSE
        OBVIOUS
      <4>1. Upto(num - 1) = Upto(Size(img)) /\ num - 1 \in Nat
        BY <1>1, <2>1 DEF BootWhole
      <4>2. num - 1 = Size(img)
        BY <1>1, <4>1, UptoInjective
      <4> QED  BY <1>1, <4>2
    <3>2. BootWhole'
      BY <1>2, <2>1, <3>1, ImagesLemma DEF BootWhole, Size
    <3> QED  BY <3>2 DEF FirstInv
  <2>2. CASE runs = 1 /\ RomOld /\ img \in Boot
    <3>1. RomOld'
      BY <1>2, <2>2, ImagesLemma DEF RomOld, Boot, Rom
    <3> QED  BY <3>1 DEF FirstInv, Holds
  <2> QED  BY <2>1, <2>2 DEF IInv, FirstInv, img
<1> QED  BY <1>5, <1>6, <1>9, <1>10, <1>11 DEF IInv

\* The agent answers, and what is in the flash stays.
LEMMA AnswerStep ==
    ASSUME IInv, ~Holds', stage \in Loads => Sending',
           stage \notin Early \cup Between \cup Late,
           UNCHANGED <<stage, file, block, pc, flash, runs>>
    PROVE  IInv'
<1>1. FlashInv' /\ AgentInv' /\ StageInv' /\ QuietInv'
  BY DEF IInv, FlashInv, AgentInv, StageInv, QuietInv, BootWhole, RomWhole, RomOld
<1>2. FirstInv'
  BY DEF IInv, FirstInv, BootWhole, RomOld
<1>3. LoadInv'
  <2>1. Image' = Image /\ Pair' = Pair
    BY DEF Image, Pair
  <2> QED  BY <2>1 DEF IInv, LoadInv
<1> QED  BY <1>1, <1>2, <1>3 DEF IInv

LEMMA AgentStep == IInv /\ Agent => IInv'
<1> SUFFICES ASSUME IInv, Agent PROVE IInv'
  OBVIOUS
<1>1. alive /\ UNCHANGED <<stage, file, block, pc, sent, alive, runs>>
  BY DEF Agent, script
<1>2. Image' = Image
  BY <1>1 DEF Image, Pair
<1>3. ASSUME stage \in Loads, da # "idle" PROVE Sending
  BY <1>3 DEF IInv, LoadInv, Stored
<1>4. da # "idle" => stage \notin Early \cup Between \cup Late
  BY DEF IInv, QuietInv
<1>5. CASE Receives
  <2>1. CASE Stores(<<"CONT">>)
    BY <1>1, <1>5, <2>1, StoreStep DEF Receives, Stores, Holds
  <2>2. CASE rx' = rx \o <<"ERROR", "CODE">> /\ da' = "rejected" /\ UNCHANGED flash
    <3>1. da = "received"
      BY <1>5 DEF Receives
    <3>2. stage \in Loads => Sending'
      <4> SUFFICES ASSUME stage \in Loads PROVE Sending'
        OBVIOUS
      <4>1. rx = << >> /\ pc = "answer" /\ Sending
        BY <1>3, <3>1 DEF Sending
      <4>2. rx' = <<"ERROR", "CODE">>
        BY <2>2, <4>1
      <4> QED  BY <1>1, <1>2, <2>2, <4>1, <4>2 DEF Sending
    <3> QED  BY <1>1, <1>4, <2>2, <3>1, <3>2, AnswerStep DEF Holds
  <2> QED  BY <1>5, <2>1, <2>2 DEF Receives
<1>6. CASE Flushes
  <2>1. /\ da = "rejected" /\ rx = << >> /\ UNCHANGED flash
        /\ \/ rx' = <<"JUNK">> /\ da' = da
           \/ rx' = <<"FLUSH">> /\ da' = "idle"
    BY <1>6 DEF Flushes
  <2>2. stage \in Loads => Sending'
    BY <1>1, <1>2, <1>3, <2>1 DEF Sending
  <2> QED  BY <1>1, <1>4, <2>1, <2>2, AnswerStep DEF Holds
<1>7. CASE ReceivesAgain
  <2>1. CASE Stores(<<"ACK", "CONT">>)
    BY <1>1, <1>7, <2>1, StoreStep DEF ReceivesAgain, Stores, Holds
  <2>2. CASE rx' = rx \o <<"ACK", "ERROR">> /\ da' = "idle" /\ UNCHANGED flash
    <3>1. da = "again"
      BY <1>7 DEF ReceivesAgain
    <3>2. stage \in Loads => Sending'
      <4> SUFFICES ASSUME stage \in Loads PROVE Sending'
        OBVIOUS
      <4>1. rx = << >> /\ pc = "ack" /\ Sending
        BY <1>3, <3>1 DEF Sending
      <4>2. rx' = <<"ACK", "ERROR">>
        BY <2>2, <4>1
      <4> QED  BY <1>1, <1>2, <2>2, <4>1, <4>2 DEF Sending
    <3> QED  BY <1>1, <1>4, <2>2, <3>1, <3>2, AnswerStep DEF Holds
  <2> QED  BY <1>7, <2>1, <2>2 DEF ReceivesAgain
<1> QED  BY <1>5, <1>6, <1>7 DEF Agent

LEMMA UnplugStep == IInv /\ Unplug => IInv'
<1> SUFFICES ASSUME IInv, Unplug PROVE IInv'
  OBVIOUS
<1>1. alive /\ UNCHANGED <<stage, file, block, pc, rx, da, sent, flash, runs>> /\ ~alive'
  BY DEF Unplug, script
<1>2. Image' = Image /\ Pair' = Pair
  BY <1>1 DEF Image, Pair
<1>3. (Sending => Sending') /\ (Stored => Stored')
  BY <1>1, <1>2 DEF Sending, Stored
<1>4. LoadInv' /\ QuietInv'
  BY <1>1, <1>2, <1>3 DEF IInv, LoadInv, QuietInv
<1>5. FlashInv' /\ AgentInv' /\ StageInv' /\ FirstInv'
  BY <1>1 DEF IInv, FlashInv, AgentInv, StageInv, FirstInv, Holds, BootWhole, RomWhole, RomOld
<1> QED  BY <1>4, <1>5 DEF IInv

LEMMA RestartStep == IInv /\ Restart => IInv'
<1> SUFFICES ASSUME IInv, Restart PROVE IInv'
  OBVIOUS
<1>1. /\ stage' = "connectBootloader" /\ flash' = flash /\ da' = "idle"
      /\ file' = 1 /\ block' = 0 /\ pc' = "send" /\ rx' = << >>
      /\ runs' \in Nat \ {0, 1}
  BY DEF Restart, Reset, IInv, StageInv
<1>2. FlashInv' /\ AgentInv' /\ LoadInv' /\ QuietInv'
  BY <1>1 DEF IInv, FlashInv, AgentInv, Holds, LoadInv, QuietInv, Loads
<1>3. StageInv' /\ FirstInv'
  BY <1>1 DEF StageInv, FirstInv, Early, Between, Late, Loads
<1> QED  BY <1>2, <1>3 DEF IInv

LEMMA NextIInv == IInv /\ [Next]_vars => IInv'
<1>1. IInv /\ (HoldsUp \/ UNCHANGED vars) => IInv'
  <2> SUFFICES ASSUME IInv, HoldsUp \/ UNCHANGED vars PROVE IInv'
    OBVIOUS
  <2>1. UNCHANGED <<stage, file, block, pc, rx, da, sent, flash, runs, alive>>
    BY DEF HoldsUp, vars, script, phone
  <2>2. Image' = Image /\ Pair' = Pair
    BY <2>1 DEF Image, Pair
  <2>3. (Sending => Sending') /\ (Stored => Stored')
    BY <2>1, <2>2 DEF Sending, Stored
  <2>4. LoadInv' /\ QuietInv'
    BY <2>1, <2>2, <2>3 DEF IInv, LoadInv, QuietInv
  <2>5. FlashInv' /\ AgentInv' /\ StageInv' /\ FirstInv'
    BY <2>1 DEF IInv, FlashInv, AgentInv, StageInv, FirstInv, Holds, BootWhole, RomWhole,
                RomOld
  <2> QED  BY <2>4, <2>5 DEF IInv
<1> QED  BY <1>1, ScriptStep, AgentStep, UnplugStep, RestartStep DEF Next

LEMMA Inductive == Spec => []IInv
  BY InitIInv, NextIInv, PTL DEF Spec

----------------------------------------------------------------------------
(* The theorems *)

\* Whatever is damaged, sent again, refused or broken off (retrySend, DA_LoadImage), each
\* image in the flash is what was there before or its first blocks, each once, in order.
THEOREM BlocksInOrder == Spec => []InOrder
<1>1. IInv => InOrder
  <2> SUFFICES ASSUME IInv, NEW i \in Images
               PROVE  flash[i] = Old \/ IsPrefix(flash[i], Whole(i))
    BY DEF InOrder
  <2>1. \A n \in 0 .. Size(i) : IsPrefix(Upto(n), Whole(i))
    BY SizeLemma, UptoPrefix, WholeLemma
  <2> QED  BY <2>1 DEF IInv, FlashInv
<1> QED  BY <1>1, Inductive, PTL

\* main() ends well only when all four images are in the flash, though the agent compares
\* the checksums of two.
THEOREM DoneIsWhole == Spec => []WholeWhenDone
<1>1. IInv => WholeWhenDone
  <2> SUFFICES ASSUME IInv, stage = "done", NEW i \in Images
               PROVE  flash[i] = Whole(i)
    BY DEF WholeWhenDone
  <2>1. BootWhole /\ RomWhole
    BY DEF IInv, StageInv, Late
  <2> QED  BY <2>1, ImagesLemma, WholeLemma DEF BootWhole, RomWhole
<1> QED  BY <1>1, Inductive, PTL

\* A first run that is broken off anywhere leaves the ROM as it was or a whole boot loader.
THEOREM NeverNeither == Spec => []OneAtATime
<1>1. IInv => OneAtATime
  <2> SUFFICES ASSUME IInv, runs = 1 PROVE OneAtATime
    BY DEF OneAtATime, IInv, StageInv
  <2>1. BootWhole => \A n \in 1 .. 2 : flash[BootImages[n]] = Whole(BootImages[n])
    BY ImagesLemma, WholeLemma DEF BootWhole, Boot
  <2>2. RomOld => \A n \in 1 .. 2 : flash[RomImages[n]] = Old
    BY ImagesLemma DEF RomOld, Rom
  <2> QED  BY <2>1, <2>2 DEF IInv, FirstInv, OneAtATime
<1> QED  BY <1>1, Inductive, PTL

----------------------------------------------------------------------------
(* uploader.py *)

\* The commands.
Names == {Commands[n] : n \in 1 .. 28}

\* What AppUploader takes from AppUploaderState is the same in the instance.
LEMMA SameState ==
    /\ App!Commands = Commands /\ App!Ended = Ended
    /\ \A f : App!Complete(f) = Complete(f)
  BY DEF App!Commands, Commands, App!Ended, Ended, App!Complete, Complete

\* What a command does that the phone does not refuse: the file that is open, main.vxp and
\* autostart.txt on drive C after it.
Opened(c, o) ==
    CASE c.command = "open main" -> "main"
      [] c.command = "open autostart" -> "autostart"
      [] c.command \in {"close", "REBOOT"} -> "none"
      [] OTHER -> o

Written(c, o, f) ==
    CASE c.command = "delete main" -> App!NoFile
      [] c.command = "open main" -> [App!NoFile EXCEPT !.of = c.of]
      [] c.command = "data main" /\ o = "main" -> [f EXCEPT !.bytes = @ + c.len, !.ended = c.eof]
      [] OTHER -> f

Named(c, o, a) ==
    CASE c.command = "delete C" -> "none"
      [] c.command = "open autostart" -> "empty"
      [] c.command = "data autostart" /\ o = "autostart" -> "whole"
      [] OTHER -> a

\* The files as they will be when the commands under way, two at most, are obeyed.
OpenAhead ==
    CASE Len(tx) = 0 -> open
      [] Len(tx) = 1 -> Opened(tx[1], open)
      [] OTHER -> Opened(tx[2], Opened(tx[1], open))
MainAhead ==
    CASE Len(tx) = 0 -> main
      [] Len(tx) = 1 -> Written(tx[1], open, main)
      [] OTHER -> Written(tx[2], Opened(tx[1], open), Written(tx[1], open, main))
NameAhead ==
    CASE Len(tx) = 0 -> autostart["C"]
      [] Len(tx) = 1 -> Named(tx[1], open, autostart["C"])
      [] OTHER -> Named(tx[2], Opened(tx[1], open), Named(tx[1], open, autostart["C"]))

InTx(command) == \E i \in DOMAIN tx : tx[i].command = command
Error == \E i \in DOMAIN rx : rx[i] = "ERROR"
ErrorNext == Len(rx) > 0 /\ rx[1] = "ERROR"

CommandType == [command : Names, len : Nat, eof : BOOLEAN, of : Nat]
FileType == [bytes : Nat, ended : BOOLEAN, of : Nat]

UploadType ==
    /\ at \in 1 .. 30 /\ waiting \in BOOLEAN
    /\ program \in Nat /\ size \in 0 .. program
    /\ tx \in Seq(CommandType) /\ rx \in Seq({"OK", "ERROR"})
    /\ main \in FileType
    /\ autostart \in [{"C", "D"} -> {"none", "empty", "whole"}]

\* The command the script is at and the one before are all that can be under way, and at
\* most one answer more than the script reads.
Waits == waiting => at \in 1 .. 27 \ {2}
Room ==
    /\ at <= 2 => Len(tx) + Len(rx) <= 1 /\ (~waiting => Len(tx) + Len(rx) = 0)
    /\ at <= 28 => Len(tx) + Len(rx) <= 2 /\ (~waiting => Len(tx) + Len(rx) <= 1)
    /\ at = 29 => Len(tx) <= 2
    /\ at = 30 => Len(tx) <= 1
Before(n) == IF n = 14 THEN {Commands[13], Commands[14]} ELSE {Commands[n - 1]}
Which ==
    /\ at <= 28 /\ waiting /\ Len(tx) > 0 => tx[Len(tx)].command = Commands[at]
    /\ at <= 28 /\ ~waiting /\ Len(tx) > 0 => tx[1].command \in Before(at)
    /\ at <= 28 /\ Len(tx) > 1 => tx[1].command \in Before(at)
    /\ at = 29 => \A i \in DOMAIN tx : tx[i].command \in {"mode", "REBOOT"}
LineInv == Waits /\ Room /\ Which

\* No command under way can make autostart.txt name a program that is not whole.
Unnamed == autostart["C"] # "whole" /\ autostart["D"] # "whole"
SafeInv ==
    /\ AutostartSafe
    /\ InTx("delete main") \/ InTx("open main") \/ InTx("data main") => Unnamed
    /\ InTx("data autostart") => Complete(main)

\* autostart.txt is gone when its deletion has been executed, which is before the program's.
DeletedInv ==
    /\ (at = 8 /\ waiting) \/ at >= 9 =>
          autostart["D"] # "whole" \/ (at <= 9 /\ InTx("delete D"))
    /\ (at = 10 /\ waiting) \/ at \in 11 .. 16 \/ (at = 17 /\ ~waiting) =>
          autostart["C"] # "whole" \/ (at <= 11 /\ InTx("delete C"))

IsProgram(f) == Complete(f) /\ f.of = program

\* The commands under way complete the program and its name, or their ERROR will be read.
MainInv ==
    /\ at <= 13 => size = program
    /\ at >= 15 => size = 0
    /\ (at = 13 /\ waiting) \/ at = 14 \/ (at = 15 /\ ~waiting) =>
         \/ Error
         \/ /\ OpenAhead = "main"
            /\ MainAhead.bytes = program - size /\ MainAhead.of = program
            /\ MainAhead.ended <=> size = 0
    /\ at = 15 /\ waiting => ErrorNext \/ IsProgram(MainAhead)
    /\ at >= 16 => IsProgram(main)
NameInv ==
    /\ (at = 16 /\ waiting) \/ (at = 17 /\ ~waiting) => Error \/ OpenAhead = "autostart"
    /\ (at = 17 /\ waiting) \/ (at = 18 /\ ~waiting) => Error \/ NameAhead = "whole"
    /\ at = 18 /\ waiting => ErrorNext \/ NameAhead = "whole"
    /\ at >= 19 => autostart["C"] = "whole"

UploadInv ==
    UploadType /\ LineInv /\ SafeInv /\ (at <= 29 => DeletedInv /\ MainInv /\ NameInv)

LEMMA ValuesLemma ==
    /\ Len(Commands) = 28 /\ App!Failed = 30 /\ Ended = 29
    /\ Commands[1] = "AT" /\ Commands[2] = "EXIT_ALL" /\ Commands[3] = "mode"
    /\ Commands[4] = "root" /\ Commands[5] = "root" /\ Commands[6] = "createFolder"
    /\ Commands[7] = "root" /\ Commands[8] = "delete D" /\ Commands[9] = "root"
    /\ Commands[10] = "delete C" /\ Commands[11] = "root" /\ Commands[12] = "delete main"
    /\ Commands[13] = "open main" /\ Commands[14] = "data main" /\ Commands[15] = "close"
    /\ Commands[16] = "open autostart" /\ Commands[17] = "data autostart" /\ Commands[18] = "close"
    /\ Commands[19] = "ListFiles" /\ Commands[20] = "ListFiles" /\ Commands[21] = "ListFiles"
    /\ Commands[22] = "ListFiles" /\ Commands[23] = "ListFiles" /\ Commands[24] = "ListFiles"
    /\ Commands[25] = "ListFiles" /\ Commands[26] = "ListFiles" /\ Commands[27] = "mode"
    /\ Commands[28] = "REBOOT"
<1>1. Len(Commands) = 28
  BY DEF Commands
<1>2. Ended = 29
  BY <1>1 DEF Ended
<1>3. App!Failed = 30
  <2>1. Len(App!Commands) = 28
    BY <1>1, SameState, Zenon
  <2> QED  BY <2>1 DEF App!Failed
<1> QED  BY <1>1, <1>2, <1>3 DEF Commands

LEMMA PlacesLemma ==
    ASSUME NEW n \in 1 .. 28
    PROVE  /\ Commands[n] \in Names
           /\ Commands[n] = "EXIT_ALL" <=> n = 2
           /\ Commands[n] = "delete D" <=> n = 8
           /\ Commands[n] = "delete C" <=> n = 10
           /\ Commands[n] = "delete main" <=> n = 12
           /\ Commands[n] = "open main" <=> n = 13
           /\ Commands[n] = "data main" <=> n = 14
           /\ Commands[n] = "close" <=> n \in {15, 18}
           /\ Commands[n] = "open autostart" <=> n = 16
           /\ Commands[n] = "data autostart" <=> n = 17
           /\ Commands[n] = "REBOOT" <=> n = 28
<1>1. \/ n = 1 \/ n = 2 \/ n = 3 \/ n = 4 \/ n = 5 \/ n = 6 \/ n = 7
      \/ n = 8 \/ n = 9 \/ n = 10 \/ n = 11 \/ n = 12 \/ n = 13 \/ n = 14
      \/ n = 15 \/ n = 16 \/ n = 17 \/ n = 18 \/ n = 19 \/ n = 20 \/ n = 21
      \/ n = 22 \/ n = 23 \/ n = 24 \/ n = 25 \/ n = 26 \/ n = 27 \/ n = 28
  OBVIOUS
<1>2. Commands[n] \in Names
  BY DEF Names
<1>3. Commands[n] = "EXIT_ALL" <=> n = 2
  BY <1>1, ValuesLemma
<1>4. Commands[n] = "delete D" <=> n = 8
  BY <1>1, ValuesLemma
<1>5. Commands[n] = "delete C" <=> n = 10
  BY <1>1, ValuesLemma
<1>6. Commands[n] = "delete main" <=> n = 12
  BY <1>1, ValuesLemma
<1>7. Commands[n] = "open main" <=> n = 13
  BY <1>1, ValuesLemma
<1>8. Commands[n] = "data main" <=> n = 14
  BY <1>1, ValuesLemma
<1>9. Commands[n] = "close" <=> n \in {15, 18}
  BY <1>1, ValuesLemma
<1>10. Commands[n] = "open autostart" <=> n = 16
  BY <1>1, ValuesLemma
<1>11. Commands[n] = "data autostart" <=> n = 17
  BY <1>1, ValuesLemma
<1>12. Commands[n] = "REBOOT" <=> n = 28
  BY <1>1, ValuesLemma
<1> QED  BY <1>2, <1>3, <1>4, <1>5, <1>6, <1>7, <1>8, <1>9, <1>10, <1>11, <1>12

----------------------------------------------------------------------------
(* The line *)

LEMMA AddedLemma ==
    ASSUME NEW S, NEW q \in Seq(S), NEW e \in S
    PROVE  /\ Append(q, e) \in Seq(S)
           /\ Len(q) \in Nat /\ Len(Append(q, e)) = Len(q) + 1 /\ Append(q, e)[Len(q) + 1] = e
           /\ \A i \in DOMAIN q : Append(q, e)[i] = q[i]
           /\ DOMAIN Append(q, e) = 1 .. Len(q) + 1 /\ DOMAIN q = 1 .. Len(q)
  OBVIOUS

LEMMA TakenLemma ==
    ASSUME NEW S, NEW q \in Seq(S), q # << >>
    PROVE  /\ Tail(q) \in Seq(S) /\ Head(q) = q[1] /\ q[1] \in S /\ 1 \in DOMAIN q
           /\ Len(Tail(q)) = Len(q) - 1 /\ Len(q) \in Nat \ {0}
           /\ DOMAIN q = 1 .. Len(q) /\ DOMAIN Tail(q) = 1 .. Len(q) - 1
           /\ \A i \in 1 .. Len(q) - 1 : Tail(q)[i] = q[i + 1]
<1>1. Len(q) \in Nat \ {0} /\ DOMAIN q = 1 .. Len(q) /\ Head(q) = q[1]
  OBVIOUS
<1>2. /\ Tail(q) \in Seq(S) /\ Len(Tail(q)) = Len(q) - 1
      /\ DOMAIN Tail(q) = 1 .. Len(q) - 1
      /\ \A i \in 1 .. Len(q) - 1 : Tail(q)[i] = q[i + 1]
  OBVIOUS
<1>3. q[1] \in S /\ 1 \in DOMAIN q
  BY <1>1
<1> QED  BY <1>1, <1>2, <1>3

LEMMA EmptyLemma ==
    ASSUME NEW S, NEW q \in Seq(S)
    PROVE  Len(q) \in Nat /\ DOMAIN q = 1 .. Len(q) /\ (q = << >> <=> Len(q) = 0)
  OBVIOUS

LEMMA SmallLemma ==
    ASSUME NEW n \in Nat \ {0}
    PROVE  n > 0 /\ (n <= 2 => n = 1 \/ n = 2)
  OBVIOUS

\* A command under way is the script's, or the one before it.
LEMMA RoomLemma ==
    ASSUME UploadType, Room, at <= 28
    PROVE  /\ Len(tx) \in Nat /\ Len(rx) \in Nat /\ Len(tx) + Len(rx) <= 2
           /\ Len(tx) = 2 => waiting /\ Len(rx) = 0
           /\ Len(tx) > 0 => waiting \/ at > 2
           /\ Len(tx) > 1 => at > 2
           /\ DOMAIN tx = 1 .. Len(tx)
<1>1. Len(tx) \in Nat /\ Len(rx) \in Nat /\ at \in Nat /\ DOMAIN tx = 1 .. Len(tx)
  BY EmptyLemma DEF UploadType
<1>2. CASE waiting
  BY <1>1, <1>2 DEF Room
<1>3. CASE ~waiting
  BY <1>1, <1>3 DEF Room
<1> QED  BY <1>2, <1>3

LEMMA HeldLemma ==
    ASSUME UploadType, LineInv, at <= 28, NEW i \in DOMAIN tx
    PROVE  \/ waiting /\ i = Len(tx) /\ tx[i].command = Commands[at]
           \/ i = 1 /\ at > 2 /\ tx[i].command \in Before(at)
<1> Room
  BY DEF LineInv
<1>0. at \in 1 .. 28
  BY DEF UploadType
<1>1. i \in 1 .. Len(tx) /\ Len(tx) \in 0 .. 2 /\ Len(tx) # 0
  BY RoomLemma
<1>2. CASE waiting /\ i = Len(tx)
  BY <1>0, <1>1, <1>2 DEF LineInv, Which
<1>3. CASE i = 1 /\ Len(tx) > 1
  <2>1. at > 2
    BY <1>3, RoomLemma DEF LineInv
  <2> QED  BY <1>3, <2>1 DEF LineInv, Which
<1>4. CASE ~waiting /\ i = Len(tx)
  <2>1. Len(tx) = 1
    BY <1>1, <1>4, RoomLemma DEF LineInv
  <2>2. at > 2
    BY <1>4, <2>1, RoomLemma DEF LineInv
  <2> QED  BY <1>4, <2>1, <2>2 DEF LineInv, Which
<1>5. i = Len(tx) \/ (i = 1 /\ Len(tx) > 1)
  <2> DEFINE m == Len(tx)
  <2>1. i \in 1 .. m /\ m \in 0 .. 2 /\ m # 0
    BY <1>1
  <2> HIDE DEF m
  <2>2. i = m \/ (i = 1 /\ m > 1)
    BY <2>1
  <2> QED  BY <2>2 DEF m
<1> QED  BY <1>2, <1>3, <1>4, <1>5, Zenon

LEMMA HeldPlaces ==
    ASSUME UploadType, LineInv, at <= 28, NEW i \in DOMAIN tx
    PROVE  /\ tx[i].command = "delete D" => (at = 8 /\ waiting) \/ at = 9
           /\ tx[i].command = "delete C" => (at = 10 /\ waiting) \/ at = 11
           /\ tx[i].command = "delete main" => (at = 12 /\ waiting) \/ at = 13
           /\ tx[i].command = "open main" => (at = 13 /\ waiting) \/ at = 14
           /\ tx[i].command = "data main" => at = 14 \/ at = 15
           /\ tx[i].command = "open autostart" => (at = 16 /\ waiting) \/ at = 17
           /\ tx[i].command = "data autostart" => (at = 17 /\ waiting) \/ at = 18
           /\ tx[i].command = "close" => (at \in {15, 18} /\ waiting) \/ at \in {16, 19}
           /\ tx[i].command # "REBOOT"
<1>1. at \in 1 .. 28
  BY DEF UploadType
<1>2. CASE waiting /\ tx[i].command = Commands[at]
  <2>1. at # 28
    BY <1>1, <1>2 DEF LineInv, Waits
  <2> DEFINE c == tx[i].command
             n == at
  <2>2. n \in 1 .. 28 /\ c = Commands[n] /\ at = n /\ n # 28 /\ waiting
    BY <1>1, <1>2, <2>1
  <2> HIDE DEF c, n
  <2>3. /\ c = "delete D" <=> n = 8
        /\ c = "delete C" <=> n = 10
        /\ c = "delete main" <=> n = 12
        /\ c = "open main" <=> n = 13
        /\ c = "data main" <=> n = 14
        /\ c = "close" <=> n \in {15, 18}
        /\ c = "open autostart" <=> n = 16
        /\ c = "data autostart" <=> n = 17
        /\ c = "REBOOT" <=> n = 28
    BY <2>2, PlacesLemma, Zenon
  <2> QED  BY <2>2, <2>3 DEF c
<1>3. CASE at > 2 /\ tx[i].command = Commands[at - 1]
  <2>1. at - 1 \in 1 .. 27
    BY <1>1, <1>3
  <2> DEFINE c == tx[i].command
             n == at - 1
  <2>2. n \in 1 .. 28 /\ c = Commands[n] /\ at = n + 1 /\ n # 28
    BY <1>1, <1>3, <2>1
  <2> HIDE DEF c, n
  <2>3. /\ c = "delete D" <=> n = 8
        /\ c = "delete C" <=> n = 10
        /\ c = "delete main" <=> n = 12
        /\ c = "open main" <=> n = 13
        /\ c = "data main" <=> n = 14
        /\ c = "close" <=> n \in {15, 18}
        /\ c = "open autostart" <=> n = 16
        /\ c = "data autostart" <=> n = 17
        /\ c = "REBOOT" <=> n = 28
    BY <2>2, PlacesLemma, Zenon
  <2>4. /\ n = 8 => at = 9
        /\ n = 10 => at = 11
        /\ n = 12 => at = 13
        /\ n = 13 => at = 14
        /\ n = 14 => at = 15
        /\ n \in {15, 18} => at \in {16, 19}
        /\ n = 16 => at = 17
        /\ n = 17 => at = 18
    BY <2>2
  <2> QED  BY <2>2, <2>3, <2>4, Zenon DEF c
<1>4. CASE at = 14 /\ tx[i].command = Commands[14]
  <2>1. Commands[14] = "data main"
    BY ValuesLemma, Zenon
  <2> DEFINE c == tx[i].command
  <2>2. c = "data main"
    BY <1>4, <2>1, Zenon
  <2> HIDE DEF c
  <2> QED  BY <1>4, <2>2 DEF c
<1>5. at > 2 /\ tx[i].command \in Before(at) =>
        at > 2 /\ (tx[i].command = Commands[at - 1] \/ (at = 14 /\ tx[i].command = Commands[14]))
  BY <1>1 DEF Before
<1> QED  BY <1>2, <1>3, <1>4, <1>5, HeldLemma

----------------------------------------------------------------------------
(* The phone executes a command *)

Passes ==
    /\ Len(tx) > 0 /\ tx' = Tail(tx)
    /\ rx' = rx \/ \E a \in {"OK", "ERROR"} : rx' = Append(rx, a)
    /\ UNCHANGED <<at, waiting, size, program>>
Obeyed ==
    /\ Passes
    /\ open' = Opened(tx[1], open)
    /\ main' = Written(tx[1], open, main)
    /\ autostart' \in [{"C", "D"} -> {"none", "empty", "whole"}]
    /\ autostart'["C"] = Named(tx[1], open, autostart["C"])
    /\ autostart'["D"] = IF tx[1].command = "delete D" THEN "none" ELSE autostart["D"]
NotObeyed ==
    /\ Passes /\ rx' = Append(rx, "ERROR")
    /\ UNCHANGED <<open, main, autostart>>
    /\ tx[1].command \notin {"delete C", "delete D"}

LEMMA PhoneLemma ==
    ASSUME UploadType, App!Phone, Faults \cap {"delete C", "delete D"} = {}
    PROVE  Obeyed \/ NotObeyed
<1>1. tx # << >> => Len(tx) > 0 /\ Head(tx) = tx[1]
  <2>1. tx \in Seq(CommandType)
    BY DEF UploadType
  <2>2. tx # << >> => Len(tx) \in Nat \ {0} /\ Head(tx) = tx[1]
    BY <2>1, TakenLemma, Zenon
  <2> QED  BY <2>2, SmallLemma, Zenon
<1>11. UNCHANGED <<at, waiting, size, program>>
  BY DEF App!Phone, App!script
<1>12. autostart \in [{"C", "D"} -> {"none", "empty", "whole"}]
  BY DEF UploadType
<1> USE DEF App!Executes, App!Answers, Obeyed, Passes, Opened, Written, Named, App!files
<1>2. CASE App!Refuses
  BY <1>1, <1>11, <1>2 DEF App!Refuses, NotObeyed, App!May
<1>3. CASE App!Obeys
  BY <1>1, <1>11, <1>12, <1>3 DEF App!Obeys
<1>4. CASE App!DeletesAutostart
  BY <1>1, <1>11, <1>12, <1>4 DEF App!DeletesAutostart, App!Drive
<1>5. CASE App!DeletesMain
  BY <1>1, <1>11, <1>12, <1>5 DEF App!DeletesMain
<1>6. CASE App!Opens
  BY <1>1, <1>11, <1>12, <1>6 DEF App!Opens
<1>7. CASE App!Writes
  BY <1>1, <1>11, <1>12, <1>7 DEF App!Writes
<1>8. CASE App!NotOpen
  BY <1>1, <1>11, <1>12, <1>8 DEF App!NotOpen
<1>9. CASE App!Closes
  BY <1>1, <1>11, <1>12, <1>9 DEF App!Closes
<1>10. CASE App!Starts
  BY <1>1, <1>11, <1>12, <1>10 DEF App!Starts
<1> QED  BY <1>2, <1>3, <1>4, <1>5, <1>6, <1>7, <1>8, <1>9, <1>10 DEF App!Phone

LEMMA PassFacts ==
    ASSUME UploadType, Passes
    PROVE  /\ Len(tx) \in Nat \ {0} /\ Len(tx') = Len(tx) - 1 /\ tx' \in Seq(CommandType)
           /\ tx[1] \in CommandType /\ 1 \in DOMAIN tx
           /\ DOMAIN tx = 1 .. Len(tx) /\ DOMAIN tx' = 1 .. Len(tx) - 1
           /\ \A i \in 1 .. Len(tx) - 1 : tx'[i] = tx[i + 1]
           /\ Len(rx) \in Nat /\ Len(rx') \in Len(rx) .. Len(rx) + 1
           /\ rx' \in Seq({"OK", "ERROR"})
           /\ DOMAIN rx = 1 .. Len(rx) /\ DOMAIN rx' = 1 .. Len(rx')
           /\ \A i \in DOMAIN rx : rx'[i] = rx[i]
           /\ Error => Error'
           /\ ErrorNext => ErrorNext'
<1>1. tx # << >> /\ tx \in Seq(CommandType) /\ rx \in Seq({"OK", "ERROR"})
  BY EmptyLemma DEF UploadType, Passes
<1>2. /\ Len(tx) \in Nat \ {0} /\ Len(tx') = Len(tx) - 1 /\ tx' \in Seq(CommandType)
      /\ tx[1] \in CommandType /\ 1 \in DOMAIN tx
      /\ DOMAIN tx = 1 .. Len(tx) /\ DOMAIN tx' = 1 .. Len(tx) - 1
      /\ \A i \in 1 .. Len(tx) - 1 : tx'[i] = tx[i + 1]
  BY <1>1, TakenLemma DEF Passes
<1>3. /\ Len(rx) \in Nat /\ Len(rx') \in Len(rx) .. Len(rx) + 1
      /\ rx' \in Seq({"OK", "ERROR"})
      /\ DOMAIN rx = 1 .. Len(rx) /\ DOMAIN rx' = 1 .. Len(rx')
      /\ \A i \in DOMAIN rx : rx'[i] = rx[i]
  <2>1. CASE rx' = rx
    BY <1>1, <2>1, EmptyLemma
  <2>2. CASE \E a \in {"OK", "ERROR"} : rx' = Append(rx, a)
    BY <1>1, <2>2, AddedLemma
  <2> QED  BY <2>1, <2>2 DEF Passes
<1>4. Error => Error'
  BY <1>3 DEF Error
<1>5. ErrorNext => ErrorNext'
  BY <1>3 DEF ErrorNext
<1> QED  BY <1>2, <1>3, <1>4, <1>5

LEMMA PassLine ==
    ASSUME UploadType, LineInv, Passes
    PROVE  LineInv'
<1>1. UNCHANGED <<at, waiting>> /\ Len(tx') + Len(rx') <= Len(tx) + Len(rx)
  BY PassFacts DEF Passes
<1>2. Waits'
  BY <1>1 DEF LineInv, Waits
<1>3. Room'
  <2>1. /\ Len(tx) \in Nat /\ Len(rx) \in Nat /\ Len(tx') \in Nat /\ Len(rx') \in Nat
        /\ Len(tx') < Len(tx)
    BY PassFacts
  <2>2. CASE waiting
    BY <1>1, <2>1, <2>2 DEF LineInv, Room
  <2>3. CASE ~waiting
    BY <1>1, <2>1, <2>3 DEF LineInv, Room
  <2> QED  BY <2>2, <2>3
<1>4. ASSUME at <= 28, Len(tx') > 0 PROVE Len(tx') = 1 /\ tx'[1] = tx[Len(tx)] /\ waiting
  <2>1. Len(tx) = 2 /\ waiting
    BY <1>4, PassFacts, RoomLemma DEF LineInv
  <2> QED  BY <2>1, PassFacts
<1>5. at' <= 28 /\ waiting' /\ Len(tx') > 0 => tx'[Len(tx')].command = Commands[at']
  <2> HAVE at' <= 28 /\ waiting' /\ Len(tx') > 0
  <2>1. at <= 28 /\ waiting /\ Len(tx) > 0 /\ tx'[Len(tx')] = tx[Len(tx)]
    BY <1>1, <1>4, PassFacts
  <2> QED  BY <1>1, <2>1 DEF LineInv, Which
<1>6. /\ ~ (at' <= 28 /\ ~waiting' /\ Len(tx') > 0)
      /\ ~ (at' <= 28 /\ Len(tx') > 1)
  BY <1>1, <1>4, PassFacts
<1>7. at' = 29 => \A i \in DOMAIN tx' : tx'[i].command \in {"mode", "REBOOT"}
  <2>1. \A i \in DOMAIN tx' : i + 1 \in DOMAIN tx /\ tx'[i] = tx[i + 1]
    BY PassFacts
  <2> QED  BY <1>1, <2>1 DEF LineInv, Which
<1>8. Which'
  BY <1>5, <1>6, <1>7 DEF Which
<1> QED  BY <1>2, <1>3, <1>8 DEF LineInv

\* What is ahead is ahead still when the phone has obeyed.
LEMMA AheadLemma ==
    ASSUME UploadType, Obeyed, Len(tx) <= 2
    PROVE  /\ OpenAhead' = OpenAhead
           /\ MainAhead' = MainAhead
           /\ NameAhead' = NameAhead
<1>1. /\ open' = Opened(tx[1], open) /\ main' = Written(tx[1], open, main)
      /\ autostart'["C"] = Named(tx[1], open, autostart["C"])
  BY DEF Obeyed
<1>2. Passes
  BY DEF Obeyed
<1>3. CASE Len(tx) = 1
  <2>1. Len(tx') = 0
    BY <1>2, <1>3, PassFacts
  <2> QED  BY <1>1, <1>3, <2>1 DEF OpenAhead, MainAhead, NameAhead
<1>4. CASE Len(tx) = 2
  <2>1. Len(tx') = 1 /\ tx'[1] = tx[2]
    BY <1>2, <1>4, PassFacts
  <2> QED  BY <1>1, <1>4, <2>1 DEF OpenAhead, MainAhead, NameAhead
<1>5. Len(tx) = 1 \/ Len(tx) = 2
  <2>1. Len(tx) \in Nat \ {0}
    BY <1>2, PassFacts
  <2> QED  BY <2>1, SmallLemma, Zenon
<1> QED  BY <1>3, <1>4, <1>5

\* A command of the rest of the line was on it.
LEMMA InTxLemma ==
    ASSUME UploadType, Passes, NEW command, InTx(command)'
    PROVE  /\ InTx(command)
           /\ Len(tx) <= 2 => Len(tx) = 2 /\ tx[2].command = command
<1>1. PICK i \in DOMAIN tx' : tx'[i].command = command
  BY DEF InTx
<1>2. i \in 1 .. Len(tx) - 1 /\ tx'[i] = tx[i + 1] /\ i + 1 \in DOMAIN tx /\ Len(tx) \in Nat
  BY <1>1, PassFacts
<1>3. InTx(command)
  BY <1>1, <1>2 DEF InTx
<1>4. Len(tx) <= 2 => Len(tx) = 2 /\ i = 1
  <2> DEFINE m == Len(tx)
  <2>1. i \in 1 .. m - 1 /\ m \in Nat
    BY <1>2
  <2> HIDE DEF m
  <2>2. m <= 2 => m = 2 /\ i = 1
    BY <2>1
  <2> QED  BY <2>2 DEF m
<1>5. i = 1 => tx'[i] = tx[2]
  BY <1>2
<1> QED  BY <1>1, <1>3, <1>4, <1>5, Zenon

MainCommands == {"delete main", "open main", "data main"}

LEMMA RoomFor ==
    ASSUME UploadType, LineInv
    PROVE  Len(tx) <= 2
<1>1. at \in 1 .. 30 /\ Len(tx) \in Nat
  BY EmptyLemma DEF UploadType
<1>2. CASE at <= 28
  BY <1>2, RoomLemma DEF LineInv
<1>3. CASE at = 29 \/ at = 30
  BY <1>1, <1>3 DEF LineInv, Room
<1> QED  BY <1>1, <1>2, <1>3

\* The commands that write main.vxp and those that write autostart.txt are never under
\* way together.
LEMMA ApartLemma ==
    ASSUME UploadType, LineInv, Len(tx) = 2
    PROVE  /\ tx[2].command \in MainCommands => tx[1].command # "data autostart"
           /\ tx[2].command = "data autostart" => tx[1].command \notin MainCommands
<1>1. 1 \in DOMAIN tx /\ 2 \in DOMAIN tx /\ at \in 1 .. 30
  BY EmptyLemma DEF UploadType
<1>2. at # 30
  BY <1>1 DEF LineInv, Room
<1>3. CASE at = 29
  BY <1>1, <1>3 DEF LineInv, Which, MainCommands
<1>4. CASE at <= 28
  <2>1. ASSUME NEW i \in DOMAIN tx, tx[i].command \in MainCommands PROVE at <= 15
    <3>1. at = 12 \/ at = 13 \/ at = 14 \/ at = 15
      BY <1>4, <2>1, HeldPlaces, Zenon DEF MainCommands
    <3> QED  BY <3>1
  <2>2. ASSUME NEW i \in DOMAIN tx, tx[i].command = "data autostart" PROVE at >= 17
    <3>1. at = 17 \/ at = 18
      BY <1>4, <2>2, HeldPlaces, Zenon
    <3> QED  BY <3>1
  <2>4. ~ (at <= 15 /\ at >= 17)
    BY <1>1
  <2> QED  BY <1>1, <2>1, <2>2, <2>4, Zenon
<1>5. at = 29 \/ at <= 28
  BY <1>1, <1>2
<1> QED  BY <1>3, <1>4, <1>5, Zenon

LEMMA SafeStep ==
    ASSUME UploadType, LineInv, SafeInv, Obeyed \/ NotObeyed
    PROVE  SafeInv'
<1>1. Passes /\ Len(tx) <= 2 /\ 1 \in DOMAIN tx
  BY RoomFor, PassFacts DEF Obeyed, NotObeyed
<1>2. CASE NotObeyed
  <2>1. UNCHANGED <<main, autostart>>
    BY <1>2 DEF NotObeyed
  <2>2. \A c : InTx(c)' => InTx(c)
    BY <1>1, InTxLemma
  <2> QED  BY <2>1, <2>2 DEF SafeInv, AutostartSafe, Unnamed, Complete
<1>3. CASE Obeyed
  <2> DEFINE c == tx[1].command
  <2>1. /\ main' # main => c \in MainCommands
        /\ autostart'["C"] = "whole" => autostart["C"] = "whole" \/ c = "data autostart"
        /\ autostart'["D"] = "whole" => autostart["D"] = "whole"
    BY <1>3 DEF Obeyed, Written, Named, MainCommands
  <2>2. /\ c \in MainCommands => Unnamed
        /\ c = "data autostart" => Complete(main)
    BY <1>1 DEF SafeInv, InTx, MainCommands
  <2>3. AutostartSafe'
    <3> SUFFICES ASSUME autostart'["C"] = "whole" \/ autostart'["D"] = "whole"
                 PROVE  Complete(main')
      BY DEF AutostartSafe, Complete
    <3>1. CASE c = "data autostart"
      BY <2>1, <2>2, <3>1 DEF MainCommands
    <3>2. CASE c # "data autostart"
      <4>1. ~Unnamed
        BY <2>1, <3>2 DEF Unnamed
      <4> QED  BY <2>1, <2>2, <4>1 DEF SafeInv, AutostartSafe, Unnamed
    <3> QED  BY <3>1, <3>2
  <2>4. ASSUME NEW d \in MainCommands, InTx(d)' PROVE Unnamed'
    <3>1. Len(tx) = 2 /\ tx[2].command = d /\ InTx(d)
      BY <1>1, <2>4, InTxLemma
    <3>2. Unnamed
      BY <3>1 DEF SafeInv, MainCommands
    <3>3. c # "data autostart"
      BY <3>1, ApartLemma
    <3> QED  BY <2>1, <3>2, <3>3 DEF Unnamed
  <2>5. ASSUME InTx("data autostart")' PROVE Complete(main)'
    <3>1. Len(tx) = 2 /\ tx[2].command = "data autostart" /\ InTx("data autostart")
      BY <1>1, <2>5, InTxLemma
    <3>2. c \notin MainCommands
      BY <3>1, ApartLemma
    <3> QED  BY <2>1, <3>1, <3>2 DEF SafeInv, Complete
  <2> QED  BY <2>3, <2>4, <2>5 DEF SafeInv, MainCommands
<1> QED  BY <1>2, <1>3

LEMMA InTxStays ==
    ASSUME UploadType, Passes, NEW command, InTx(command), tx[1].command # command
    PROVE  InTx(command)'
<1>1. PICK i \in DOMAIN tx : tx[i].command = command
  BY DEF InTx
<1>2. i # 1
  BY <1>1
<1>3. i \in 1 .. Len(tx) /\ Len(tx) \in Nat
  BY <1>1, PassFacts
<1> DEFINE m == Len(tx)
           k == i - 1
<1>4. k \in 1 .. m - 1 /\ k + 1 = i
  <2>1. i \in 1 .. m /\ m \in Nat
    BY <1>3
  <2> HIDE DEF m
  <2> QED  BY <2>1, <1>2
<1> HIDE DEF k
<1>5. k \in DOMAIN tx' /\ tx'[k] = tx[i]
  BY <1>4, PassFacts
<1> QED  BY <1>1, <1>5 DEF InTx

LEMMA DeletedStep ==
    ASSUME UploadType, LineInv, DeletedInv, at <= 29, Obeyed \/ NotObeyed
    PROVE  DeletedInv'
<1> DEFINE c == tx[1].command
<1>1. Passes /\ 1 \in DOMAIN tx /\ UNCHANGED <<at, waiting>>
  BY PassFacts DEF Obeyed, NotObeyed, Passes
<1>2. /\ autostart["D"] # "whole" => autostart'["D"] # "whole"
      /\ autostart["C"] # "whole" => autostart'["C"] # "whole" \/ c = "data autostart"
      /\ c = "delete D" => autostart'["D"] # "whole"
      /\ c = "delete C" => autostart'["C"] # "whole"
  <2>1. CASE Obeyed
    BY <2>1 DEF Obeyed, Named
  <2>2. CASE NotObeyed
    BY <2>2 DEF NotObeyed
  <2> QED  BY <2>1, <2>2
<1>3. ASSUME (at = 8 /\ waiting) \/ at >= 9
      PROVE  autostart'["D"] # "whole" \/ (at <= 9 /\ InTx("delete D")')
  <2>1. CASE autostart["D"] # "whole"
    BY <1>2, <2>1
  <2>2. CASE at <= 9 /\ InTx("delete D")
    BY <1>1, <1>2, <2>2, InTxStays
  <2> QED  BY <1>3, <2>1, <2>2 DEF DeletedInv
<1>4. ASSUME (at = 10 /\ waiting) \/ at \in 11 .. 16 \/ (at = 17 /\ ~waiting)
      PROVE  autostart'["C"] # "whole" \/ (at <= 11 /\ InTx("delete C")')
  <2>1. c # "data autostart"
    <3>1. at <= 28
      BY <1>4
    <3>2. c = "data autostart" => (at = 17 /\ waiting) \/ at = 18
      BY <1>1, <3>1, HeldPlaces, Zenon
    <3>3. ~ (at = 17 /\ waiting) /\ at # 18
      BY <1>4
    <3> QED  BY <3>2, <3>3, Zenon
  <2>2. CASE autostart["C"] # "whole"
    BY <1>2, <2>1, <2>2
  <2>3. CASE at <= 11 /\ InTx("delete C")
    BY <1>1, <1>2, <2>3, InTxStays
  <2> QED  BY <1>4, <2>2, <2>3 DEF DeletedInv
<1> QED  BY <1>1, <1>3, <1>4 DEF DeletedInv

\* After the command a file is closed with, only its own ERROR can be to come.
LEMMA CloseLemma ==
    ASSUME UploadType, LineInv, waiting, at = 15 \/ at = 18, NotObeyed
    PROVE  \/ ErrorNext'
           \/ MainAhead' = MainAhead /\ NameAhead' = NameAhead
<1>1. /\ Passes /\ rx' = Append(rx, "ERROR") /\ UNCHANGED <<open, main, autostart>>
  BY DEF NotObeyed
<1>2. rx \in Seq({"OK", "ERROR"}) /\ Len(rx) \in Nat
  BY EmptyLemma DEF UploadType
<1>3. CASE Len(rx) = 0
  <2>1. Len(rx') = Len(rx) + 1 /\ rx'[Len(rx) + 1] = "ERROR"
    BY <1>1, <1>2, AddedLemma
  <2>2. Len(rx') = 1 /\ rx'[1] = "ERROR"
    BY <1>3, <2>1
  <2> QED  BY <2>2 DEF ErrorNext
<1>4. CASE Len(rx) # 0
  <2>1. Len(tx) = 1 /\ Len(tx') = 0
    <3>1. Len(tx) \in Nat \ {0} /\ Len(tx') = Len(tx) - 1
      BY <1>1, PassFacts
    <3>2. Len(tx) + Len(rx) <= 2
      BY RoomLemma DEF LineInv
    <3> DEFINE m == Len(tx)
               n == Len(rx)
    <3> HIDE DEF m, n
    <3>3. m \in Nat \ {0} /\ n \in Nat /\ n # 0 /\ m + n <= 2 => m = 1
      OBVIOUS
    <3>4. Len(tx) = 1
      BY <1>2, <1>4, <3>1, <3>2, <3>3 DEF m, n
    <3> QED  BY <3>1, <3>4
  <2>2. tx[1].command = "close"
    <3>1. tx[1].command = Commands[at]
      BY <2>1 DEF LineInv, Which
    <3> QED  BY <3>1, ValuesLemma, Zenon
  <2>3. MainAhead = main /\ NameAhead = autostart["C"]
    BY <2>1, <2>2 DEF MainAhead, NameAhead, Written, Named
  <2>4. MainAhead' = main /\ NameAhead' = autostart["C"]
    BY <1>1, <2>1 DEF MainAhead, NameAhead
  <2> QED  BY <2>3, <2>4
<1> QED  BY <1>3, <1>4

LEMMA ErrorAdded ==
    ASSUME UploadType, NotObeyed
    PROVE  Error'
<1>1. rx \in Seq({"OK", "ERROR"}) /\ Len(rx) \in Nat /\ rx' = Append(rx, "ERROR")
  BY EmptyLemma DEF UploadType, NotObeyed
<1>2. Len(rx) + 1 \in DOMAIN rx' /\ rx'[Len(rx) + 1] = "ERROR"
  BY <1>1, AddedLemma
<1> QED  BY <1>2 DEF Error

\* From the command that closes main.vxp on nothing writes it, and from the one that
\* closes autostart.txt on nothing writes that.
LEMMA WrittenLemma ==
    ASSUME UploadType, LineInv, at <= 29, Obeyed \/ NotObeyed
    PROVE  /\ at >= 16 => main' = main
           /\ at >= 19 => autostart'["C"] = autostart["C"]
<1> DEFINE c == tx[1].command
<1>1. 1 \in DOMAIN tx /\ at \in 1 .. 29
  <2>1. Passes
    BY DEF Obeyed, NotObeyed
  <2> QED  BY <2>1, PassFacts DEF UploadType
<1>5. at = 29 \/ at <= 28
  BY <1>1
<1>2. CASE NotObeyed
  BY <1>2 DEF NotObeyed
<1>3. ASSUME Obeyed, at >= 16 PROVE main' = main
  <2>1. c \notin MainCommands
    <3>1. CASE at = 29
      BY <1>1, <3>1 DEF LineInv, Which, MainCommands
    <3>2. CASE at <= 28
      <4>1. c \in MainCommands => at = 12 \/ at = 13 \/ at = 14 \/ at = 15
        BY <1>1, <3>2, HeldPlaces, Zenon DEF MainCommands
      <4>2. at # 12 /\ at # 13 /\ at # 14 /\ at # 15
        BY <1>3
      <4> QED  BY <4>1, <4>2, Zenon
    <3> QED  BY <1>5, <3>1, <3>2, Zenon
  <2> QED  BY <1>3, <2>1 DEF Obeyed, Written, MainCommands
<1>4. ASSUME Obeyed, at >= 19 PROVE autostart'["C"] = autostart["C"]
  <2>1. c \notin {"delete C", "open autostart", "data autostart"}
    <3>1. CASE at = 29
      BY <1>1, <3>1 DEF LineInv, Which
    <3>2. CASE at <= 28
      <4>1. c \in {"delete C", "open autostart", "data autostart"} =>
               at = 10 \/ at = 11 \/ at = 16 \/ at = 17 \/ at = 18
        BY <1>1, <3>2, HeldPlaces, Zenon
      <4>2. at # 10 /\ at # 11 /\ at # 16 /\ at # 17 /\ at # 18
        BY <1>4
      <4> QED  BY <4>1, <4>2, Zenon
    <3> QED  BY <1>5, <3>1, <3>2, Zenon
  <2> QED  BY <1>4, <2>1 DEF Obeyed, Named
<1> QED  BY <1>2, <1>3, <1>4

LEMMA PhoneAnswers ==
    ASSUME UploadType, LineInv, Obeyed \/ NotObeyed
    PROVE  /\ UNCHANGED <<at, waiting, size, program>>
           /\ Error => Error'
           /\ ErrorNext => ErrorNext'
           /\ \/ Error'
              \/ OpenAhead' = OpenAhead /\ MainAhead' = MainAhead /\ NameAhead' = NameAhead
           /\ waiting /\ (at = 15 \/ at = 18) =>
                 ErrorNext' \/ (MainAhead' = MainAhead /\ NameAhead' = NameAhead)
<1>1. Passes /\ Len(tx) <= 2
  BY RoomFor DEF Obeyed, NotObeyed
<1>2. UNCHANGED <<at, waiting, size, program>>
  BY <1>1 DEF Passes
<1>3. (Error => Error') /\ (ErrorNext => ErrorNext')
  BY <1>1, PassFacts
<1>4. CASE Obeyed
  BY <1>1, <1>2, <1>3, <1>4, AheadLemma
<1>5. CASE NotObeyed
  BY <1>2, <1>3, <1>5, ErrorAdded, CloseLemma
<1> QED  BY <1>4, <1>5

LEMMA MainStep ==
    ASSUME UploadType, LineInv, MainInv, at <= 29, Obeyed \/ NotObeyed
    PROVE  MainInv'
<1> DEFINE Half ==
             /\ OpenAhead = "main"
             /\ MainAhead.bytes = program - size /\ MainAhead.of = program
             /\ MainAhead.ended <=> size = 0
<1>1. UNCHANGED <<at, waiting, size, program>>
  BY PhoneAnswers
<1>2. (at' <= 13 => size' = program') /\ (at' >= 15 => size' = 0)
  BY <1>1 DEF MainInv
<1>3. Error \/ Half => Error' \/ Half'
  BY <1>1, PhoneAnswers
<1>4. (at = 13 /\ waiting) \/ at = 14 \/ (at = 15 /\ ~waiting) => Error \/ Half
  BY DEF MainInv
<1>5. at = 15 /\ waiting => ErrorNext' \/ IsProgram(MainAhead)'
  <2>1. at = 15 /\ waiting => ErrorNext \/ IsProgram(MainAhead)
    BY DEF MainInv
  <2> QED  BY <1>1, <2>1, PhoneAnswers DEF IsProgram, Complete
<1>6. at >= 16 => IsProgram(main)'
  <2>1. at >= 16 => main' = main /\ IsProgram(main)
    BY WrittenLemma DEF MainInv
  <2> QED  BY <1>1, <2>1 DEF IsProgram, Complete
<1>7. (at' = 13 /\ waiting') \/ at' = 14 \/ (at' = 15 /\ ~waiting') => Error' \/ Half'
  BY <1>1, <1>3, <1>4
<1>8. at' = 15 /\ waiting' => ErrorNext' \/ IsProgram(MainAhead)'
  BY <1>1, <1>5
<1>9. at' >= 16 => IsProgram(main)'
  BY <1>1, <1>6
<1> QED  BY <1>2, <1>7, <1>8, <1>9 DEF MainInv

LEMMA NameStep ==
    ASSUME UploadType, LineInv, NameInv, at <= 29, Obeyed \/ NotObeyed
    PROVE  NameInv'
<1>1. UNCHANGED <<at, waiting>>
  BY PhoneAnswers
<1>2. (at = 16 /\ waiting) \/ (at = 17 /\ ~waiting) => Error' \/ OpenAhead' = "autostart"
  <2>1. (at = 16 /\ waiting) \/ (at = 17 /\ ~waiting) => Error \/ OpenAhead = "autostart"
    BY DEF NameInv
  <2> QED  BY <2>1, PhoneAnswers
<1>3. (at = 17 /\ waiting) \/ (at = 18 /\ ~waiting) => Error' \/ NameAhead' = "whole"
  <2>1. (at = 17 /\ waiting) \/ (at = 18 /\ ~waiting) => Error \/ NameAhead = "whole"
    BY DEF NameInv
  <2> QED  BY <2>1, PhoneAnswers
<1>4. at = 18 /\ waiting => ErrorNext' \/ NameAhead' = "whole"
  <2>1. at = 18 /\ waiting => ErrorNext \/ NameAhead = "whole"
    BY DEF NameInv
  <2> QED  BY <2>1, PhoneAnswers
<1>5. at >= 19 => autostart'["C"] = "whole"
  BY WrittenLemma DEF NameInv
<1> QED  BY <1>1, <1>2, <1>3, <1>4, <1>5 DEF NameInv

LEMMA PacketLemma ==
    ASSUME NEW f \in FileType, NEW n \in Nat, NEW e \in BOOLEAN
    PROVE  [f EXCEPT !.bytes = @ + n, !.ended = e] \in FileType
<1>1. f.bytes \in Nat /\ DOMAIN f = {"bytes", "ended", "of"}
  BY DEF FileType
<1> DEFINE sum == f.bytes + n
<1>2. sum \in Nat
  BY <1>1
<1> HIDE DEF sum
<1>3. [f EXCEPT !.bytes = sum, !.ended = e] \in FileType
  BY <1>2, Zenon DEF FileType
<1> QED  BY <1>3 DEF sum

LEMMA WrittenType ==
    ASSUME NEW c \in CommandType, NEW o, NEW f \in FileType
    PROVE  Written(c, o, f) \in FileType
<1>1. c.len \in Nat /\ c.eof \in BOOLEAN /\ c.of \in Nat
  BY DEF CommandType
<1>2. App!NoFile \in FileType /\ [App!NoFile EXCEPT !.of = c.of] \in FileType
  BY <1>1 DEF App!NoFile, FileType
<1>3. [f EXCEPT !.bytes = @ + c.len, !.ended = c.eof] \in FileType
  BY <1>1, PacketLemma, Zenon
<1>4. \/ Written(c, o, f) = App!NoFile \/ Written(c, o, f) = [App!NoFile EXCEPT !.of = c.of]
      \/ Written(c, o, f) = f
      \/ Written(c, o, f) = [f EXCEPT !.bytes = @ + c.len, !.ended = c.eof]
  BY DEF Written
<1> QED  BY <1>2, <1>3, <1>4, Zenon

LEMMA FileAhead ==
    ASSUME UploadType, Len(tx) \in 0 .. 1
    PROVE  MainAhead \in FileType
<1>1. tx \in Seq(CommandType) /\ main \in FileType /\ Len(tx) \in Nat
  BY EmptyLemma DEF UploadType
<1>2. CASE Len(tx) = 0
  BY <1>1, <1>2 DEF MainAhead
<1>3. CASE Len(tx) = 1
  <2>1. tx[1] \in CommandType
    BY <1>1, <1>3
  <2> QED  BY <1>1, <1>3, <2>1, WrittenType DEF MainAhead
<1> QED  BY <1>1, <1>2, <1>3

LEMMA PhoneStep ==
    ASSUME UploadInv, App!Phone, Faults \cap {"delete C", "delete D"} = {}
    PROVE  UploadInv'
<1>1. UploadType /\ LineInv /\ SafeInv /\ (Obeyed \/ NotObeyed)
  BY PhoneLemma DEF UploadInv
<1>2. Passes /\ UNCHANGED <<at, waiting, size, program>>
  BY <1>1 DEF Obeyed, NotObeyed, Passes
<1>3. UploadType'
  <2>1. tx' \in Seq(CommandType) /\ rx' \in Seq({"OK", "ERROR"}) /\ tx[1] \in CommandType
    BY <1>1, <1>2, PassFacts
  <2>2. main' \in FileType /\ autostart' \in [{"C", "D"} -> {"none", "empty", "whole"}]
    <3>1. CASE NotObeyed
      BY <1>1, <3>1 DEF NotObeyed, UploadType
    <3>2. CASE Obeyed
      <4>1. autostart' \in [{"C", "D"} -> {"none", "empty", "whole"}]
        BY <3>2 DEF Obeyed
      <4>2. main' = Written(tx[1], open, main) /\ main \in FileType
        BY <1>1, <3>2 DEF Obeyed, UploadType
      <4> QED  BY <2>1, <4>1, <4>2, WrittenType
    <3> QED  BY <1>1, <3>1, <3>2
  <2> QED  BY <1>1, <1>2, <2>1, <2>2 DEF UploadType
<1>4. LineInv' /\ SafeInv'
  BY <1>1, <1>2, PassLine, SafeStep
<1>5. at' <= 29 => DeletedInv' /\ MainInv' /\ NameInv'
  BY <1>1, <1>2, DeletedStep, MainStep, NameStep DEF UploadInv
<1> QED  BY <1>3, <1>4, <1>5 DEF UploadInv

----------------------------------------------------------------------------
(* The script sends a command *)

Dispatched(c) ==
    /\ c \in CommandType /\ c.command = Commands[at]
    /\ at \in 1 .. 27 /\ at # 2 /\ ~waiting
    /\ tx' = Append(tx, c) /\ waiting' = TRUE
    /\ UNCHANGED <<at, program, rx, open, main, autostart>>
    /\ size' \in 0 .. program
    /\ at # 14 => size' = size
    /\ at = 13 => size # 0 /\ c.of = program
    /\ at = 14 => c.len = size - size' /\ c.len \in Nat /\ (c.eof <=> size' = 0)

LEMMA PacketFacts ==
    ASSUME NEW w \in Nat \ {0}, NEW s \in Nat, NEW p \in Nat, s <= p,
           NEW len, len = IF s >= w THEN w ELSE s
    PROVE  /\ len \in Nat /\ s - len \in 0 .. p /\ len = s - (s - len)
           /\ s <= w <=> s - len = 0
  OBVIOUS

LEMMA SentLemma ==
    ASSUME UploadType, App!SizesAssumption, App!SendCommand \/ App!sendFile, UNCHANGED App!files
    PROVE  \E c : Dispatched(c)
<1>1. /\ at \in 1 .. 30 /\ size \in Nat /\ program \in Nat /\ size <= program
      /\ WRITE_SIZE \in Nat \ {0} /\ at <= 28 /\ ~waiting /\ waiting' = TRUE
      /\ UNCHANGED <<at, program, rx, open, main, autostart>>
  <2>1. at <= 28
    BY ValuesLemma, SameState DEF App!SendCommand, App!sendFile
  <2>2. /\ at \in 1 .. 30 /\ size \in Nat /\ program \in Nat /\ size <= program
        /\ WRITE_SIZE \in Nat \ {0}
    BY DEF UploadType, App!SizesAssumption
  <2>3. ~waiting /\ waiting' = TRUE /\ UNCHANGED <<at, program, rx>>
    BY Zenon DEF App!SendCommand, App!sendFile
  <2>4. UNCHANGED <<open, main, autostart>>
    BY DEF App!files
  <2> QED  BY <2>1, <2>2, <2>3, <2>4, Zenon
<1> DEFINE n == at
<1>2. n \in 1 .. 28
  BY <1>1
<1>3. App!Command = Commands[n]
  BY SameState, Zenon DEF App!Command
<1>9. n = at /\ n' = at'
  OBVIOUS
<1> HIDE DEF n
<1>4. /\ Commands[n] \in Names
      /\ Commands[n] = "EXIT_ALL" <=> n = 2
      /\ Commands[n] = "open main" <=> n = 13
      /\ Commands[n] = "data main" <=> n = 14
      /\ Commands[n] = "REBOOT" <=> n = 28
  BY <1>2, PlacesLemma, Zenon
<1>5. CASE App!SendCommand
  <2> DEFINE c == [command |-> App!Command, len |-> 0, eof |-> FALSE, of |-> program]
  <2>1. tx' = Append(tx, c) /\ size' = size
    BY <1>5 DEF App!SendCommand, App!Sends
  <2>2. c \in CommandType /\ c.command = Commands[at] /\ c.of = program
    BY <1>1, <1>3, <1>4, <1>9 DEF CommandType
  <2>3. n # 2 /\ n # 14 /\ n # 28
    BY <1>3, <1>4, <1>5, Zenon DEF App!SendCommand, App!Unread
  <2>4. n = 13 => size > 0
    BY <1>3, <1>4, <1>5, Zenon DEF App!SendCommand
  <2>5. at \in 1 .. 27 /\ at # 2 /\ at # 14 /\ (at = 13 => size # 0)
    BY <1>1, <1>9, <2>3, <2>4
  <2> HIDE DEF c
  <2>6. Dispatched(c)
    BY <1>1, <2>1, <2>2, <2>5 DEF Dispatched
  <2> QED  BY <2>6
<1>6. CASE App!sendFile
  <2> DEFINE len == IF size >= WRITE_SIZE THEN WRITE_SIZE ELSE size
             c == [command |-> App!Command, len |-> len, eof |-> App!EndsFile, of |-> program]
  <2>1. tx' = Append(tx, c) /\ size' = size - len
    BY <1>6 DEF App!sendFile, App!Sends
  <2>2. n = 14
    BY <1>3, <1>4, <1>6, Zenon DEF App!sendFile
  <2>3. at = 14
    BY <1>9, <2>2
  <2>4. /\ len \in Nat /\ size - len \in 0 .. program /\ len = size - (size - len)
        /\ size <= WRITE_SIZE <=> size - len = 0
    BY <1>1, PacketFacts
  <2>5. c.command = Commands[at] /\ c.len = len /\ (c.eof <=> size <= WRITE_SIZE)
    BY <1>3, <1>9 DEF App!EndsFile
  <2>6. App!EndsFile \in BOOLEAN
    BY DEF App!EndsFile
  <2> HIDE DEF len
  <2>7. c \in CommandType
    BY <1>1, <1>3, <1>4, <2>4, <2>6, Zenon DEF CommandType
  <2> HIDE DEF c
  <2>8. at \in 1 .. 27 /\ at # 2 /\ at # 13
    BY <2>3
  <2>9. size' \in 0 .. program /\ c.len = size - size' /\ c.len \in Nat /\ (c.eof <=> size' = 0)
    BY <2>1, <2>4, <2>5
  <2>10. Dispatched(c)
    BY <1>1, <2>1, <2>3, <2>5, <2>7, <2>8, <2>9 DEF Dispatched
  <2> QED  BY <2>10
<1> QED  BY <1>5, <1>6

LEMMA SentFacts ==
    ASSUME UploadType, LineInv, NEW c, Dispatched(c)
    PROVE  /\ Len(tx) \in 0 .. 1 /\ Len(rx) \in Nat /\ Len(tx) + Len(rx) <= 1
           /\ at <= 2 => Len(tx) + Len(rx) = 0
           /\ tx' \in Seq(CommandType) /\ Len(tx') = Len(tx) + 1
           /\ tx'[Len(tx) + 1] = c /\ DOMAIN tx' = 1 .. Len(tx) + 1
           /\ DOMAIN tx = 1 .. Len(tx)
           /\ \A i \in DOMAIN tx : tx'[i] = tx[i]
<1>1. tx \in Seq(CommandType) /\ c \in CommandType /\ at \in 1 .. 27 /\ ~waiting
      /\ tx' = Append(tx, c)
  BY DEF UploadType, Dispatched
<1>2. Len(tx) \in Nat /\ Len(rx) \in Nat
  BY EmptyLemma DEF UploadType
<1>3. Len(tx) + Len(rx) <= 1 /\ (at <= 2 => Len(tx) + Len(rx) = 0)
  BY <1>1 DEF LineInv, Room
<1>4. Len(tx) \in 0 .. 1
  <2> DEFINE m == Len(tx)
             n == Len(rx)
  <2>1. m \in Nat /\ n \in Nat /\ m + n <= 1
    BY <1>2, <1>3
  <2> HIDE DEF m, n
  <2>2. m \in 0 .. 1
    BY <2>1
  <2> QED  BY <2>2 DEF m
<1>5. /\ tx' \in Seq(CommandType) /\ Len(tx') = Len(tx) + 1
      /\ tx'[Len(tx) + 1] = c /\ DOMAIN tx' = 1 .. Len(tx) + 1
      /\ DOMAIN tx = 1 .. Len(tx)
      /\ \A i \in DOMAIN tx : tx'[i] = tx[i]
  BY <1>1, AddedLemma
<1> QED  BY <1>2, <1>3, <1>4, <1>5

LEMMA SentAhead ==
    ASSUME UploadType, LineInv, NEW c, Dispatched(c)
    PROVE  /\ OpenAhead' = Opened(c, OpenAhead)
           /\ MainAhead' = Written(c, OpenAhead, MainAhead)
           /\ NameAhead' = Named(c, OpenAhead, NameAhead)
<1>1. UNCHANGED <<open, main, autostart>>
  BY DEF Dispatched
<1>2. CASE Len(tx) = 0
  <2>1. Len(tx') = 1 /\ tx'[1] = c
    BY <1>2, SentFacts
  <2> QED  BY <1>1, <1>2, <2>1 DEF OpenAhead, MainAhead, NameAhead
<1>3. CASE Len(tx) = 1
  <2>1. Len(tx') = 2 /\ tx'[2] = c /\ tx'[1] = tx[1]
    BY <1>3, SentFacts
  <2> QED  BY <1>1, <1>3, <2>1 DEF OpenAhead, MainAhead, NameAhead
<1> QED  BY <1>2, <1>3, SentFacts

LEMMA SentInTx ==
    ASSUME UploadType, LineInv, NEW c, Dispatched(c), NEW command
    PROVE  /\ InTx(command)' => InTx(command) \/ c.command = command
           /\ InTx(command) => InTx(command)'
           /\ c.command = command => InTx(command)'
<1> DEFINE m == Len(tx)
<1>1. /\ m \in Nat /\ DOMAIN tx = 1 .. m /\ DOMAIN tx' = 1 .. m + 1
      /\ tx'[m + 1] = c /\ \A i \in DOMAIN tx : tx'[i] = tx[i]
  BY SentFacts
<1> HIDE DEF m
<1> QED  BY <1>1 DEF InTx

LEMMA SentLine ==
    ASSUME UploadType, LineInv, NEW c, Dispatched(c)
    PROVE  UploadType' /\ LineInv'
<1>1. UploadType'
  BY SentFacts DEF UploadType, Dispatched
<1>2. at' = at /\ at \in 1 .. 27 /\ at # 2 /\ waiting' = TRUE /\ ~waiting /\ rx' = rx
      /\ c.command = Commands[at]
  BY DEF Dispatched
<1>3. Waits'
  BY <1>2 DEF Waits
<1>4. Room'
  <2>1. at' <= 28 /\ waiting' /\ at' # 29 /\ at' # 30
    BY <1>2
  <2>2. Len(tx') + Len(rx') <= 2 /\ (at' <= 2 => Len(tx') + Len(rx') <= 1)
    BY <1>2, SentFacts
  <2> QED  BY <2>1, <2>2 DEF Room
<1>5. Which'
  <2>1. tx'[Len(tx')].command = Commands[at'] /\ waiting' /\ at' # 29
    BY <1>2, SentFacts
  <2>2. Len(tx') > 1 => tx'[1].command \in Before(at')
    <3> HAVE Len(tx') > 1
    <3>1. Len(tx) = 1 /\ tx'[1] = tx[1]
      BY SentFacts
    <3> QED  BY <1>2, <3>1 DEF LineInv, Which
  <2> QED  BY <2>1, <2>2 DEF Which
<1> QED  BY <1>1, <1>3, <1>4, <1>5 DEF LineInv

\* Where in the script the commands are sent whose effects matter.
LEMMA SentPlace ==
    ASSUME NEW c, Dispatched(c)
    PROVE  /\ c.command = "delete D" <=> at = 8
           /\ c.command = "delete C" <=> at = 10
           /\ c.command = "delete main" <=> at = 12
           /\ c.command = "open main" <=> at = 13
           /\ c.command = "data main" <=> at = 14
           /\ c.command = "close" <=> at \in {15, 18}
           /\ c.command = "open autostart" <=> at = 16
           /\ c.command = "data autostart" <=> at = 17
<1> DEFINE d == c.command
           n == at
<1>1. n \in 1 .. 28 /\ d = Commands[n]
  BY DEF Dispatched
<1> HIDE DEF d, n
<1>2. /\ d = "delete D" <=> n = 8
      /\ d = "delete C" <=> n = 10
      /\ d = "delete main" <=> n = 12
      /\ d = "open main" <=> n = 13
      /\ d = "data main" <=> n = 14
      /\ d = "close" <=> n \in {15, 18}
      /\ d = "open autostart" <=> n = 16
      /\ d = "data autostart" <=> n = 17
  BY <1>1, PlacesLemma, Zenon
<1> QED  BY <1>2, Zenon DEF d, n

LEMMA SentSafe ==
    ASSUME UploadInv, NEW c, Dispatched(c)
    PROVE  SafeInv'
<1>1. /\ UploadType /\ LineInv /\ SafeInv /\ DeletedInv /\ MainInv
      /\ at \in 1 .. 27 /\ ~waiting /\ UNCHANGED <<main, autostart>>
  <2>1. at \in 1 .. 27 /\ ~waiting /\ UNCHANGED <<main, autostart>>
    BY DEF Dispatched
  <2>2. at <= 29
    BY <2>1
  <2> QED  BY <2>1, <2>2 DEF UploadInv
<1>2. AutostartSafe'
  BY <1>1 DEF SafeInv, AutostartSafe, Complete
<1>3. ASSUME NEW k \in MainCommands, InTx(k)' PROVE Unnamed'
  <2>1. CASE InTx(k)
    BY <1>1, <1>3, <2>1 DEF SafeInv, MainCommands, Unnamed
  <2>2. CASE c.command = k
    <3>1. at = 12 \/ at = 13 \/ at = 14
      BY <1>3, <2>2, SentPlace, Zenon DEF MainCommands
    <3>2. at >= 9 /\ ~ at <= 9 /\ at \in 11 .. 16 /\ ~ at <= 11
      BY <3>1
    <3>3. autostart["D"] # "whole" /\ autostart["C"] # "whole"
      BY <1>1, <3>2, Zenon DEF DeletedInv
    <3> QED  BY <1>1, <3>3 DEF Unnamed
  <2> QED  BY <1>1, <1>3, <2>1, <2>2, SentInTx
<1>4. ASSUME InTx("data autostart")' PROVE Complete(main)'
  <2>1. CASE InTx("data autostart")
    BY <1>1, <2>1 DEF SafeInv, Complete
  <2>2. CASE c.command = "data autostart"
    <3>1. at = 17
      BY <2>2, SentPlace, Zenon
    <3> QED  BY <1>1, <3>1 DEF MainInv, IsProgram, Complete
  <2> QED  BY <1>1, <1>4, <2>1, <2>2, SentInTx
<1> QED  BY <1>2, <1>3, <1>4 DEF SafeInv, MainCommands

LEMMA SentDeleted ==
    ASSUME UploadType, LineInv, DeletedInv, NEW c, Dispatched(c)
    PROVE  DeletedInv'
<1>1. at' = at /\ at \in 1 .. 27 /\ ~waiting /\ waiting' /\ UNCHANGED autostart
  BY DEF Dispatched
<1>2. /\ at = 8 => InTx("delete D")'
      /\ at = 10 => InTx("delete C")'
      /\ InTx("delete D") => InTx("delete D")'
      /\ InTx("delete C") => InTx("delete C")'
  BY SentInTx, SentPlace, Zenon
<1>3. /\ at >= 9 => autostart["D"] # "whole" \/ (at <= 9 /\ InTx("delete D"))
      /\ at \in 11 .. 16 \/ at = 17 => autostart["C"] # "whole" \/ (at <= 11 /\ InTx("delete C"))
  BY <1>1 DEF DeletedInv
<1>4. at = 8 => at <= 9
  OBVIOUS
<1>5. at = 10 => at <= 11
  OBVIOUS
<1> QED  BY <1>1, <1>2, <1>3, <1>4, <1>5, Zenon DEF DeletedInv

\* The ERROR among the answers that are left is the next one.
LEMMA SentError ==
    ASSUME UploadType, LineInv, NEW c, Dispatched(c)
    PROVE  /\ Error => Error'
           /\ Error => ErrorNext'
<1>1. UNCHANGED rx /\ rx \in Seq({"OK", "ERROR"})
  BY DEF UploadType, Dispatched
<1>2. Len(rx) \in Nat /\ Len(rx) <= 1 /\ DOMAIN rx = 1 .. Len(rx)
  <2>1. Len(tx) \in Nat /\ Len(rx) \in Nat /\ Len(tx) + Len(rx) <= 1
    BY SentFacts
  <2>2. DOMAIN rx = 1 .. Len(rx)
    BY <1>1
  <2> QED  BY <2>1, <2>2
<1>3. Error => Error'
  BY <1>1 DEF Error
<1>4. ASSUME Error PROVE ErrorNext'
  <2>1. PICK i \in DOMAIN rx : rx[i] = "ERROR"
    BY <1>4 DEF Error
  <2>2. i = 1 /\ Len(rx) > 0
    BY <1>2, <2>1
  <2> QED  BY <1>1, <2>1, <2>2 DEF ErrorNext
<1> QED  BY <1>3, <1>4

LEMMA SentMain ==
    ASSUME UploadType, LineInv, MainInv, NEW c, Dispatched(c)
    PROVE  MainInv'
<1>1. /\ UNCHANGED <<at, program, rx, main>> /\ ~waiting /\ waiting' = TRUE
      /\ at \in 1 .. 27 /\ (at # 14 => size' = size) /\ size \in Nat /\ program \in Nat
  BY DEF Dispatched, UploadType
<1>2. (at' <= 13 => size' = program') /\ (at' >= 15 => size' = 0)
  <2>1. /\ at <= 13 => size = program
        /\ at >= 15 => size = 0
    BY DEF MainInv
  <2> QED  BY <1>1, <2>1
<1>3. CASE at = 13
  <2>1. size' = size /\ size # 0 /\ c.of = program /\ size = program
    BY <1>1, <1>3 DEF Dispatched, MainInv
  <2>2. c.command = "open main"
    BY <1>3, SentPlace
  <2>3. OpenAhead' = "main" /\ MainAhead' = [App!NoFile EXCEPT !.of = c.of]
    BY <2>2, SentAhead DEF Opened, Written
  <2>4. MainAhead'.bytes = 0 /\ MainAhead'.of = program /\ MainAhead'.ended = FALSE
    BY <2>1, <2>3 DEF App!NoFile
  <2>5. program' - size' = 0 /\ size' # 0 /\ program' = program
    BY <1>1, <2>1
  <2>6. /\ OpenAhead' = "main"
        /\ MainAhead'.bytes = program' - size' /\ MainAhead'.of = program'
        /\ MainAhead'.ended <=> size' = 0
    BY <2>3, <2>4, <2>5
  <2> QED  BY <1>1, <1>2, <1>3, <2>6 DEF MainInv
<1>4. CASE at = 14
  <2>1. \/ Error
        \/ /\ OpenAhead = "main"
           /\ MainAhead.bytes = program - size /\ MainAhead.of = program
    BY <1>4 DEF MainInv
  <2>2. c.command = "data main"
    BY <1>4, SentPlace
  <2>3. /\ c.len = size - size' /\ c.len \in Nat /\ size' \in Nat
        /\ c.eof <=> size' = 0
    BY <1>4 DEF Dispatched
  <2>4. CASE Error
    BY <1>1, <1>2, <1>4, <2>4, SentError DEF MainInv
  <2>5. CASE OpenAhead = "main" /\ MainAhead.bytes = program - size /\ MainAhead.of = program
    <3>1. MainAhead \in FileType
      BY SentFacts, FileAhead, Zenon
    <3>2. OpenAhead' = "main" /\ MainAhead' = [MainAhead EXCEPT !.bytes = @ + c.len, !.ended = c.eof]
      BY <2>2, <2>5, SentAhead DEF Opened, Written
    <3>3. /\ MainAhead'.bytes = MainAhead.bytes + c.len
          /\ MainAhead'.of = MainAhead.of
      BY <3>1, <3>2 DEF FileType
    <3>4. MainAhead'.ended = c.eof
      BY <3>1, <3>2, Zenon DEF FileType
    <3>5. MainAhead'.bytes = program' - size' /\ MainAhead'.of = program'
      BY <1>1, <2>3, <2>5, <3>3
    <3>6. MainAhead'.ended <=> size' = 0
      BY <2>3, <3>4, Zenon
    <3> QED  BY <1>1, <1>2, <1>4, <3>2, <3>5, <3>6 DEF MainInv
  <2> QED  BY <2>1, <2>4, <2>5
<1>5. CASE at = 15
  <2>1. size = 0 /\ size' = 0
    BY <1>1, <1>5 DEF MainInv
  <2>2. \/ Error
        \/ MainAhead.bytes = program - size /\ MainAhead.of = program /\ (MainAhead.ended <=> size = 0)
    BY <1>1, <1>5 DEF MainInv
  <2>3. c.command = "close"
    BY <1>5, SentPlace
  <2>4. MainAhead' = MainAhead
    BY <2>3, SentAhead DEF Written
  <2>5. CASE Error
    BY <1>1, <1>2, <1>5, <2>5, SentError DEF MainInv
  <2>6. CASE MainAhead.bytes = program - size /\ MainAhead.of = program /\ (MainAhead.ended <=> size = 0)
    <3>1. MainAhead'.bytes = program' /\ MainAhead'.of = program' /\ MainAhead'.ended
      BY <1>1, <2>1, <2>4, <2>6
    <3>2. IsProgram(MainAhead)'
      BY <3>1 DEF IsProgram, Complete
    <3> QED  BY <1>1, <1>2, <1>5, <3>2 DEF MainInv
  <2> QED  BY <2>2, <2>5, <2>6
<1>6. CASE at >= 16
  <2>1. IsProgram(main)'
    BY <1>1, <1>6 DEF MainInv, IsProgram, Complete
  <2> QED  BY <1>1, <1>2, <1>6, <2>1 DEF MainInv
<1>7. CASE at <= 12
  BY <1>1, <1>2, <1>7 DEF MainInv
<1> QED  BY <1>1, <1>3, <1>4, <1>5, <1>6, <1>7

LEMMA SentName ==
    ASSUME UploadType, LineInv, NameInv, NEW c, Dispatched(c)
    PROVE  NameInv'
<1>1. UNCHANGED <<at, rx, autostart>> /\ ~waiting /\ waiting' = TRUE /\ at \in 1 .. 27
  BY DEF Dispatched
<1>2. CASE at = 16
  <2>1. c.command = "open autostart"
    BY <1>2, SentPlace
  <2>2. OpenAhead' = "autostart"
    BY <2>1, SentAhead DEF Opened
  <2> QED  BY <1>1, <1>2, <2>2 DEF NameInv
<1>3. CASE at = 17
  <2>1. c.command = "data autostart"
    BY <1>3, SentPlace
  <2>2. Error \/ OpenAhead = "autostart"
    BY <1>1, <1>3 DEF NameInv
  <2>3. Error' \/ NameAhead' = "whole"
    BY <2>1, <2>2, SentAhead, SentError DEF Named
  <2> QED  BY <1>1, <1>3, <2>3 DEF NameInv
<1>4. CASE at = 18
  <2>1. c.command = "close"
    BY <1>4, SentPlace
  <2>2. Error \/ NameAhead = "whole"
    BY <1>1, <1>4 DEF NameInv
  <2>3. ErrorNext' \/ NameAhead' = "whole"
    BY <2>1, <2>2, SentAhead, SentError DEF Named
  <2> QED  BY <1>1, <1>4, <2>3 DEF NameInv
<1>5. CASE at >= 19 \/ at <= 15
  BY <1>1, <1>5 DEF NameInv
<1> QED  BY <1>1, <1>2, <1>3, <1>4, <1>5

LEMMA SentStep ==
    ASSUME UploadInv, App!SizesAssumption, App!SendCommand \/ App!sendFile, UNCHANGED App!files
    PROVE  UploadInv'
<1>1. UploadType /\ LineInv
  BY DEF UploadInv
<1>2. PICK c : Dispatched(c)
  BY <1>1, SentLemma
<1>3. DeletedInv /\ MainInv /\ NameInv
  <2>2. at \in 1 .. 27
    BY <1>2, Zenon DEF Dispatched
  <2>1. at <= 29
    BY <2>2
  <2> QED  BY <2>1 DEF UploadInv
<1>4. UploadType' /\ LineInv' /\ SafeInv'
  BY <1>1, <1>2, SentLine, SentSafe
<1>5. DeletedInv' /\ MainInv' /\ NameInv'
  BY <1>1, <1>2, <1>3, SentDeleted, SentMain, SentName
<1> QED  BY <1>4, <1>5 DEF UploadInv

----------------------------------------------------------------------------
(* The script reads an answer *)

\* What ReadLine does unless the script ends with it.
Goes ==
    /\ at \in 1 .. 27 /\ at # 2 /\ waiting
    /\ UNCHANGED <<size, program, tx, open, main, autostart>>
    /\ waiting' = FALSE
    /\ Len(rx) > 0 /\ rx' = Tail(rx)
    /\ at' = at + 1 \/ (at = 14 /\ at' = 14)
    /\ at \in 13 .. 18 => rx[1] # "ERROR"
    /\ at = 14 /\ at' = 15 => size = 0

LEMMA Either ==
    ASSUME NEW p \in BOOLEAN, NEW q \in BOOLEAN, NEW a, NEW b, NEW c,
           NEW x, x = IF p THEN a ELSE IF q THEN b ELSE c
    PROVE  \/ p /\ x = a
           \/ ~p /\ q /\ x = b
           \/ ~p /\ ~q /\ x = c
  OBVIOUS

LEMMA AnswerLemma ==
    ASSUME UploadType, LineInv, App!ReadLine, UNCHANGED App!files
    PROVE  \/ Goes
           \/ /\ at' = 30 /\ waiting' = FALSE /\ rx' = Tail(rx) /\ rx # << >>
              /\ at \in 1 .. 27 /\ waiting
              /\ UNCHANGED <<size, program, tx, open, main, autostart>>
<1>1. /\ waiting /\ rx # << >> /\ rx' = Tail(rx) /\ waiting' = FALSE
      /\ UNCHANGED <<size, program, tx, open, main, autostart>>
  BY Zenon DEF App!ReadLine, App!files
<1>2. at \in 1 .. 27 /\ at # 2
  BY <1>1 DEF LineInv, Waits
<1>3. Head(rx) = rx[1] /\ Len(rx) > 0
  <2>1. rx \in Seq({"OK", "ERROR"})
    BY DEF UploadType
  <2>2. Len(rx) \in Nat \ {0} /\ Head(rx) = rx[1]
    BY <1>1, <2>1, TakenLemma, Zenon
  <2> QED  BY <2>2, SmallLemma, Zenon
<1> DEFINE n == at
           d == App!Command
<1>4. n \in 1 .. 28 /\ d = Commands[n] /\ n = at
  BY <1>2, SameState DEF App!Command
<1>5. \/ rx[1] = "ERROR" /\ d \notin App!IgnoreError /\ at' = 30
      \/ ~(rx[1] = "ERROR" /\ d \notin App!IgnoreError) /\ d = "data main" /\ size > 0 /\ at' = at
      \/ /\ ~(rx[1] = "ERROR" /\ d \notin App!IgnoreError) /\ ~(d = "data main" /\ size > 0)
         /\ at' = at + 1
  <2> DEFINE fails == Head(rx) = "ERROR" /\ App!Command \notin App!IgnoreError
             more == App!Command = "data main" /\ size > 0
  <2>1. at' = IF fails THEN App!Failed ELSE IF more THEN at ELSE at + 1
    BY DEF App!ReadLine
  <2>2. fails <=> rx[1] = "ERROR" /\ d \notin App!IgnoreError
    BY <1>3, Zenon
  <2>3. more <=> d = "data main" /\ size > 0
    OBVIOUS
  <2>5. fails \in BOOLEAN /\ more \in BOOLEAN
    BY Zenon
  <2> HIDE DEF fails, more
  <2>4. \/ fails /\ at' = App!Failed
        \/ ~fails /\ more /\ at' = at
        \/ ~fails /\ ~more /\ at' = at + 1
    BY <2>1, <2>5, Either, Zenon
  <2> QED  BY <2>2, <2>3, <2>4, ValuesLemma, Zenon
<1> HIDE DEF n, d
<1>6. d = "data main" <=> n = 14
  BY <1>4, PlacesLemma, Zenon
<1>7. n \in 13 .. 18 => d \notin App!IgnoreError
  <2> SUFFICES ASSUME n \in 13 .. 18 PROVE d \notin App!IgnoreError
    OBVIOUS
  <2>1. n = 13 \/ n = 14 \/ n = 15 \/ n = 16 \/ n = 17 \/ n = 18
    OBVIOUS
  <2>2. d \in {"open main", "data main", "close", "open autostart", "data autostart"}
    BY <1>4, <2>1, ValuesLemma, Zenon
  <2> QED  BY <2>2 DEF App!IgnoreError
<1>8. CASE rx[1] = "ERROR" /\ d \notin App!IgnoreError /\ at' = 30
  BY <1>1, <1>2, <1>8, Zenon
<1>9. CASE /\ ~(rx[1] = "ERROR" /\ d \notin App!IgnoreError) /\ d = "data main" /\ size > 0
           /\ at' = at
  <2>4. at = 14
    BY <1>4, <1>6, <1>9, Zenon
  <2>5. at' = 14
    BY <1>9, <2>4, Zenon
  <2>1. at = 14 /\ at' = 14 /\ at' # 15
    BY <2>4, <2>5
  <2>2. at \in 13 .. 18 => rx[1] # "ERROR"
    BY <1>4, <1>7, <1>9, Zenon
  <2>3. Goes
    BY <1>1, <1>2, <1>3, <2>1, <2>2, Zenon DEF Goes
  <2> QED  BY <2>3
<1>10. CASE /\ ~(rx[1] = "ERROR" /\ d \notin App!IgnoreError) /\ ~(d = "data main" /\ size > 0)
            /\ at' = at + 1
  <2>1. at = 14 => size = 0
    <3>1. at = 14 => ~ size > 0
      BY <1>4, <1>6, <1>10, Zenon
    <3> QED  BY <3>1 DEF UploadType
  <2>2. at \in 13 .. 18 => rx[1] # "ERROR"
    BY <1>4, <1>7, <1>10, Zenon
  <2>3. Goes
    BY <1>1, <1>2, <1>3, <1>10, <2>1, <2>2, Zenon DEF Goes
  <2> QED  BY <2>3
<1> QED  BY <1>5, <1>8, <1>9, <1>10

LEMMA ReadFacts ==
    ASSUME UploadType, LineInv, waiting, at \in 1 .. 27, rx # << >>, rx' = Tail(rx)
    PROVE  /\ Len(tx) \in 0 .. 1 /\ Len(rx') \in 0 .. 1 /\ Len(tx) + Len(rx') <= 1
           /\ at = 1 => Len(tx) + Len(rx') = 0
           /\ rx' \in Seq({"OK", "ERROR"})
           /\ DOMAIN rx = 1 .. Len(rx)
           /\ \A i \in DOMAIN rx : i # 1 => i - 1 \in DOMAIN rx' /\ rx'[i - 1] = rx[i]
           /\ Len(tx) > 0 => tx[1].command = Commands[at]
           /\ DOMAIN tx = 1 .. Len(tx)
<1>1. /\ rx' \in Seq({"OK", "ERROR"}) /\ Len(rx') = Len(rx) - 1 /\ Len(rx) \in Nat \ {0}
      /\ DOMAIN rx = 1 .. Len(rx) /\ DOMAIN rx' = 1 .. Len(rx) - 1
      /\ \A i \in 1 .. Len(rx) - 1 : rx'[i] = rx[i + 1]
  <2>1. rx \in Seq({"OK", "ERROR"})
    BY DEF UploadType
  <2> QED  BY <2>1, TakenLemma
<1>2. Len(tx) \in Nat /\ DOMAIN tx = 1 .. Len(tx)
  BY EmptyLemma DEF UploadType
<1> DEFINE m == Len(tx)
           n == Len(rx)
<1>3. m + n <= 2 /\ (at = 1 => m + n <= 1)
  BY <1>1, <1>2 DEF LineInv, Room
<1>4. m \in Nat /\ n \in Nat \ {0}
  BY <1>1, <1>2
<1>5. Len(rx') = n - 1
  BY <1>1
<1>6. tx[Len(tx)].command = Commands[at] \/ ~ Len(tx) > 0
  BY DEF LineInv, Which
<1>7. \A i \in DOMAIN rx : i # 1 => i - 1 \in DOMAIN rx' /\ rx'[i - 1] = rx[i]
  <2> SUFFICES ASSUME NEW i \in 1 .. n, i # 1
               PROVE  i - 1 \in 1 .. n - 1 /\ rx'[i - 1] = rx[i]
    BY <1>1
  <2>1. i - 1 \in 1 .. n - 1 /\ (i - 1) + 1 = i
    BY <1>4
  <2> QED  BY <1>1, <2>1
<1> HIDE DEF m, n
<1>8. /\ m \in 0 .. 1 /\ n - 1 \in 0 .. 1 /\ m + (n - 1) <= 1
      /\ at = 1 => m + (n - 1) = 0
      /\ m > 0 => m = 1
  BY <1>3, <1>4
<1>9. Len(tx) > 0 => tx[1].command = Commands[at]
  BY <1>6, <1>8 DEF m
<1> QED  BY <1>1, <1>2, <1>5, <1>7, <1>8, <1>9 DEF m

LEMMA TxIsAt ==
    ASSUME UploadType, LineInv, waiting, at \in 1 .. 27, rx # << >>, rx' = Tail(rx),
           NEW command, InTx(command)
    PROVE  Commands[at] = command
<1>1. PICK i \in DOMAIN tx : tx[i].command = command
  BY DEF InTx
<1> DEFINE m == Len(tx)
<1>2. m \in 0 .. 1 /\ (m > 0 => tx[1].command = Commands[at]) /\ i \in 1 .. m
  BY <1>1, ReadFacts
<1> HIDE DEF m
<1>3. i = 1 /\ m > 0
  BY <1>2
<1> QED  BY <1>1, <1>2, <1>3, Zenon

\* When the answer to the command that closes a file is read, the file is written.
LEMMA AheadIsClosed ==
    ASSUME UploadType, LineInv, waiting, at \in 1 .. 27, rx # << >>, rx' = Tail(rx),
           at = 15 \/ at = 18
    PROVE  MainAhead = main /\ NameAhead = autostart["C"]
<1>1. Len(tx) \in 0 .. 1 /\ (Len(tx) > 0 => tx[1].command = Commands[at])
  BY ReadFacts
<1>2. Commands[at] = "close"
  BY ValuesLemma, Zenon
<1>3. CASE Len(tx) = 0
  BY <1>3 DEF MainAhead, NameAhead
<1>4. CASE Len(tx) = 1
  <2> DEFINE c == tx[1].command
  <2>1. Len(tx) > 0
    BY <1>4
  <2>2. c = "close"
    BY <1>1, <1>2, <2>1, Zenon
  <2> HIDE DEF c
  <2>3. MainAhead = main
    BY <1>4, <2>2 DEF MainAhead, Written, c
  <2>4. NameAhead = autostart["C"]
    BY <1>4, <2>2 DEF NameAhead, Named, c
  <2> QED  BY <2>3, <2>4
<1> QED  BY <1>1, <1>3, <1>4

LEMMA GoesLine ==
    ASSUME UploadType, LineInv, Goes
    PROVE  UploadType' /\ LineInv'
<1>1. /\ at \in 1 .. 27 /\ at # 2 /\ waiting /\ rx # << >> /\ rx' = Tail(rx)
      /\ UNCHANGED <<size, program, tx, main, autostart>> /\ waiting' = FALSE
      /\ at' = at + 1 \/ (at = 14 /\ at' = 14)
  <2>1. rx # << >>
    BY EmptyLemma DEF UploadType, Goes
  <2> QED  BY <2>1, Zenon DEF Goes
<1>0. at \in 1 .. 27 /\ at # 2 /\ (at' = at + 1 \/ (at = 14 /\ at' = 14))
  BY <1>1, Zenon
<1>2. UploadType'
  <2>1. at' \in 1 .. 30
    BY <1>0
  <2>2. rx' \in Seq({"OK", "ERROR"})
    BY <1>1, ReadFacts, Zenon
  <2>3. waiting' \in BOOLEAN
    BY <1>1, Zenon
  <2> QED  BY <1>1, <2>1, <2>2, <2>3, Zenon DEF UploadType
<1>4. at' \in 2 .. 28 /\ at' # 29 /\ at' # 30 /\ (at' <= 2 => at = 1)
  BY <1>0
<1>5. Waits'
  BY <1>1 DEF Waits
<1>6. Room'
  BY <1>1, <1>4, ReadFacts DEF Room
<1>7. Len(tx') > 0 => tx'[1].command \in Before(at')
  <2> HAVE Len(tx') > 0
  <2>1. tx'[1].command = Commands[at]
    BY <1>1, ReadFacts
  <2>2. Commands[at] \in Before(at')
    <3>1. CASE at' = 14
      <4>1. at = 13 \/ at = 14
        BY <1>1, <3>1
      <4> QED  BY <3>1, <4>1 DEF Before
    <3>2. CASE at' # 14
      <4>1. at' - 1 = at
        BY <1>1, <3>2
      <4> QED  BY <3>2, <4>1 DEF Before
    <3> QED  BY <3>1, <3>2
  <2> QED  BY <2>1, <2>2
<1>8. ~ Len(tx') > 1
  BY <1>1, ReadFacts
<1>9. Which'
  BY <1>1, <1>4, <1>7, <1>8 DEF Which
<1> QED  BY <1>2, <1>5, <1>6, <1>9 DEF LineInv

LEMMA GoesDeleted ==
    ASSUME UploadType, LineInv, DeletedInv, Goes
    PROVE  DeletedInv'
<1>1. /\ at \in 1 .. 27 /\ waiting /\ rx # << >> /\ rx' = Tail(rx)
      /\ UNCHANGED <<tx, autostart>> /\ waiting' = FALSE
      /\ at' = at + 1 \/ (at = 14 /\ at' = 14)
  <2>1. rx # << >>
    BY EmptyLemma DEF UploadType, Goes
  <2> QED  BY <2>1, Zenon DEF Goes
<1>2. InTx("delete D") => at = 8 \/ at = 9
  <2>1. at <= 28
    BY <1>1
  <2> QED  BY <2>1, HeldPlaces, Zenon DEF InTx
<1>3. InTx("delete D") => at # 9
  <2>1. InTx("delete D") => Commands[at] = "delete D"
    BY <1>1, TxIsAt
  <2>2. Commands[9] # "delete D"
    BY ValuesLemma
  <2> QED  BY <2>1, <2>2, Zenon
<1>4. InTx("delete C") => at = 10 \/ at = 11
  <2>1. at <= 28
    BY <1>1
  <2> QED  BY <2>1, HeldPlaces, Zenon DEF InTx
<1>5. InTx("delete C") => at # 11
  <2>1. InTx("delete C") => Commands[at] = "delete C"
    BY <1>1, TxIsAt
  <2>2. Commands[11] # "delete C"
    BY ValuesLemma
  <2> QED  BY <2>1, <2>2, Zenon
<1>6. /\ InTx("delete D") => InTx("delete D")' /\ at' <= 9
      /\ InTx("delete C") => InTx("delete C")' /\ at' <= 11
  <2>1. /\ at = 8 => at' <= 9
        /\ at = 10 => at' <= 11
    BY <1>1
  <2>2. InTx("delete D")' = InTx("delete D") /\ InTx("delete C")' = InTx("delete C")
    BY <1>1 DEF InTx
  <2> QED  BY <1>2, <1>3, <1>4, <1>5, <2>1, <2>2, Zenon
<1>7. at' >= 9 => (at = 8 /\ waiting) \/ at >= 9
  BY <1>1
<1>8. at' \in 11 .. 16 \/ at' = 17 => (at = 10 /\ waiting) \/ at \in 11 .. 16
  BY <1>1
<1>9. DeletedInv
  OBVIOUS
<1> QED  BY <1>1, <1>6, <1>7, <1>8, <1>9, Zenon DEF DeletedInv

\* An ERROR is not the answer that was read, and comes yet.
LEMMA GoesError ==
    ASSUME UploadType, LineInv, Goes, at \in 13 .. 18
    PROVE  /\ Error => Error'
           /\ ~ErrorNext
<1>1. rx # << >> /\ rx[1] # "ERROR" /\ rx' = Tail(rx) /\ waiting /\ at \in 1 .. 27
  <2>1. rx # << >>
    BY EmptyLemma DEF UploadType, Goes
  <2> QED  BY <2>1 DEF Goes
<1>2. \A i \in DOMAIN rx : i # 1 => i - 1 \in DOMAIN rx' /\ rx'[i - 1] = rx[i]
  BY <1>1, ReadFacts
<1> QED  BY <1>1, <1>2 DEF Error, ErrorNext

LEMMA GoesMain ==
    ASSUME UploadType, LineInv, MainInv, Goes
    PROVE  MainInv'
<1>1. /\ at \in 1 .. 27 /\ waiting /\ rx # << >> /\ rx' = Tail(rx)
      /\ UNCHANGED <<size, program, tx, open, main, autostart>> /\ waiting' = FALSE
      /\ at' = at + 1 \/ (at = 14 /\ at' = 14)
      /\ at = 14 /\ at' = 15 => size = 0
  <2>1. rx # << >>
    BY EmptyLemma DEF UploadType, Goes
  <2> QED  BY <2>1, Zenon DEF Goes
<1> DEFINE Half ==
             /\ OpenAhead = "main"
             /\ MainAhead.bytes = program - size /\ MainAhead.of = program
             /\ MainAhead.ended <=> size = 0
<1>2. at' <= 13 => size' = program'
  <2>1. at' <= 13 => at <= 13
    BY <1>1
  <2> QED  BY <1>1, <2>1 DEF MainInv
<1>3. at' >= 15 => size' = 0
  <2>1. at' >= 15 => at >= 15 \/ (at = 14 /\ at' = 15)
    BY <1>1
  <2> QED  BY <1>1, <2>1 DEF MainInv
<1>4. at' = 14 \/ at' = 15 => Error' \/ Half'
  <2> HAVE at' = 14 \/ at' = 15
  <2>1. (at = 13 \/ at = 14) /\ at \in 13 .. 18
    BY <1>1
  <2>2. Error \/ Half
    BY <1>1, <2>1 DEF MainInv
  <2>3. Error => Error'
    BY <2>1, GoesError
  <2>4. Half => Half'
    BY <1>1 DEF OpenAhead, MainAhead
  <2> QED  BY <2>2, <2>3, <2>4, Zenon
<1>5. at' >= 16 => IsProgram(main)'
  <2> HAVE at' >= 16
  <2>1. CASE at = 15
    <3>1. IsProgram(MainAhead)
      <4>1. ~ErrorNext
        BY <2>1, GoesError
      <4> QED  BY <1>1, <2>1, <4>1 DEF MainInv
    <3>2. MainAhead = main
      BY <1>1, <2>1, AheadIsClosed
    <3> QED  BY <1>1, <3>1, <3>2 DEF IsProgram, Complete
  <2>2. CASE at >= 16
    BY <1>1, <2>2 DEF MainInv, IsProgram, Complete
  <2>3. at = 15 \/ at >= 16
    BY <1>1
  <2> QED  BY <2>1, <2>2, <2>3
<1>6. ~ (at' = 13 /\ waiting') /\ ~ (at' = 15 /\ waiting')
  BY <1>1
<1> HIDE DEF Half
<1>7. (at' = 13 /\ waiting') \/ at' = 14 \/ (at' = 15 /\ ~waiting') => Error' \/ Half'
  BY <1>4, <1>6, Zenon
<1> USE DEF Half
<1> QED  BY <1>2, <1>3, <1>5, <1>6, <1>7 DEF MainInv

LEMMA GoesName ==
    ASSUME UploadType, LineInv, NameInv, Goes
    PROVE  NameInv'
<1>1. /\ at \in 1 .. 27 /\ waiting /\ rx # << >> /\ rx' = Tail(rx)
      /\ UNCHANGED <<tx, open, autostart>> /\ waiting' = FALSE
      /\ at' = at + 1 \/ (at = 14 /\ at' = 14)
  <2>1. rx # << >>
    BY EmptyLemma DEF UploadType, Goes
  <2> QED  BY <2>1, Zenon DEF Goes
<1>2. OpenAhead' = OpenAhead /\ NameAhead' = NameAhead
  BY <1>1 DEF OpenAhead, NameAhead
<1>3. at' = 17 => Error' \/ OpenAhead' = "autostart"
  <2> HAVE at' = 17
  <2>1. at = 16 /\ at \in 13 .. 18
    BY <1>1
  <2>2. Error \/ OpenAhead = "autostart"
    BY <1>1, <2>1 DEF NameInv
  <2> QED  BY <1>2, <2>1, <2>2, GoesError, Zenon
<1>4. at' = 18 => Error' \/ NameAhead' = "whole"
  <2> HAVE at' = 18
  <2>1. at = 17 /\ at \in 13 .. 18
    BY <1>1
  <2>2. Error \/ NameAhead = "whole"
    BY <1>1, <2>1 DEF NameInv
  <2> QED  BY <1>2, <2>1, <2>2, GoesError, Zenon
<1>5. at' >= 19 => autostart'["C"] = "whole"
  <2> HAVE at' >= 19
  <2>1. CASE at = 18
    <3>1. ~ErrorNext
      <4>1. at \in 13 .. 18
        BY <2>1
      <4> QED  BY <4>1, GoesError
    <3>2. NameAhead = "whole"
      BY <1>1, <2>1, <3>1 DEF NameInv
    <3>3. NameAhead = autostart["C"]
      BY <1>1, <2>1, AheadIsClosed
    <3> QED  BY <1>1, <3>2, <3>3
  <2>2. CASE at >= 19
    BY <1>1, <2>2 DEF NameInv
  <2>3. at = 18 \/ at >= 19
    BY <1>1
  <2> QED  BY <2>1, <2>2, <2>3
<1> QED  BY <1>1, <1>3, <1>4, <1>5 DEF NameInv

LEMMA GoesStep ==
    ASSUME UploadInv, Goes
    PROVE  UploadInv'
<1>1. /\ UploadType /\ LineInv /\ SafeInv
      /\ UNCHANGED <<tx, main, autostart>>
  BY DEF UploadInv, Goes
<1>2. DeletedInv /\ MainInv /\ NameInv
  <2>1. at <= 29
    BY DEF Goes
  <2> QED  BY <2>1 DEF UploadInv
<1>3. SafeInv'
  BY <1>1 DEF SafeInv, AutostartSafe, Unnamed, InTx, Complete
<1>4. UploadType' /\ LineInv' /\ DeletedInv' /\ MainInv' /\ NameInv'
  BY <1>1, <1>2, GoesLine, GoesDeleted, GoesMain, GoesName
<1> QED  BY <1>3, <1>4 DEF UploadInv

----------------------------------------------------------------------------
(* The other steps of the script, and the whole *)

\* The script ends where its command is refused, or is broken off: of the invariant it is
\* what is true of the files at any moment that is left.
LEMMA FailedStep ==
    ASSUME UploadInv, at' = 30, waiting' = FALSE, UNCHANGED <<size, program, main, autostart>>,
           \/ UNCHANGED tx /\ Len(tx) <= 1
           \/ tx' = << >>,
           rx' \in Seq({"OK", "ERROR"})
    PROVE  UploadInv'
<1>1. UploadType /\ LineInv /\ SafeInv
  BY DEF UploadInv
<1>2. tx' \in Seq(CommandType) /\ Len(tx') <= 1
  <2>1. tx \in Seq(CommandType)
    BY <1>1 DEF UploadType
  <2>2. CASE UNCHANGED tx /\ Len(tx) <= 1
    BY <2>1, <2>2
  <2>3. CASE tx' = << >>
    BY <2>3
  <2> QED  BY <2>2, <2>3
<1>3. \A k : InTx(k)' => InTx(k)
  BY DEF InTx
<1>4. SafeInv'
  BY <1>1, <1>3 DEF SafeInv, AutostartSafe, Unnamed, Complete
<1>5. UploadType'
  <2>1. at' \in 1 .. 30
    OBVIOUS
  <2> QED  BY <1>1, <1>2, <2>1 DEF UploadType
<1>6. ~waiting' /\ ~ at' <= 2 /\ ~ at' <= 28 /\ at' # 29 /\ ~ at' <= 29
  OBVIOUS
<1>7. LineInv'
  BY <1>2, <1>6 DEF LineInv, Waits, Room, Which
<1> QED  BY <1>4, <1>5, <1>6, <1>7 DEF UploadInv

LEMMA ReadingStep ==
    ASSUME UploadInv, App!ReadLine, UNCHANGED App!files
    PROVE  UploadInv'
<1>1. UploadType /\ LineInv
  BY DEF UploadInv
<1>2. CASE Goes
  BY <1>2, GoesStep
<1>3. CASE /\ at' = 30 /\ waiting' = FALSE /\ rx' = Tail(rx) /\ rx # << >>
           /\ at \in 1 .. 27 /\ waiting
           /\ UNCHANGED <<size, program, tx, open, main, autostart>>
  <2>1. Len(tx) \in 0 .. 1
    BY <1>1, <1>3, ReadFacts, Zenon
  <2>2. rx' \in Seq({"OK", "ERROR"})
    BY <1>1, <1>3, ReadFacts, Zenon
  <2>3. Len(tx) <= 1
    <3> DEFINE m == Len(tx)
    <3>1. m \in 0 .. 1
      BY <2>1
    <3> HIDE DEF m
    <3>2. m <= 1
      BY <3>1
    <3> QED  BY <3>2 DEF m
  <2> QED  BY <1>3, <2>2, <2>3, FailedStep, Zenon
<1> QED  BY <1>1, <1>2, <1>3, AnswerLemma

LEMMA ExitAllStep ==
    ASSUME UploadInv, App!ExitAll, UNCHANGED App!files
    PROVE  UploadInv'
<1>1. UploadType /\ LineInv /\ SafeInv
  BY DEF UploadInv
<1>2. /\ at = 2 /\ at' = 3 /\ ~waiting /\ rx' = << >>
      /\ UNCHANGED <<waiting, size, program, main, autostart>>
      /\ App!Command = Commands[2]
  <2>1. at <= 28 /\ App!Command = "EXIT_ALL" /\ at' = at + 1
    BY ValuesLemma, SameState DEF App!ExitAll
  <2>2. ~waiting /\ rx' = << >> /\ UNCHANGED <<waiting, size, program, main, autostart>>
    BY DEF App!ExitAll, App!files
  <2>3. at = 2
    <3> DEFINE n == at
    <3>1. n \in 1 .. 28 /\ Commands[n] = "EXIT_ALL"
      BY <1>1, <2>1, SameState DEF UploadType, App!Command
    <3> HIDE DEF n
    <3>2. n = 2
      BY <3>1, PlacesLemma, Zenon
    <3> QED  BY <3>2 DEF n
  <2>4. App!Command = Commands[2]
    BY <2>3, SameState DEF App!Command
  <2> QED  BY <2>1, <2>2, <2>3, <2>4
<1>3. tx = << >>
  <2>1. Len(tx) + Len(rx) = 0 /\ Len(tx) \in Nat /\ Len(rx) \in Nat
    BY <1>1, <1>2, EmptyLemma DEF UploadType, LineInv, Room
  <2>2. Len(tx) = 0
    <3> DEFINE m == Len(tx)
               n == Len(rx)
    <3>1. m + n = 0 /\ m \in Nat /\ n \in Nat
      BY <2>1
    <3> HIDE DEF m, n
    <3>2. m = 0
      BY <3>1
    <3> QED  BY <3>2 DEF m
  <2> QED  BY <1>1, <2>2, EmptyLemma DEF UploadType
<1>4. \/ tx' = << >>
      \/ \E c \in CommandType : c.command = Commands[2] /\ tx' = <<c>>
  <2>1. UNCHANGED tx \/ App!Sends(0, FALSE)
    BY DEF App!ExitAll
  <2>2. ASSUME App!Sends(0, FALSE)
        PROVE  \E c \in CommandType : c.command = Commands[2] /\ tx' = <<c>>
    <3> DEFINE c == [command |-> App!Command, len |-> 0, eof |-> FALSE, of |-> program]
    <3>1. tx' = Append(tx, c)
      BY <2>2 DEF App!Sends
    <3>2. tx' = <<c>>
      BY <1>3, <3>1
    <3>3. Commands[2] \in Names
      BY DEF Names
    <3>4. c \in CommandType
      BY <1>1, <1>2, <3>3 DEF CommandType, UploadType
    <3> QED  BY <1>2, <3>2, <3>4
  <2> QED  BY <1>3, <2>1, <2>2
<1>5. /\ tx' \in Seq(CommandType) /\ Len(tx') \in 0 .. 1
      /\ \A i \in DOMAIN tx' : tx'[i].command = Commands[2]
  <2>1. CASE tx' = << >>
    BY <2>1
  <2>2. CASE \E c \in CommandType : c.command = Commands[2] /\ tx' = <<c>>
    BY <2>2
  <2> QED  BY <1>4, <2>1, <2>2
<1>6. UploadType'
  <2>1. at' \in 1 .. 30
    BY <1>2
  <2> QED  BY <1>1, <1>2, <1>5, <2>1 DEF UploadType
<1>7. LineInv'
  <2>1. Waits'
    BY <1>2 DEF Waits
  <2>2. Room'
    BY <1>2, <1>5 DEF Room
  <2>3. Before(3) = {Commands[2]}
    BY DEF Before
  <2>4. Len(tx') > 0 => tx'[1].command = Commands[2]
    BY <1>5
  <2>5. Which'
    BY <1>2, <1>5, <2>3, <2>4 DEF Which
  <2> QED  BY <2>1, <2>2, <2>5 DEF LineInv
<1>8. SafeInv'
  <2>1. \A i \in DOMAIN tx' : tx'[i].command = "EXIT_ALL"
    BY <1>5, ValuesLemma, Zenon
  <2>2. \A k : k # "EXIT_ALL" => ~InTx(k)'
    BY <2>1, Zenon DEF InTx
  <2> QED  BY <1>1, <1>2, <2>2 DEF SafeInv, AutostartSafe, Complete
<1>9. DeletedInv' /\ MainInv' /\ NameInv'
  <2>1. size' = program'
    BY <1>1, <1>2 DEF UploadInv, MainInv
  <2> QED  BY <1>2, <2>1 DEF DeletedInv, MainInv, NameInv
<1> QED  BY <1>6, <1>7, <1>8, <1>9 DEF UploadInv

LEMMA RebootStep ==
    ASSUME UploadInv, App!Reboot, UNCHANGED App!files
    PROVE  UploadInv'
<1>1. UploadType /\ LineInv /\ SafeInv
  BY DEF UploadInv
<1>2. /\ at = 28 /\ at' = 29 /\ ~waiting
      /\ UNCHANGED <<waiting, size, program, rx, main, autostart>>
      /\ App!Command = Commands[28]
  <2>1. at <= 28 /\ App!Command = "REBOOT" /\ at' = at + 1
    BY ValuesLemma, SameState DEF App!Reboot
  <2>2. ~waiting /\ UNCHANGED <<waiting, size, program, rx, main, autostart>>
    BY DEF App!Reboot, App!files
  <2>3. at = 28
    <3> DEFINE n == at
    <3>1. n \in 1 .. 28 /\ Commands[n] = "REBOOT"
      BY <1>1, <2>1, SameState DEF UploadType, App!Command
    <3> HIDE DEF n
    <3>2. n = 28
      BY <3>1, PlacesLemma, Zenon
    <3> QED  BY <3>2 DEF n
  <2>4. App!Command = Commands[28]
    BY <2>3, SameState DEF App!Command
  <2> QED  BY <2>1, <2>2, <2>3, <2>4
<1> DEFINE c == [command |-> App!Command, len |-> 0, eof |-> FALSE, of |-> program]
           m == Len(tx)
<1>3. tx' = Append(tx, c)
  BY DEF App!Reboot, App!Sends
<1>4. c \in CommandType /\ c.command = Commands[28]
  <2>1. Commands[28] \in Names
    BY DEF Names
  <2> QED  BY <1>1, <1>2, <2>1 DEF CommandType, UploadType
<1> HIDE DEF c
<1>5. /\ m \in Nat /\ m <= 1 /\ Len(tx') = m + 1 /\ tx' \in Seq(CommandType)
      /\ DOMAIN tx' = 1 .. m + 1 /\ DOMAIN tx = 1 .. m
      /\ tx'[m + 1] = c /\ \A i \in DOMAIN tx : tx'[i] = tx[i]
  <2>1. tx \in Seq(CommandType)
    BY <1>1 DEF UploadType
  <2>2. Len(tx) \in Nat /\ Len(rx) \in Nat /\ Len(tx) + Len(rx) <= 1
    BY <1>1, <1>2, EmptyLemma DEF UploadType, LineInv, Room
  <2>3. m <= 1
    BY <2>2
  <2> QED  BY <1>3, <1>4, <2>1, <2>3, AddedLemma
<1>6. c.command = "REBOOT"
  BY <1>4, ValuesLemma, Zenon
<1>7. m > 0 => tx[1].command = "mode"
  <2>1. m > 0 => tx[1].command \in Before(28)
    BY <1>1, <1>2 DEF LineInv, Which
  <2>2. Before(28) = {"mode"}
    <3>1. Before(28) = {Commands[27]}
      BY DEF Before
    <3> QED  BY <3>1, ValuesLemma, Zenon
  <2> QED  BY <2>1, <2>2, Zenon
<1>8. \A i \in DOMAIN tx' : tx'[i].command \in {"mode", "REBOOT"}
  <2> TAKE i \in DOMAIN tx'
  <2> HIDE DEF m
  <2>1. i = m + 1 \/ (i = 1 /\ m > 0 /\ i \in DOMAIN tx)
    BY <1>5
  <2>2. CASE i = m + 1
    BY <1>5, <1>6, <2>2
  <2>3. CASE i = 1 /\ m > 0 /\ i \in DOMAIN tx
    BY <1>5, <1>7, <2>3
  <2> QED  BY <2>1, <2>2, <2>3
<1>9. UploadType'
  <2>1. at' \in 1 .. 30
    BY <1>2
  <2> QED  BY <1>1, <1>2, <1>5, <2>1 DEF UploadType
<1>10. LineInv'
  <2>1. ~waiting' /\ at' = 29 /\ ~ at' <= 28 /\ ~ at' <= 2 /\ at' # 30
    BY <1>2
  <2>2. Len(tx') <= 2
    BY <1>5
  <2> QED  BY <1>8, <2>1, <2>2 DEF LineInv, Waits, Room, Which
<1>11. SafeInv'
  <2>1. \A k : k # "mode" /\ k # "REBOOT" => ~InTx(k)'
    BY <1>8, Zenon DEF InTx
  <2> QED  BY <1>1, <1>2, <2>1 DEF SafeInv, AutostartSafe, Complete
<1>12. DeletedInv' /\ MainInv' /\ NameInv'
  <2>1. DeletedInv /\ MainInv /\ NameInv
    BY <1>2 DEF UploadInv
  <2>2. autostart["D"] # "whole" /\ size = 0 /\ IsProgram(main) /\ autostart["C"] = "whole"
    BY <1>2, <2>1 DEF DeletedInv, MainInv, NameInv
  <2> QED  BY <1>2, <2>2 DEF DeletedInv, MainInv, NameInv, IsProgram, Complete
<1> QED  BY <1>9, <1>10, <1>11, <1>12 DEF UploadInv

LEMMA EmptyFileStep ==
    ASSUME UploadInv, App!EmptyFile, UNCHANGED App!files
    PROVE  UploadInv'
<1>1. UploadType /\ LineInv
  BY DEF UploadInv
<1>2. /\ at' = 30 /\ at <= 28 /\ ~waiting /\ UNCHANGED waiting
      /\ UNCHANGED <<size, program, main, autostart, tx, rx>>
  BY ValuesLemma, SameState DEF App!EmptyFile, App!files, App!line
<1>3. Len(tx) + Len(rx) <= 1 /\ Len(tx) \in Nat /\ Len(rx) \in Nat /\ rx \in Seq({"OK", "ERROR"})
  BY <1>1, <1>2, EmptyLemma DEF UploadType, LineInv, Room
<1>4. Len(tx) <= 1
  BY <1>3
<1>5. waiting' = FALSE
  BY <1>1, <1>2, Zenon DEF UploadType
<1> QED  BY <1>2, <1>3, <1>4, <1>5, FailedStep

LEMMA BreakOffStep ==
    ASSUME UploadInv, App!BreakOff
    PROVE  UploadInv'
<1>1. /\ at' = 30 /\ waiting' = FALSE /\ tx' = << >> /\ rx' = << >>
      /\ UNCHANGED <<size, program, main, autostart>>
  BY ValuesLemma DEF App!BreakOff
<1>2. rx' \in Seq({"OK", "ERROR"})
  BY <1>1
<1> QED  BY <1>1, <1>2, FailedStep

\* Nothing is under way when the script starts.
LEMMA StartLemma ==
    ASSUME at = 1, waiting = FALSE, program \in Nat, size = program, tx = << >>, rx = << >>,
           main \in FileType, autostart \in [{"C", "D"} -> {"none", "empty", "whole"}],
           AutostartSafe
    PROVE  UploadInv
<1>1. Len(tx) = 0 /\ Len(rx) = 0 /\ DOMAIN tx = {}
  OBVIOUS
<1>2. UploadType
  <2>1. at \in 1 .. 30 /\ size \in 0 .. program
    OBVIOUS
  <2>2. waiting \in BOOLEAN
    BY Zenon
  <2>3. tx \in Seq(CommandType) /\ rx \in Seq({"OK", "ERROR"})
    OBVIOUS
  <2> QED  BY <2>1, <2>2, <2>3, Zenon DEF UploadType
<1>3. LineInv
  BY <1>1 DEF LineInv, Waits, Room, Which
<1>4. SafeInv
  BY <1>1 DEF SafeInv, InTx
<1>5. DeletedInv /\ MainInv /\ NameInv
  BY DEF DeletedInv, MainInv, NameInv
<1> QED  BY <1>2, <1>3, <1>4, <1>5 DEF UploadInv

LEMMA StartsAgain ==
    ASSUME UploadInv, App!SizesAssumption, App!Restart
    PROVE  UploadInv'
<1>1. /\ at' = 1 /\ waiting' = FALSE /\ program' \in Nat /\ size' = program'
      /\ tx' = << >> /\ rx' = << >> /\ UNCHANGED <<main, autostart>>
  BY DEF App!Restart, App!SizesAssumption
<1>2. /\ main \in FileType /\ autostart \in [{"C", "D"} -> {"none", "empty", "whole"}]
      /\ AutostartSafe
  BY DEF UploadInv, UploadType, SafeInv
<1>3. AutostartSafe'
  BY <1>1, <1>2 DEF AutostartSafe, Complete
<1>4. main' \in FileType /\ autostart' \in [{"C", "D"} -> {"none", "empty", "whole"}]
  BY <1>1, <1>2
<1>5. Len(tx') = 0 /\ Len(rx') = 0 /\ DOMAIN tx' = {}
  BY <1>1
<1>6. UploadType'
  <2>1. at' \in 1 .. 30 /\ size' \in 0 .. program'
    BY <1>1
  <2>2. waiting' \in BOOLEAN
    BY <1>1, Zenon
  <2>3. tx' \in Seq(CommandType) /\ rx' \in Seq({"OK", "ERROR"})
    BY <1>1
  <2> QED  BY <1>1, <1>4, <2>1, <2>2, <2>3, Zenon DEF UploadType
<1>7. LineInv'
  BY <1>1, <1>5 DEF LineInv, Waits, Room, Which
<1>8. SafeInv'
  BY <1>3, <1>5 DEF SafeInv, InTx
<1>9. DeletedInv' /\ MainInv' /\ NameInv'
  BY <1>1 DEF DeletedInv, MainInv, NameInv
<1> QED  BY <1>6, <1>7, <1>8, <1>9 DEF UploadInv

LEMMA UploadInit ==
    ASSUME App!Init, App!SizesAssumption
    PROVE  UploadInv
<1>1. /\ at = 1 /\ waiting = FALSE /\ program \in Nat /\ size = program
      /\ tx = << >> /\ rx = << >>
  BY DEF App!Init, App!SizesAssumption
<1>2. main \in {App!NoFile, [bytes |-> 1, ended |-> TRUE, of |-> 1]}
  BY DEF App!Init
<1>3. main \in FileType
  <2>1. App!NoFile \in FileType /\ [bytes |-> 1, ended |-> TRUE, of |-> 1] \in FileType
    BY DEF App!NoFile, FileType
  <2> QED  BY <1>2, <2>1
<1>4. autostart \in [{"C", "D"} -> {"none", "whole"}]
  BY SameState DEF App!Init
<1>5. AutostartSafe
  BY SameState DEF App!Init, AutostartSafe
<1>6. autostart \in [{"C", "D"} -> {"none", "empty", "whole"}]
  BY <1>4
<1> QED  BY <1>1, <1>3, <1>5, <1>6, StartLemma

LEMMA Same ==
    ASSUME UploadInv, UNCHANGED <<at, waiting, size, program, tx, rx, open, main, autostart>>
    PROVE  UploadInv'
<1>1. UploadType'
  BY DEF UploadInv, UploadType
<1>2. LineInv'
  BY DEF UploadInv, LineInv, Waits, Room, Which
<1>3. SafeInv'
  BY DEF UploadInv, SafeInv, AutostartSafe, Unnamed, InTx, Complete
<1>4. DeletedInv => DeletedInv'
  BY DEF DeletedInv, InTx
<1>5. MainInv => MainInv'
  BY DEF MainInv, Error, ErrorNext, OpenAhead, MainAhead, IsProgram, Complete
<1>6. NameInv => NameInv'
  BY DEF NameInv, Error, ErrorNext, OpenAhead, NameAhead
<1> QED  BY <1>1, <1>2, <1>3, <1>4, <1>5, <1>6 DEF UploadInv

LEMMA UploadNext ==
    ASSUME UploadInv, [App!Next]_(App!vars), App!SizesAssumption, Faults \cap {"delete C", "delete D"} = {}
    PROVE  UploadInv'
<1>1. CASE App!Script
  <2>1. UNCHANGED App!files
    BY <1>1 DEF App!Script
  <2> QED  BY <1>1, <2>1, SentStep, EmptyFileStep, ExitAllStep, RebootStep, ReadingStep DEF App!Script
<1>2. CASE App!Phone
  BY <1>2, PhoneStep
<1>3. CASE App!Hangs \/ UNCHANGED App!vars
  <2>1. UNCHANGED <<at, waiting, size, program, tx, rx, open, main, autostart>>
    BY <1>3 DEF App!Hangs, App!vars, App!script, App!line, App!files
  <2> QED  BY <2>1, Same
<1>4. CASE App!BreakOff
  BY <1>4, BreakOffStep
<1>5. CASE App!Restart
  BY <1>5, StartsAgain
<1> QED  BY <1>1, <1>2, <1>3, <1>4, <1>5 DEF App!Next

\* The commands under way are known, and what they will do to the files with them, in every
\* state of uploader.py and the phone.
THEOREM UploadAlways ==
    ASSUME App!SizesAssumption, Faults \cap {"delete C", "delete D"} = {}
    PROVE  App!Spec => []UploadInv
<1>1. App!Init => UploadInv
  BY UploadInit
<1>2. UploadInv /\ [App!Next]_(App!vars) => UploadInv'
  BY UploadNext
<1> QED  BY <1>1, <1>2, PTL DEF App!Spec

\* Break off uploader.py or refuse its commands when you will, and start it again as often:
\* an autostart.txt on the phone names a program that is whole, if the phone does not refuse
\* to delete an autostart.txt that is there.  Its ERROR would be passed over.
THEOREM NamesAWholeProgram ==
    ASSUME App!SizesAssumption, Faults \cap {"delete C", "delete D"} = {}
    PROVE  App!Spec => []AutostartSafe
<1>1. UploadInv => AutostartSafe
  BY DEF UploadInv, SafeInv
<1> QED  BY <1>1, UploadAlways, PTL

LEMMA EndedLemma ==
    ASSUME UploadInv
    PROVE  UploadedWhenDone
<1>1. ASSUME at = 29 PROVE IsProgram(main) /\ autostart["C"] = "whole"
  <2>1. at <= 29 /\ at >= 16 /\ at >= 19
    BY <1>1
  <2>2. MainInv /\ NameInv
    BY <2>1, Zenon DEF UploadInv
  <2> QED  BY <2>1, <2>2, Zenon DEF MainInv, NameInv
<1>2. at = Ended => at = 29
  BY ValuesLemma, Zenon
<1> QED  BY <1>1, <1>2, Zenon DEF UploadedWhenDone, IsProgram

\* When uploader.py ends well, this run's program and its autostart.txt are on the phone,
\* though the answer it read last may be that of an earlier command.
THEOREM DoneIsUploaded ==
    ASSUME App!SizesAssumption, Faults \cap {"delete C", "delete D"} = {}
    PROVE  App!Spec => []UploadedWhenDone
<1>1. UploadInv => UploadedWhenDone
  BY EndedLemma
<1> QED  BY <1>1, UploadAlways, PTL
=============================================================================
