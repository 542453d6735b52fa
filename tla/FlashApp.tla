------------------------------ MODULE FlashApp ------------------------------
(***************************************************************************)
(* The main program (src/main.c): acknowledge the boot, read the device    *)
(* label (src/fdl.c), set up the network, fetch the info file and the      *)
(* image, flash it, report to the server and blink the verdict.            *)
(*                                                                         *)
(* The parts are used by what they promise: httpDownload returns an error  *)
(* or a complete file, or never returns (HttpDownload); processWfp returns *)
(* 0 only if the image is on the devices (Wfp); a message arrives, is lost *)
(* or, when sendMessage gives it up, stays with the stack and may arrive   *)
(* later, and nobody looks at the result of sendMessage (SendMessage).     *)
(*                                                                         *)
(* RetryInfo, FlashUntilDone and EndAlwaysOk are faulty variants of the    *)
(* definitions that follow them; no action uses them.                      *)
(***************************************************************************)
EXTENDS Integers, Sequences

CONSTANTS
    Files,     \* what the server can deliver as an image
    Hash,      \* the SHA-384 of each file
    Labels,    \* what the flash can hold at the place of the label
    FdlSize    \* sizeof(FDL_DATA_T)

Overhead == 16 + 16   \* sizeof(FDL_HEADER_T) + sizeof(FDL_FOOTER_T)

Hashes == {Hash[f] : f \in Files}
NoFile == "none"

ASSUME NoFileAssumption == Files \cap {NoFile, "old", "partial"} = {}

VARIABLES
    pc,      \* the next call of flashapp_main
    iResult, \* iResult = 0
    net,     \* ptNetworkIf is set and lwIP is initialised
    want,    \* tDeviceInfo.tHash
    image,   \* tDeviceInfo.pucWfpImage points to the DDR
    ram,     \* what the DDR holds
    flash,   \* what the devices hold: "old", "partial" or a file
    code,    \* the blink code
    bit,     \* position in the blink sequence
    log,     \* the messages the server has received
    queued   \* the messages sendMessage gave up and the stack still sends

vars == <<pc, iResult, net, want, image, ram, flash, code, bit, log, queued>>

Init ==
    /\ pc = "rom_ack" /\ iResult = FALSE /\ net = FALSE
    /\ want = "zero" /\ image = FALSE /\ ram = NoFile /\ flash = "old"
    /\ code = "off" /\ bit = 0 /\ log = <<>> /\ queued = {}

\* generateStartMessage, generateEndMessage and generateResultMessage ignore
\* what sendMessage returns: the message is there, the time is over while it is
\* still with the stack, or it is lost.
Tell(id, ok) ==
    \/ net /\ log' = Append(log, [id |-> id, ok |-> ok, late |-> FALSE]) /\ UNCHANGED queued
    \/ net /\ queued' = queued \cup {[id |-> id, ok |-> ok]} /\ UNCHANGED log
    \/ UNCHANGED <<log, queued>>

\* What is left of a message when others have used its stack frame, or when
\* sendMessage gave up in the middle of it.
Noise == [id |-> "noise", ok |-> FALSE, late |-> TRUE]

\* tcp_close sends what is queued: a message that was given up arrives behind
\* later ones, as it was or, as tcp_write has not copied it, as something else.
Late(m) ==
    /\ m \in queued /\ queued' = queued \ {m}
    /\ \/ log' = Append(log, [id |-> m.id, ok |-> m.ok, late |-> TRUE])
       \/ log' = Append(log, Noise)
    /\ UNCHANGED <<pc, iResult, net, want, image, ram, flash, code, bit>>

\* The peer resets the connection, or the stack gives it up.
Discard(m) ==
    /\ m \in queued /\ queued' = queued \ {m}
    /\ UNCHANGED <<pc, iResult, net, want, image, ram, flash, code, bit, log>>

\* The blink loop: with the network behind setupNetwork, without it before.
Give(c) == pc' = "blink" /\ code' = c

\* ackLastRomcodePacket
RomAck ==
    /\ pc = "rom_ack"
    /\ iResult' \in BOOLEAN
    /\ IF iResult' THEN pc' = "fdl" /\ UNCHANGED code ELSE Give("ROM_ACK_FAILED")
    /\ UNCHANGED <<net, want, image, ram, flash, bit, log, queued>>

\* readFDL: the tests in their order are one conjunction.
ValidFdl(l) ==
    /\ l.detect /\ l.read /\ l.start /\ l.end
    /\ l.label = l.content + Overhead
    /\ l.label <= FdlSize + Overhead
    /\ l.crc

ReadFDL ==
    /\ pc = "fdl"
    /\ \E l \in Labels : iResult' = ValidFdl(l)
    /\ IF iResult' THEN pc' = "setup" /\ UNCHANGED code ELSE Give("FDL_READ_FAILED")
    /\ UNCHANGED <<net, want, image, ram, flash, bit, log, queued>>

\* setupHardware and setupNetwork; without the address of the server there is
\* no network, and the program goes on.
Setup ==
    /\ pc = "setup" /\ pc' = "download_start"
    /\ net' \in BOOLEAN
    /\ UNCHANGED <<iResult, want, image, ram, flash, code, bit, log, queued>>

DownloadStart ==
    /\ pc = "download_start" /\ pc' = "info"
    /\ Tell("DOWNLOAD_START", TRUE)
    /\ UNCHANGED <<iResult, net, want, image, ram, flash, code, bit>>

\* httpDownload does not return (see HttpDownload).
Hang(at) ==
    /\ pc = at /\ pc' = "hang"
    /\ UNCHANGED <<iResult, net, want, image, ram, flash, code, bit, log, queued>>

RetryInfo == pc' = "info" /\ UNCHANGED code

\* What the failure of getDeviceInfo leads to.
InfoFailed == pc' = "download_end" /\ code' = "DOWNLOAD_DEVICEINFO_FAILED"

\* getDeviceInfo: the download fails, the file does not parse (which may leave
\* a part of a hash behind), or it names a hash.
GetDeviceInfo ==
    \/ /\ pc = "info"
       /\ \/ net /\ iResult' = TRUE /\ want' \in Hashes /\ pc' = "data" /\ UNCHANGED code
          \/ iResult' = FALSE /\ want' \in Hashes \cup {"zero"} /\ InfoFailed
       /\ UNCHANGED <<net, image, ram, flash, bit, log, queued>>
    \/ Hang("info")

\* The comparison in getDataFile.
HashMatches(f) == Hash[f] = want

\* getDataFile: what arrives stays in the DDR, the image pointer is only set
\* for a file with the right hash.
GetDataFile ==
    \/ /\ pc = "data" /\ pc' = "download_end"
       /\ \/ /\ iResult' = FALSE /\ code' = "DOWNLOAD_SWFP_FAILED"
             /\ ram' \in {ram} \cup Files /\ UNCHANGED image
          \/ /\ net /\ iResult' = TRUE /\ UNCHANGED code
             /\ ram' \in {f \in Files : HashMatches(f)} /\ image' = TRUE
       /\ UNCHANGED <<net, want, flash, bit, log, queued>>
    \/ Hang("data")

DownloadEnd ==
    /\ pc = "download_end" /\ pc' = IF iResult THEN "flash_start" ELSE "result"
    /\ Tell("DOWNLOAD_END", iResult)
    /\ UNCHANGED <<iResult, net, want, image, ram, flash, code, bit>>

FlashStart ==
    /\ pc = "flash_start" /\ pc' = "flash"
    /\ Tell("FLASH_START", TRUE)
    /\ UNCHANGED <<iResult, net, want, image, ram, flash, code, bit>>

\* The blink code behind processWfp.
FlashCode(ok) == IF ok THEN "FLASHING_OK" ELSE "FLASHING_FAILED"

FlashUntilDone ==
    /\ pc = "flash"
    /\ \/ pc' = "flash_end" /\ flash' = ram
       \/ pc' = "flash" /\ flash' = "partial"
    /\ iResult' = TRUE /\ code' = FlashCode(TRUE)
    /\ UNCHANGED <<net, want, image, ram, bit, log, queued>>

\* processWfp
ProcessWfp ==
    /\ pc = "flash" /\ pc' = "flash_end"
    /\ \/ iResult' = TRUE /\ flash' = ram
       \/ iResult' = FALSE /\ flash' \in {flash, "partial"}
    /\ code' = FlashCode(iResult')
    /\ UNCHANGED <<net, want, image, ram, bit, log, queued>>

EndAlwaysOk == Tell("FLASH_END", TRUE)

\* generateEndMessage behind processWfp.
TellFlashEnd == Tell("FLASH_END", iResult)

FlashEnd ==
    /\ pc = "flash_end" /\ pc' = "result"
    /\ TellFlashEnd
    /\ UNCHANGED <<iResult, net, want, image, ram, flash, code, bit>>

Result ==
    /\ pc = "result" /\ Give(code)
    /\ Tell("RESULT", iResult)
    /\ UNCHANGED <<iResult, net, want, image, ram, flash, bit>>

\* BLINKI_M_... and BLINKI_S_..., as the sets of their bits.
Mask ==
    [ROM_ACK_FAILED |-> {0, 1},
     FDL_READ_FAILED |-> {0, 1, 4, 5, 8, 9},
     DOWNLOAD_DEVICEINFO_FAILED |-> {0, 1, 4, 5, 8, 9, 12, 13},
     DOWNLOAD_SWFP_FAILED |-> {0, 1, 4, 5, 8, 9, 12, 13, 16, 17},
     FLASHING_OK |-> {0},
     FLASHING_FAILED |-> {0, 1}]

State ==
    [ROM_ACK_FAILED |-> {12},
     FDL_READ_FAILED |-> {20},
     DOWNLOAD_DEVICEINFO_FAILED |-> {24},
     DOWNLOAD_SWFP_FAILED |-> {28},
     FLASHING_OK |-> {0, 2},
     FLASHING_FAILED |-> {4}]

Codes == DOMAIN Mask

\* One entry of a blink sequence.
Lamp(c, b) ==
    IF b \in Mask[c] THEN IF b \in State[c] THEN "G" ELSE "Y"
    ELSE IF b \in State[c] THEN "*" ELSE "_"

\* rdy_run_blinki: the next entry, from the start behind the last one.
Blink ==
    /\ pc = "blink"
    /\ bit' = IF Lamp(code, bit + 1) = "*" THEN 0 ELSE bit + 1
    /\ UNCHANGED <<pc, iResult, net, want, image, ram, flash, code, log, queued>>

Step ==
    \/ RomAck \/ ReadFDL \/ Setup
    \/ DownloadStart \/ GetDeviceInfo \/ GetDataFile \/ DownloadEnd
    \/ FlashStart \/ ProcessWfp \/ FlashEnd \/ Result

Program == Step \/ Blink
Next == Program \/ \E m \in queued : Late(m) \/ Discard(m)

\* The program is one endless sequence of calls.  What was given up may arrive.
Spec == Init /\ [][Next]_vars /\ WF_vars(Program)

-----------------------------------------------------------------------------
\* What the operator sees.
Verdict ==
    IF pc # "blink" THEN "off" ELSE IF Lamp(code, 0) = "G" THEN "green" ELSE "yellow"

Operator == INSTANCE Station WITH wanted <- want, device <- flash, lamp <- Verdict

Pcs == {"rom_ack", "fdl", "setup", "download_start", "info", "data",
        "download_end", "flash_start", "flash", "flash_end", "result",
        "blink", "hang"}

\* The messages in the order of the calls in flashapp_main.
Order(id) == CASE id = "DOWNLOAD_START" -> 1 [] id = "DOWNLOAD_END" -> 2
               [] id = "FLASH_START" -> 3 [] id = "FLASH_END" -> 4
               [] id = "RESULT" -> 5
Ids == {"DOWNLOAD_START", "DOWNLOAD_END", "FLASH_START", "FLASH_END", "RESULT"}

\* The variables of flashapp_main and the world around it have their types.
TypeOK ==
    /\ pc \in Pcs /\ iResult \in BOOLEAN /\ net \in BOOLEAN /\ image \in BOOLEAN
    /\ want \in Hashes \cup {"zero"}
    /\ ram \in Files \cup {NoFile} /\ flash \in Files \cup {"old", "partial"}
    /\ code \in Codes \cup {"off"} /\ bit \in 0..31
    /\ log \in Seq([id : Ids \cup {"noise"}, ok : BOOLEAN, late : BOOLEAN])
    /\ queued \subseteq [id : Ids, ok : BOOLEAN]

\* The devices are only touched with an image in the DDR whose hash is the one
\* of the info file (getDataFile guards processWfp in flashapp_main).
VerifiedOnly ==
    flash # "old" => /\ image /\ ram \in Files /\ Hash[ram] = want
                     /\ flash \in {"partial", ram}

\* What message m says is so: a verdict "true" means a complete image on the
\* devices, "false" that there is none, and flashing needs a download.
Says(m) ==
    /\ m.id \in {"FLASH_END", "RESULT"} => (m.ok <=> flash \in Files)
    /\ m.id = "DOWNLOAD_END" => (m.ok <=> image)
    /\ m.id \in {"FLASH_START", "FLASH_END"} => image

\* Whatever messages get lost or come late, those that arrive as they were
\* written are true when they arrive and ever after, come once, and so never
\* contradict each other (generateEndMessage and generateResultMessage).  One
\* for which sendMessage waits comes behind the earlier ones; one it gave up
\* may come behind later ones.  Nothing is said of a message that was
\* overwritten in the stack (see MessageLives in SendMessage).
ReportsTrue ==
    \A i \in 1..Len(log) : log[i].id \in Ids =>
        /\ Says(log[i])
        /\ \A j \in 1..(i - 1) : log[j].id \in Ids =>
              IF log[i].late THEN log[j].id # log[i].id
                             ELSE Order(log[j].id) < Order(log[i].id)

\* The operator at the station sees green only, and always, for a device that
\* holds the complete image of the info file (the blink codes of flashapp_main).
GreenIsFlashed ==
    pc = "blink" => (Lamp(code, 0) = "G" <=> flash \in Files)

\* The program is a Station: one attempt to write the board, with the image of
\* the info file, and one verdict that never changes (flashapp_main has no way
\* back, and rdy_run_blinki repeats one sequence).
IsStation == Operator!Spec

\* One way or another the program comes to rest: it blinks a verdict for ever
\* or hangs in a download; no failure makes it start over (flashapp_main has no
\* way back).
Settles == <>[](pc \in {"blink", "hang"})
=============================================================================
