----------------------------- MODULE AppProofs ------------------------------
(***************************************************************************)
(* The application.                                                        *)
(*                                                                         *)
(* FlashApp: only verified images are flashed, the server and the operator *)
(* are told the truth, and the station implements Station.                 *)
(*                                                                         *)
(* InfoFile, for every file, every size of acDataUri and every length of a *)
(* hash: parseInfoFile stays inside its buffers, and it accepts exactly the *)
(* files of the reference definition, with their name and their hash.      *)
(*                                                                         *)
(* Sha384, for every size of a message: both functions of sha384.c feed    *)
(* exactly the padding of the standard.                                    *)
(***************************************************************************)
EXTENDS FlashApp, InfoFile, Sha384, TLAPS

-----------------------------------------------------------------------------
(* FlashApp *)

\* The image in the DDR is the one of the info file.
Verified == image /\ ram \in Files /\ Hash[ram] = want

Early == {"rom_ack", "fdl", "setup", "download_start", "info", "data"}

\* Where the program is says what the devices hold and what the code will be.
Progress ==
    /\ pc \in Early => flash = "old" /\ ~image
    /\ pc \in {"flash_start", "flash"} => Verified /\ iResult /\ flash = "old"
    /\ pc = "download_end" =>
          /\ flash = "old"
          /\ iResult => Verified
          /\ image => iResult
          /\ ~iResult => code \in {"DOWNLOAD_DEVICEINFO_FAILED", "DOWNLOAD_SWFP_FAILED"}
    /\ pc = "hang" => flash = "old"
    /\ pc = "flash_end" => image
    /\ pc \in {"flash_end", "result"} => (iResult <=> flash \in Files)
    /\ pc \in {"flash_end", "result", "blink"} =>
          /\ code \in Codes
          /\ code = "FLASHING_OK" <=> flash \in Files

\* The types without the log and the position in the blink sequence.
Types ==
    /\ pc \in Pcs /\ iResult \in BOOLEAN /\ image \in BOOLEAN
    /\ flash \in Files \cup {"old", "partial"}

IInv == Types /\ Progress /\ VerifiedOnly

\* FLASHING_OK is the only code that starts green.
LEMMA GreenCode == \A c \in Codes : Lamp(c, 0) = "G" <=> c = "FLASHING_OK"
BY DEF Codes, Lamp, Mask, State

LEMMA InitInv == Init => IInv
BY Zenon, NoFileAssumption DEF Init, IInv, Types, Progress, VerifiedOnly, Pcs, Early, NoFile

LEMMA StepInv == IInv /\ [Next]_vars => IInv'
<1> SUFFICES ASSUME IInv, [Next]_vars PROVE IInv'
  OBVIOUS
<1> USE NoFileAssumption DEF IInv, Types, Progress, VerifiedOnly, Verified, Pcs, Early, NoFile
<1>1. CASE RomAck
  BY <1>1 DEF RomAck, Give, Codes, Mask
<1>2. CASE ReadFDL
  <2>1. iResult' \in BOOLEAN
    BY <1>2 DEF ReadFDL, ValidFdl
  <2>2. QED
    BY <1>2, <2>1 DEF ReadFDL, Give, Codes, Mask
<1>3. CASE Setup
  BY <1>3 DEF Setup
<1>4. CASE DownloadStart
  BY <1>4 DEF DownloadStart, Tell
<1>5. CASE GetDeviceInfo
  <2>1. CASE Hang("info")
    BY <2>1 DEF Hang
  <2>2. CASE ~Hang("info")
    <3>1. /\ pc = "info" /\ pc' \in {"data", "download_end"}
          /\ UNCHANGED <<image, flash>>
          /\ pc' = "data" => iResult' = TRUE
          /\ pc' = "download_end" =>
                iResult' = FALSE /\ code' = "DOWNLOAD_DEVICEINFO_FAILED"
      BY <1>5, <2>2 DEF GetDeviceInfo, InfoFailed
    <3>2. QED
      BY Zenon, <3>1
  <2>3. QED
    BY <2>1, <2>2
<1>6. CASE GetDataFile
  <2>1. CASE Hang("data")
    BY <2>1 DEF Hang
  <2>2. CASE ~Hang("data")
    <3>1. /\ pc = "data" /\ pc' = "download_end" /\ UNCHANGED <<want, flash>>
          /\ \/ iResult' = FALSE /\ code' = "DOWNLOAD_SWFP_FAILED" /\ image' = image
             \/ iResult' = TRUE /\ image' = TRUE /\ ram' \in Files /\ Hash[ram'] = want
      BY <1>6, <2>2 DEF GetDataFile, HashMatches
    <3>2. CASE iResult' = FALSE /\ code' = "DOWNLOAD_SWFP_FAILED" /\ image' = image
      BY Zenon, <3>1, <3>2
    <3>3. CASE iResult' = TRUE /\ image' = TRUE /\ ram' \in Files /\ Hash[ram'] = want
      BY <3>1, <3>3
    <3>4. QED
      BY Zenon, <3>1, <3>2, <3>3
  <2>3. QED
    BY <2>1, <2>2
<1>7. CASE DownloadEnd
  BY <1>7 DEF DownloadEnd, Codes, Mask
<1>8. CASE FlashStart
  BY <1>8 DEF FlashStart
<1>9. CASE ProcessWfp
  BY Zenon, <1>9 DEF ProcessWfp, FlashCode, Codes, Mask
<1>10. CASE FlashEnd
  BY <1>10 DEF FlashEnd
<1>11. CASE Result
  BY <1>11 DEF Result, Give
<1>12. CASE Blink
  BY <1>12 DEF Blink
<1>13. CASE UNCHANGED vars
  BY <1>13 DEF vars
<1>14. CASE \E m \in queued : Late(m) \/ Discard(m)
  BY <1>14 DEF Late, Discard
<1>15. QED
  BY Zenon, <1>1, <1>2, <1>3, <1>4, <1>5, <1>6, <1>7, <1>8, <1>9, <1>10, <1>11,
     <1>12, <1>13, <1>14 DEF Next, Program, Step

\* flashapp_main never changes a device before an image with the hash of the
\* info file is in the DDR, and a complete image on the devices is that image.
THEOREM OnlyVerifiedImages == Spec => []VerifiedOnly
<1>1. IInv => VerifiedOnly
  BY DEF IInv
<1>2. QED
  BY <1>1, InitInv, StepInv, PTL DEF Spec

\* The station blinks green exactly for a device with a complete image.
THEOREM GreenMeansFlashed == Spec => []GreenIsFlashed
<1>1. IInv => GreenIsFlashed
  BY GreenCode DEF IInv, Progress, GreenIsFlashed
<1>2. QED
  BY <1>1, InitInv, StepInv, PTL DEF Spec

-----------------------------------------------------------------------------
(* The messages.                                                            *)

Messages == [id : Ids, ok : BOOLEAN]
Entries == [id : Ids \cup {"noise"}, ok : BOOLEAN, late : BOOLEAN]

\* How far in the order of the messages the program is.
Told == CASE pc \in {"rom_ack", "fdl", "setup", "download_start"} -> 0
          [] pc \in {"info", "data", "download_end", "hang"} -> 1
          [] pc = "flash_start" -> 2
          [] pc \in {"flash", "flash_end"} -> 3
          [] pc = "result" -> 4
          [] pc = "blink" -> 5

\* Message m has been told by t, and is true of the devices and the image.
Fits(m, t, devices, im) ==
    /\ Order(m.id) <= t
    /\ m.id \in {"FLASH_END", "RESULT"} => (m.ok <=> devices \in Files)
    /\ m.id = "DOWNLOAD_END" => (m.ok <=> im)
    /\ m.id \in {"FLASH_START", "FLASH_END"} => im

\* Entry e may follow entry d.
Follows(d, e) ==
    d.id \in Ids /\ e.id \in Ids =>
        IF e.late THEN d.id # e.id ELSE Order(d.id) < Order(e.id)

Sorted(s) == \A i \in 1..Len(s) : \A j \in 1..(i - 1) : Follows(s[j], s[i])

\* The messages the server has and those the stack still has are true, and no
\* two of them are the same.
LogInv ==
    /\ log \in Seq(Entries) /\ queued \subseteq Messages
    /\ \A i \in 1..Len(log) : log[i].id \in Ids => Fits(log[i], Told, flash, image)
    /\ \A m \in queued : Fits(m, Told, flash, image)
    /\ \A m, n \in queued : m.id = n.id => m = n
    /\ \A m \in queued : \A i \in 1..Len(log) : log[i].id # m.id
    /\ Sorted(log)

LEMMA Orders == \A i \in Ids : Order(i) \in 1..5
BY DEF Ids, Order

\* A message stays true when a step does not touch what it speaks of.
LEMMA FitsKept ==
    ASSUME NEW m, m.id \in Ids, NEW t \in Nat, NEW u \in Nat, t <= u,
           NEW d, NEW e, NEW x, NEW y, e = d \/ t < 4, y = x \/ t < 2,
           Fits(m, t, d, x)
    PROVE  Fits(m, u, e, y)
<1>1. Order(m.id) \in 1..5 /\ Order(m.id) <= t /\ Order(m.id) <= u
  BY Orders DEF Fits
<1>2. t < 4 => m.id \notin {"FLASH_END", "RESULT"}
  BY <1>1 DEF Order
<1>3. t < 2 => m.id # "DOWNLOAD_END"
  BY <1>1 DEF Order
<1>4. t < 2 => m.id \notin {"FLASH_START", "FLASH_END"}
  BY <1>1 DEF Order
<1>5. m.id \in {"FLASH_END", "RESULT"} => (m.ok <=> e \in Files)
  BY Zenon, <1>2 DEF Fits
<1>6. m.id = "DOWNLOAD_END" => (m.ok <=> y)
  BY Zenon, <1>3 DEF Fits
<1>7. m.id \in {"FLASH_START", "FLASH_END"} => y
  BY Zenon, <1>4 DEF Fits
<1>8. QED
  BY Zenon, <1>1, <1>5, <1>6, <1>7 DEF Fits

\* An entry behind a sorted log.
LEMMA SortedAppend ==
    ASSUME NEW s \in Seq(Entries), Sorted(s), NEW e \in Entries,
           \A j \in 1..Len(s) : Follows(s[j], e)
    PROVE  /\ Append(s, e) \in Seq(Entries) /\ Sorted(Append(s, e))
           /\ Len(Append(s, e)) = Len(s) + 1 /\ Len(s) \in Nat
           /\ \A i \in 1..Len(s) : Append(s, e)[i] = s[i]
           /\ Append(s, e)[Len(s) + 1] = e
<1> DEFINE r == Append(s, e)
<1>1. /\ r \in Seq(Entries) /\ Len(r) = Len(s) + 1 /\ Len(s) \in Nat
      /\ \A i \in 1..Len(s) : r[i] = s[i]
      /\ r[Len(s) + 1] = e
  OBVIOUS
<1> HIDE DEF r
<1>2. ASSUME NEW i \in 1..Len(r), NEW j \in 1..(i - 1) PROVE Follows(r[j], r[i])
  <2>1. j \in 1..Len(s) /\ r[j] = s[j]
    BY <1>1
  <2>2. CASE i \in 1..Len(s)
    <3>1. r[i] = s[i]
      BY <1>1, <2>2
    <3>2. Follows(s[j], s[i])
      BY Zenon, <2>2 DEF Sorted
    <3>3. QED
      BY Zenon, <2>1, <3>1, <3>2
  <2>3. CASE i = Len(s) + 1
    <3>1. r[i] = e
      BY <1>1, <2>3
    <3>2. QED
      BY Zenon, <2>1, <3>1
  <2>4. QED
    BY <1>1, <2>2, <2>3
<1>3. Sorted(r)
  BY Zenon, <1>2 DEF Sorted
<1>4. QED
  BY <1>1, <1>3 DEF r

LEMMA LogIds ==
    ASSUME LogInv PROVE /\ \A m \in queued : m.id \in Ids /\ m.ok \in BOOLEAN
                        /\ Len(log) \in Nat
<1>1. \A m \in Messages : m.id \in Ids /\ m.ok \in BOOLEAN
  BY DEF Messages
<1>2. QED
  BY <1>1 DEF LogInv

\* Entry e is behind the others in the log, and true.
LEMMA ArrivesInv ==
    ASSUME LogInv, NEW e \in Entries, log' = Append(log, e), queued' \subseteq queued,
           Told \in Nat, Told' \in Nat, Told <= Told', UNCHANGED <<image, flash>>,
           e.id \in Ids => Fits(e, Told', flash, image),
           \A j \in 1..Len(log) : Follows(log[j], e),
           \A m \in queued' : m.id # e.id
    PROVE  LogInv'
<1>1. /\ log' \in Seq(Entries) /\ Sorted(log')
      /\ Len(log') = Len(log) + 1 /\ Len(log) \in Nat
      /\ \A i \in 1..Len(log) : log'[i] = log[i]
      /\ log'[Len(log) + 1] = e
  BY Zenon, SortedAppend DEF LogInv
<1>2. \A i \in 1..Len(log') : i \in 1..Len(log) \/ i = Len(log) + 1
  BY <1>1
<1>3. ASSUME NEW i \in 1..Len(log'), log'[i].id \in Ids PROVE Fits(log'[i], Told', flash', image')
  <2>1. CASE i \in 1..Len(log)
    <3>1. log'[i] = log[i]
      BY <1>1, <2>1
    <3>2. log[i].id \in Ids /\ Fits(log[i], Told, flash, image)
      BY Zenon, <1>3, <2>1, <3>1 DEF LogInv
    <3>3. Fits(log[i], Told', flash, image)
      BY Zenon, <3>2, FitsKept
    <3>4. QED
      BY Zenon, <3>1, <3>3
  <2>2. CASE i = Len(log) + 1
    BY Zenon, <1>1, <1>3, <2>2
  <2>3. QED
    BY <1>2, <2>1, <2>2
<1>4. ASSUME NEW m \in queued' PROVE Fits(m, Told', flash', image')
  <2>1. m \in queued /\ m.id \in Ids /\ Fits(m, Told, flash, image)
    BY LogIds DEF LogInv
  <2>2. Fits(m, Told', flash, image)
    BY Zenon, <2>1, FitsKept
  <2>3. QED
    BY Zenon, <2>2
<1>5. ASSUME NEW m \in queued', NEW i \in 1..Len(log') PROVE log'[i].id # m.id
  <2>1. CASE i \in 1..Len(log)
    BY <1>1, <2>1 DEF LogInv
  <2>2. CASE i = Len(log) + 1
    BY <1>1, <2>2
  <2>3. QED
    BY <1>2, <2>1, <2>2
<1>6. queued' \subseteq Messages /\ \A m, n \in queued' : m.id = n.id => m = n
  BY DEF LogInv
<1>7. QED
  BY Zenon, <1>1, <1>3, <1>4, <1>5, <1>6 DEF LogInv

\* A step after which nothing new is in the log.
LEMMA SilentInv ==
    ASSUME LogInv, log' = log, Told \in Nat, Told' \in Nat, Told <= Told',
           flash' = flash \/ Told < 4, image' = image \/ Told < 2,
           \A m \in queued' : m \in queued \/
               /\ m \in Messages /\ Fits(m, Told', flash', image')
               /\ Order(m.id) > Told
               /\ \A n \in queued' \ queued : n = m
    PROVE  LogInv'
<1>1. ASSUME NEW i \in 1..Len(log'), log'[i].id \in Ids PROVE Fits(log'[i], Told', flash', image')
  <2>1. log'[i] = log[i] /\ log[i].id \in Ids /\ Fits(log[i], Told, flash, image)
    BY Zenon, <1>1 DEF LogInv
  <2>2. Fits(log[i], Told', flash', image')
    BY Zenon, <2>1, FitsKept
  <2>3. QED
    BY Zenon, <2>1, <2>2
<1>2. \A m \in queued : m.id \in Ids /\ Order(m.id) <= Told
  BY LogIds DEF LogInv, Fits
<1>3. \A m \in queued' : m \in Messages /\ m.id \in Ids
  BY LogIds DEF LogInv, Messages
<1>4. ASSUME NEW m \in queued' PROVE Fits(m, Told', flash', image')
  <2>1. CASE m \in queued
    <3>1. m.id \in Ids /\ Fits(m, Told, flash, image)
      BY <1>3, <2>1 DEF LogInv
    <3>2. QED
      BY Zenon, <3>1, FitsKept
  <2>2. CASE m \notin queued
    BY Zenon, <2>2
  <2>3. QED
    BY <2>1, <2>2
<1>5. ASSUME NEW m \in queued', NEW n \in queued', m.id = n.id PROVE m = n
  <2>1. Order(m.id) \in Nat /\ Order(m.id) = Order(n.id)
    BY <1>3, <1>5, Orders
  <2>2. CASE m \in queued /\ n \in queued
    BY Zenon, <1>5, <2>2 DEF LogInv
  <2>3. CASE m \in queued /\ n \notin queued
    BY <1>2, <2>1, <2>3
  <2>4. CASE m \notin queued /\ n \in queued
    BY <1>2, <2>1, <2>4
  <2>5. CASE m \notin queued /\ n \notin queued
    BY <2>5
  <2>6. QED
    BY <2>2, <2>3, <2>4, <2>5
<1>6. ASSUME NEW m \in queued', NEW i \in 1..Len(log') PROVE log'[i].id # m.id
  <2>1. CASE m \in queued
    BY Zenon, <2>1 DEF LogInv
  <2>2. CASE m \notin queued
    <3>1. log[i].id \in Ids => Order(log[i].id) <= Told
      BY DEF LogInv, Fits
    <3>2. Order(m.id) > Told /\ m.id \in Ids
      BY <1>3, <2>2
    <3>3. m.id \in Ids /\ Order(m.id) \in Nat
      BY <3>2, Orders
    <3>4. QED
      BY <3>1, <3>2, <3>3
  <2>3. QED
    BY <2>1, <2>2
<1>7. log' \in Seq(Entries) /\ Sorted(log')
  BY Zenon DEF LogInv
<1>8. QED
  BY Zenon, <1>1, <1>3, <1>4, <1>5, <1>6, <1>7 DEF LogInv

\* A message that comes after all the others and is true keeps the log true,
\* whether it arrives, stays with the stack or is lost.
LEMMA TellInv ==
    ASSUME LogInv, NEW id \in Ids, NEW ok \in BOOLEAN, Tell(id, ok),
           UNCHANGED <<image, flash>>,
           Told \in Nat, Told < Order(id), Order(id) <= Told', Told' \in Nat,
           id \in {"FLASH_END", "RESULT"} => (ok <=> flash \in Files),
           id = "DOWNLOAD_END" => (ok <=> image),
           id \in {"FLASH_START", "FLASH_END"} => image
    PROVE  LogInv'
<1>1. Order(id) \in 1..5 /\ Told <= Told'
  BY Orders
<1>2. CASE log' = Append(log, [id |-> id, ok |-> ok, late |-> FALSE]) /\ UNCHANGED queued
  <2> DEFINE e == [id |-> id, ok |-> ok, late |-> FALSE]
  <2>1. e \in Entries /\ e.id = id /\ e.ok = ok /\ e.late = FALSE
    BY DEF Entries
  <2> HIDE DEF e
  <2>2. log' = Append(log, e)
    BY <1>2 DEF e
  <2>3. Fits(e, Told', flash, image)
    BY Zenon, <2>1 DEF Fits
  <2>4. ASSUME NEW j \in 1..Len(log) PROVE Follows(log[j], e)
    <3>1. log[j].id \in Ids => Order(log[j].id) <= Told /\ Order(log[j].id) \in Nat
      BY Orders DEF LogInv, Fits
    <3>2. log[j].id \in Ids => Order(log[j].id) < Order(id)
      BY <1>1, <3>1
    <3>3. QED
      BY Zenon, <2>1, <3>2 DEF Follows
  <2>5. ASSUME NEW m \in queued' PROVE m.id # e.id
    <3>1. m \in queued /\ Order(m.id) <= Told
      BY <1>2 DEF LogInv, Fits
    <3>2. QED
      BY <1>1, <2>1, <3>1
  <2>6. queued' \subseteq queued
    BY <1>2
  <2>7. QED
    BY Zenon, <1>1, <2>1, <2>2, <2>3, <2>4, <2>5, <2>6, ArrivesInv
<1>3. CASE queued' = queued \cup {[id |-> id, ok |-> ok]} /\ UNCHANGED log
  <2> DEFINE e == [id |-> id, ok |-> ok]
  <2>1. e \in Messages /\ e.id = id /\ e.ok = ok
    BY DEF Messages
  <2> HIDE DEF e
  <2>2. queued' = queued \cup {e} /\ log' = log
    BY <1>3 DEF e
  <2>3. Fits(e, Told', flash', image')
    BY Zenon, <2>1 DEF Fits
  <2>4. Order(e.id) > Told
    BY <1>1, <2>1
  <2>5. \A m \in queued' : m \in queued \/
            /\ m \in Messages /\ Fits(m, Told', flash', image')
            /\ Order(m.id) > Told
            /\ \A n \in queued' \ queued : n = m
    BY Zenon, <2>1, <2>2, <2>3, <2>4
  <2>6. QED
    BY Zenon, <1>1, <2>2, <2>5, SilentInv
<1>4. CASE UNCHANGED <<log, queued>>
  BY <1>1, <1>4, SilentInv
<1>5. QED
  BY <1>2, <1>3, <1>4 DEF Tell

\* What the stack sends late, or drops, keeps the log true.
LEMMA NetworkInv ==
    ASSUME LogInv, NEW m \in queued, Late(m) \/ Discard(m), Told \in Nat, Told' = Told
    PROVE  LogInv'
<1>1. UNCHANGED <<image, flash>> /\ queued' = queued \ {m}
  BY DEF Late, Discard
<1>2. m.id \in Ids /\ m.ok \in BOOLEAN /\ Fits(m, Told, flash, image)
  BY LogIds DEF LogInv
<1>3. CASE log' = Append(log, [id |-> m.id, ok |-> m.ok, late |-> TRUE])
  <2> DEFINE e == [id |-> m.id, ok |-> m.ok, late |-> TRUE]
  <2>1. e \in Entries /\ e.id = m.id /\ e.ok = m.ok /\ e.late = TRUE
    BY <1>2 DEF Entries
  <2> HIDE DEF e
  <2>2. log' = Append(log, e)
    BY <1>3 DEF e
  <2>3. Fits(e, Told', flash, image)
    BY Zenon, <1>2, <2>1 DEF Fits
  <2>4. \A j \in 1..Len(log) : log[j].id # m.id
    BY Zenon DEF LogInv
  <2>5. \A j \in 1..Len(log) : Follows(log[j], e)
    BY Zenon, <2>1, <2>4 DEF Follows
  <2>6. \A n \in queued' : n.id # e.id
    BY <1>1, <2>1 DEF LogInv
  <2>7. Told' \in Nat /\ Told <= Told' /\ queued' \subseteq queued
    BY <1>1
  <2>8. QED
    BY Zenon, <1>1, <2>1, <2>2, <2>3, <2>5, <2>6, <2>7, ArrivesInv
<1>4. CASE log' = Append(log, Noise)
  <2>1. Noise \in Entries /\ Noise.id \notin Ids
    BY DEF Noise, Entries, Ids
  <2>2. \A j \in 1..Len(log) : Follows(log[j], Noise)
    BY Zenon, <2>1 DEF Follows
  <2>3. \A n \in queued' : n.id # Noise.id
    BY <1>1, <2>1, LogIds
  <2>4. Told' \in Nat /\ Told <= Told' /\ queued' \subseteq queued
    BY <1>1
  <2>5. QED
    BY Zenon, <1>1, <1>4, <2>1, <2>2, <2>3, <2>4, ArrivesInv
<1>5. CASE log' = log
  BY <1>1, <1>5, SilentInv
<1>6. QED
  BY <1>3, <1>4, <1>5 DEF Late, Discard

LEMMA LogStep == IInv /\ LogInv /\ [Next]_vars => LogInv'
<1> SUFFICES ASSUME IInv, LogInv, [Next]_vars PROVE LogInv'
  OBVIOUS
<1>0. IInv'
  BY StepInv
<1>1. Told \in Nat /\ Told' \in Nat
  BY <1>0 DEF IInv, Types, Pcs, Told
<1>2. CASE RomAck \/ ReadFDL \/ Setup \/ GetDeviceInfo \/ Blink \/ UNCHANGED vars
  <2>1. UNCHANGED <<log, queued, flash, image>>
    BY <1>2 DEF RomAck, ReadFDL, Setup, GetDeviceInfo, Hang, Blink, vars
  <2>2. \/ pc \in {"rom_ack", "fdl", "setup"}
        \/ pc = "info" /\ pc' \in {"data", "download_end", "hang"}
        \/ pc' = pc
    BY <1>2 DEF RomAck, ReadFDL, Setup, GetDeviceInfo, InfoFailed, Hang, Blink, vars
  <2>3. pc \in {"rom_ack", "fdl", "setup"} => Told = 0
    BY DEF Told
  <2>4. pc = "info" /\ pc' \in {"data", "download_end", "hang"} => Told = 1 /\ Told' = 1
    BY DEF Told
  <2>5. pc' = pc => Told' = Told
    BY DEF Told
  <2>6. Told <= Told'
    BY <1>1, <2>2, <2>3, <2>4, <2>5
  <2>7. QED
    BY <1>1, <2>1, <2>6, SilentInv
<1>3. CASE GetDataFile
  <2>1. UNCHANGED <<log, queued, flash>> /\ pc = "data" /\ pc' \in {"download_end", "hang"}
    BY <1>3 DEF GetDataFile, Hang
  <2>2. Told = 1 /\ Told' = 1
    BY <2>1 DEF Told
  <2>3. QED
    BY <1>1, <2>1, <2>2, SilentInv
<1>4. CASE ProcessWfp
  <2>1. UNCHANGED <<log, queued, image>> /\ pc = "flash" /\ pc' = "flash_end"
    BY <1>4 DEF ProcessWfp
  <2>2. Told = 3 /\ Told' = 3
    BY <2>1 DEF Told
  <2>3. QED
    BY <1>1, <2>1, <2>2, SilentInv
<1>5. CASE DownloadStart
  <2>1. Tell("DOWNLOAD_START", TRUE) /\ UNCHANGED <<image, flash>> /\ Told = 0 /\ Told' = 1
    BY Zenon, <1>5 DEF DownloadStart, Told
  <2>2. PICK ok \in BOOLEAN : ok = TRUE /\ Tell("DOWNLOAD_START", ok)
    BY Zenon, <2>1
  <2>3. /\ "DOWNLOAD_START" \in Ids /\ Order("DOWNLOAD_START") = 1
        /\ "DOWNLOAD_START" \notin {"FLASH_END", "RESULT"} /\ "DOWNLOAD_START" # "DOWNLOAD_END"
    BY DEF Ids, Order
  <2>4. Told < 1 /\ 1 <= Told'
    BY <2>1
  <2>5. QED
    BY <1>1, <2>1, <2>2, <2>3, <2>4, TellInv, Zenon
<1>6. CASE DownloadEnd
  <2>1. /\ Tell("DOWNLOAD_END", iResult) /\ UNCHANGED <<image, flash>>
        /\ Told = 1 /\ Told' \in {2, 4}
    BY <1>6 DEF DownloadEnd, Told
  <2>2. (iResult <=> image) /\ iResult \in BOOLEAN
    BY <1>6 DEF DownloadEnd, IInv, Types, Progress, Verified
  <2>3. QED
    BY <2>1, <2>2, TellInv DEF Ids, Order
<1>7. CASE FlashStart
  <2>1. Tell("FLASH_START", TRUE) /\ UNCHANGED <<image, flash>> /\ Told = 2 /\ Told' = 3
    BY Zenon, <1>7 DEF FlashStart, Told
  <2>2. image
    BY <1>7 DEF FlashStart, IInv, Progress, Verified
  <2>3. PICK ok \in BOOLEAN : ok = TRUE /\ Tell("FLASH_START", ok)
    BY Zenon, <2>1
  <2>4. /\ "FLASH_START" \in Ids /\ Order("FLASH_START") = 3
        /\ "FLASH_START" \notin {"FLASH_END", "RESULT"} /\ "FLASH_START" # "DOWNLOAD_END"
    BY DEF Ids, Order
  <2>5. Told < 3 /\ 3 <= Told'
    BY <2>1
  <2>6. QED
    BY <1>1, <2>1, <2>2, <2>3, <2>4, <2>5, TellInv, Zenon
<1>8. CASE FlashEnd
  <2>1. Tell("FLASH_END", iResult) /\ UNCHANGED <<image, flash>> /\ Told = 3 /\ Told' = 4
    BY <1>8 DEF FlashEnd, TellFlashEnd, Told
  <2>2. (iResult <=> flash \in Files) /\ iResult \in BOOLEAN
    BY <1>8 DEF FlashEnd, IInv, Types, Progress
  <2>3. image
    BY <1>8 DEF FlashEnd, IInv, Progress
  <2>4. QED
    BY <2>1, <2>2, <2>3, TellInv DEF Ids, Order
<1>9. CASE Result
  <2>1. Tell("RESULT", iResult) /\ UNCHANGED <<image, flash>> /\ Told = 4 /\ Told' = 5
    BY <1>9 DEF Result, Give, Told
  <2>2. (iResult <=> flash \in Files) /\ iResult \in BOOLEAN
    BY <1>9 DEF Result, IInv, Types, Progress
  <2>3. QED
    BY <2>1, <2>2, TellInv DEF Ids, Order
<1>10. CASE \E m \in queued : Late(m) \/ Discard(m)
  <2>1. pc' = pc
    BY <1>10 DEF Late, Discard
  <2>2. Told' = Told
    BY <2>1 DEF Told
  <2>3. QED
    BY Zenon, <1>1, <1>10, <2>2, NetworkInv
<1>11. QED
  BY Zenon, <1>2, <1>3, <1>4, <1>5, <1>6, <1>7, <1>8, <1>9, <1>10 DEF Next, Program, Step

LEMMA LogStart == Init => LogInv
<1>1. <<>> \in Seq(Entries) /\ Len(<<>>) = 0 /\ 1..0 = {}
  OBVIOUS
<1>2. QED
  BY Zenon, <1>1 DEF Init, LogInv, Sorted

\* Whichever messages are lost or given up and come late, those the server
\* receives as they were written tell the truth about the devices, come once,
\* and are in order as far as sendMessage waited for them.
THEOREM ServerIsToldTheTruth == Spec => []ReportsTrue
<1>1. LogInv => ReportsTrue
  <2> SUFFICES ASSUME LogInv, NEW i \in 1..Len(log), log[i].id \in Ids
               PROVE  /\ Says(log[i])
                      /\ \A j \in 1..(i - 1) : log[j].id \in Ids =>
                            IF log[i].late THEN log[j].id # log[i].id
                                           ELSE Order(log[j].id) < Order(log[i].id)
    BY Zenon DEF ReportsTrue
  <2>1. Fits(log[i], Told, flash, image)
    BY Zenon DEF LogInv
  <2>2. Says(log[i])
    BY Zenon, <2>1 DEF Fits, Says
  <2>3. \A j \in 1..(i - 1) : Follows(log[j], log[i])
    BY Zenon DEF LogInv, Sorted
  <2>4. QED
    BY Zenon, <2>2, <2>3 DEF Follows
<1>2. QED
  BY <1>1, LogStart, InitInv, StepInv, LogStep, PTL DEF Spec

-----------------------------------------------------------------------------
(* The types, and the position in the blink sequence.                       *)

\* The entry with the "*".
End ==
    [ROM_ACK_FAILED |-> 12,
     FDL_READ_FAILED |-> 20,
     DOWNLOAD_DEVICEINFO_FAILED |-> 24,
     DOWNLOAD_SWFP_FAILED |-> 28,
     FLASHING_OK |-> 2,
     FLASHING_FAILED |-> 4]

LEMMA EndFacts == \A c \in Codes : End[c] \in 2..28 /\ Lamp(c, End[c]) = "*"
BY DEF Codes, Lamp, Mask, State, End

\* The blink sequence is at its start until it is run, and never past its end.
BlinkInv ==
    /\ pc # "blink" => bit = 0
    /\ pc = "blink" => bit \in 0..(End[code] - 1)

LEMMA BlinkStep == IInv /\ BlinkInv /\ [Next]_vars => BlinkInv'
<1> SUFFICES ASSUME IInv, BlinkInv, [Next]_vars PROVE BlinkInv'
  OBVIOUS
<1>1. IInv' /\ (pc' = "blink" => code' \in Codes)
  BY StepInv DEF IInv, Progress
<1>2. CASE Blink
  <2>1. /\ pc = "blink" /\ pc' = pc /\ code' = code /\ code \in Codes
        /\ bit' = IF Lamp(code, bit + 1) = "*" THEN 0 ELSE bit + 1
    BY <1>2 DEF Blink, IInv, Progress
  <2>2. bit \in 0..(End[code] - 1) /\ End[code] \in 2..28 /\ Lamp(code, End[code]) = "*"
    BY <2>1, EndFacts DEF BlinkInv
  <2>3. bit + 1 \in 0..(End[code] - 1) \/ bit + 1 = End[code]
    BY <2>2
  <2>4. QED
    BY <2>1, <2>2, <2>3 DEF BlinkInv
<1>3. CASE UNCHANGED vars
  BY <1>3 DEF BlinkInv, vars
<1>4. CASE Step
  <2>1. pc # "blink" /\ bit' = bit
    BY Zenon, <1>4 DEF Step, RomAck, ReadFDL, Setup, DownloadStart, GetDeviceInfo, GetDataFile,
       DownloadEnd, FlashStart, ProcessWfp, FlashEnd, Result, Hang
  <2>2. bit' = 0
    BY <2>1 DEF BlinkInv
  <2>3. pc' = "blink" => End[code'] \in 2..28
    BY <1>1, EndFacts
  <2>4. QED
    BY <2>2, <2>3 DEF BlinkInv
<1>5. CASE \E m \in queued : Late(m) \/ Discard(m)
  <2>1. UNCHANGED <<pc, bit, code>>
    BY <1>5 DEF Late, Discard
  <2>2. QED
    BY <2>1 DEF BlinkInv
<1>6. QED
  BY <1>2, <1>3, <1>4, <1>5 DEF Next, Program

\* The rest of the types.
Rest ==
    /\ net \in BOOLEAN
    /\ want \in Hashes \cup {"zero"} /\ ram \in Files \cup {NoFile}
    /\ code \in Codes \cup {"off"}

LEMMA RestStep == Rest /\ [Next]_vars => Rest'
<1> SUFFICES ASSUME Rest, [Next]_vars PROVE Rest'
  OBVIOUS
<1>1. net' \in BOOLEAN
  BY Zenon DEF Rest, Next, Program, Late, Discard, Step, RomAck, ReadFDL, Setup, DownloadStart, GetDeviceInfo, GetDataFile,
     DownloadEnd, FlashStart, ProcessWfp, FlashEnd, Result, Hang, Blink, vars
<1>2. want' \in Hashes \cup {"zero"}
  BY Zenon DEF Rest, Next, Program, Late, Discard, Step, RomAck, ReadFDL, Setup, DownloadStart, GetDeviceInfo, GetDataFile,
     DownloadEnd, FlashStart, ProcessWfp, FlashEnd, Result, Hang, Blink, vars
<1>3. ram' \in Files \cup {NoFile}
  BY Zenon DEF Rest, Next, Program, Late, Discard, Step, RomAck, ReadFDL, Setup, DownloadStart, GetDeviceInfo, GetDataFile,
     DownloadEnd, FlashStart, ProcessWfp, FlashEnd, Result, Hang, Blink, vars
<1>4. code' \in Codes \cup {"off"}
  BY Zenon DEF Rest, Next, Program, Late, Discard, Step, RomAck, ReadFDL, Setup, DownloadStart, GetDeviceInfo, GetDataFile,
     DownloadEnd, FlashStart, ProcessWfp, FlashEnd, Result, Hang, Blink, vars, Give,
     InfoFailed, FlashCode, Codes, Mask
<1>5. QED
  BY <1>1, <1>2, <1>3, <1>4 DEF Rest

\* The blink sequence never runs past its 32 entries, and the variables of
\* flashapp_main keep their types.
THEOREM StationTyped == Spec => []TypeOK
<1>1. Init => BlinkInv /\ Rest /\ LogInv
  <2>1. Init => BlinkInv /\ Rest
    BY Zenon DEF Init, BlinkInv, Rest
  <2>2. QED
    BY <2>1, LogStart
<1>2. IInv /\ BlinkInv /\ Rest /\ LogInv => TypeOK
  <2> SUFFICES ASSUME IInv, BlinkInv, Rest, LogInv PROVE TypeOK
    OBVIOUS
  <2>1. bit \in 0..31
    <3>1. pc = "blink" => End[code] \in 2..28
      BY EndFacts DEF IInv, Progress
    <3>2. QED
      BY <3>1 DEF BlinkInv
  <2>2. QED
    BY <2>1, Zenon DEF TypeOK, IInv, Types, Rest, LogInv, Messages, Entries
<1>3. QED
  BY <1>1, <1>2, InitInv, StepInv, LogStep, BlinkStep, RestStep, PTL DEF Spec

-----------------------------------------------------------------------------
(* The program implements Station.                                          *)

LEMMA StationInit == Init => Operator!Init
BY DEF Init, Operator!Init, Verdict

LEMMA StationStep ==
    IInv /\ [Next]_vars => [Operator!Next]_<<want, flash, Verdict>>
<1> SUFFICES ASSUME IInv, [Next]_vars PROVE [Operator!Next]_<<want, flash, Verdict>>
  OBVIOUS
<1> USE DEF Operator!Next, Operator!Choose, Operator!Write, Operator!Show
<1>0. IInv'
  BY StepInv
<1>1. CASE RomAck \/ ReadFDL \/ Result
  <2>1. UNCHANGED <<want, flash>> /\ Verdict = "off"
    BY <1>1 DEF RomAck, ReadFDL, Result, Verdict
  <2>2. Verdict' = IF pc' # "blink" THEN "off" ELSE IF flash' \in Files THEN "green" ELSE "yellow"
    BY <1>0, GreenCode DEF IInv, Progress, Verdict
  <2>3. QED
    BY <2>1, <2>2
<1>2. CASE GetDeviceInfo
  <2>1. /\ flash' = flash /\ flash = "old" /\ Verdict = "off" /\ Verdict' = "off"
        /\ want' = want \/ want' \in Hashes \cup {"zero"}
    BY <1>2 DEF GetDeviceInfo, InfoFailed, Hang, Verdict, IInv, Progress, Early
  <2>2. QED
    BY <2>1 DEF Hashes
<1>3. CASE ProcessWfp
  <2>1. /\ want' = want /\ flash = "old" /\ Verdict = "off" /\ Verdict' = "off"
        /\ ram \in Files /\ Hash[ram] = want /\ flash' \in {flash, ram, "partial"}
    BY <1>3 DEF ProcessWfp, Verdict, IInv, Progress, Verified
  <2>2. QED
    BY <2>1
<1>4. CASE Setup \/ DownloadStart \/ GetDataFile \/ DownloadEnd \/ FlashStart \/ FlashEnd
  <2>1. UNCHANGED <<want, flash>> /\ pc # "blink" /\ pc' # "blink"
    BY Zenon, <1>4 DEF Setup, DownloadStart, GetDataFile, DownloadEnd, FlashStart, FlashEnd, Hang
  <2>2. QED
    BY <2>1 DEF Verdict
<1>5. CASE Blink \/ UNCHANGED vars
  BY <1>5 DEF Blink, vars, Verdict
<1>6. CASE \E m \in queued : Late(m) \/ Discard(m)
  <2>1. UNCHANGED <<want, flash, pc, code>>
    BY <1>6 DEF Late, Discard
  <2>2. QED
    BY <2>1 DEF Verdict
<1>7. QED
  BY Zenon, <1>1, <1>2, <1>3, <1>4, <1>5, <1>6 DEF Next, Program, Step

\* flashapp_main implements Station: the board is written once or not at all,
\* with the image of the info file, and the verdict of the lamp is right and
\* final.
THEOREM ImplementsStation == Spec => IsStation
<1>1. QED
  BY StationInit, StationStep, InitInv, StepInv, PTL DEF Spec, IsStation, Operator!Spec

-----------------------------------------------------------------------------
(* InfoFile *)

InfoTypes ==
    /\ file \in Seq(Chars)
    /\ infoPc \in {"scan", "name", "skip", "room", "digit", "end", "done"}
    /\ pcCnt \in 0..Len(file) /\ uiLineSize \in Nat /\ iInfoResult \in BOOLEAN
    /\ uri \in Seq(Chars) /\ Len(uri) + 2 <= UriSize
    /\ pucHash \in Nat /\ hash \in [0..(HashSize - 1) -> Int]

\* There was no newline up to pcCnt.
Scanned ==
    /\ uiLineSize = pcCnt /\ uri = <<>>
    /\ \A i \in 1..pcCnt : file[i] # NL
    /\ infoPc = "name" => ~AtText

\* The name is the first line, and pcCnt is behind it.
Named ==
    /\ IsName(file, Len(uri)) /\ uri = SubSeq(file, 1, Len(uri))
    /\ Len(uri) <= pcCnt
    /\ \A i \in (Len(uri) + 1)..pcCnt : file[i] = NL

\* The byte i of the hash behind uiLineSize digits.
ByteSoFar(i) ==
    IF 2 * i + 2 <= uiLineSize THEN 16 * file[pcCnt + 2 * i + 1] + file[pcCnt + 2 * i + 2]
    ELSE IF 2 * i + 1 = uiLineSize THEN 16 * file[pcCnt + 2 * i + 1] ELSE 0

\* The digits up to uiLineSize are in the hash.
Collected ==
    /\ pcCnt + Digits < Len(file) /\ uiLineSize \in 0..Digits
    /\ \A i \in 1..uiLineSize : file[pcCnt + i] \in Hex
    /\ pucHash = uiLineSize \div 2
    /\ \A i \in 0..(HashSize - 1) : hash[i] = ByteSoFar(i)
    /\ infoPc = "digit" => uiLineSize < Digits
    /\ infoPc = "end" => uiLineSize = Digits \/ file[pcCnt + uiLineSize + 1] \notin Hex

InfoInv ==
    /\ InfoTypes
    /\ infoPc \in {"scan", "name"} => Scanned
    /\ infoPc \in {"skip", "room", "digit", "end"} => Named
    /\ infoPc \in {"room", "digit", "end"} => IsGap(file, Len(uri), pcCnt)
    /\ infoPc \in {"digit", "end"} => Collected
    /\ ParsesRight

-----------------------------------------------------------------------------
\* A file has at most one first line,
LEMMA OneName ==
    ASSUME NEW f \in Seq(Chars), NEW n \in Nat, NEW m \in Nat, IsName(f, n), IsName(f, m)
    PROVE  n = m
BY DEF IsName

\* and at most one place where the newlines behind it end.
LEMMA OneGap ==
    ASSUME NEW f \in Seq(Chars), NEW n \in Nat, NEW h \in 0..Len(f), NEW g \in 0..Len(f),
           IsGap(f, n, h), IsGap(f, n, g)
    PROVE  h = g
BY DEF IsGap

LEMMA InfoInitInv == InfoInit => InfoInv
<1> SUFFICES ASSUME InfoInit PROVE InfoInv
  OBVIOUS
<1>1. file \in Seq(Chars) /\ Len(file) \in Nat
  BY FilesAssumption DEF InfoInit
<1>2. hash \in [0..(HashSize - 1) -> Int]
  BY DEF InfoInit
<1>a. uri \in Seq(Chars) /\ Len(uri) + 2 <= UriSize
  BY UriAssumption DEF InfoInit
<1>b. iInfoResult \in BOOLEAN
  BY Zenon DEF InfoInit
<1>3. InfoTypes
  <2>1. /\ infoPc \in {"scan", "name", "skip", "room", "digit", "end", "done"}
        /\ pcCnt \in 0..Len(file) /\ uiLineSize \in Nat /\ pucHash \in Nat
    BY <1>1 DEF InfoInit
  <2>2. QED
    BY <1>1, <1>2, <1>a, <1>b, <2>1 DEF InfoTypes
<1>4. QED
  BY <1>3 DEF InfoInit, InfoInv, Scanned, ParsesRight

LEMMA ScanInv == InfoInv /\ Scan => InfoInv'
<1> SUFFICES ASSUME InfoInv, Scan PROVE InfoInv'
  OBVIOUS
<1>1. InfoTypes'
  BY DEF InfoInv, InfoTypes, Scan, AtText, AtEnd
<1>2. Scanned'
  BY DEF InfoInv, InfoTypes, Scan, Scanned, AtText, AtEnd
<1>3. QED
  BY <1>1, <1>2 DEF InfoInv, InfoTypes, Scan, ParsesRight

LEMMA NameInv == InfoInv /\ Name => InfoInv'
<1> SUFFICES ASSUME InfoInv, Name PROVE InfoInv'
  OBVIOUS
<1>1. Scanned /\ ~AtText /\ Len(file) \in Nat
  BY DEF InfoInv, InfoTypes, Scanned, Name
<1>2. CASE ~AtEnd /\ NameFits(uiLineSize)
  <2>1. /\ uri' = SubSeq(file, 1, uiLineSize) /\ infoPc' = "skip"
        /\ UNCHANGED <<file, pcCnt, uiLineSize, pucHash, hash, iInfoResult>>
    BY Zenon, <1>2 DEF Name
  <2>2. uiLineSize \in 0..Len(file) /\ uiLineSize = pcCnt /\ uiLineSize < Len(file)
    BY <1>1, <1>2 DEF InfoInv, InfoTypes, Scanned, AtEnd
  <2>3. uri' \in Seq(Chars) /\ Len(uri') = uiLineSize
    BY <2>1, <2>2 DEF InfoInv, InfoTypes
  <2>4. InfoTypes'
    BY <1>2, <2>1, <2>3, UriAssumption DEF InfoInv, InfoTypes, NameFits
  <2>5. IsName(file, uiLineSize)
    BY <1>1, <1>2, <2>2 DEF IsName, Scanned, AtText, AtEnd
  <2>6. Named'
    BY <2>1, <2>2, <2>3, <2>5 DEF Named
  <2>7. QED
    BY <2>1, <2>4, <2>6 DEF InfoInv, ParsesRight
<1>3. CASE AtEnd \/ ~NameFits(uiLineSize)
  <2>1. /\ infoPc' = "done" /\ iInfoResult' = FALSE
        /\ UNCHANGED <<file, pcCnt, uiLineSize, uri, pucHash, hash>>
    BY <1>3 DEF Name, Finish
  <2>2. ASSUME NEW n \in 0..Len(file), NEW h \in 0..Len(file), Accepted(file, n, h)
        PROVE  FALSE
    <3>1. CASE AtEnd
      BY <1>1, <2>2, <3>1 DEF Accepted, IsName, AtEnd, Scanned, InfoInv, InfoTypes
    <3>2. CASE ~AtEnd
      <4>1. IsName(file, pcCnt)
        BY <1>1, <3>2 DEF IsName, Scanned, AtText, AtEnd, InfoInv, InfoTypes
      <4>2. n = pcCnt
        BY <2>2, <4>1, OneName DEF Accepted, InfoInv, InfoTypes
      <4>3. QED
        BY <1>1, <1>3, <2>2, <3>2, <4>2, UriAssumption DEF Accepted, NameFits, Scanned
    <3>3. QED
      BY <3>1, <3>2
  <2>3. QED
    BY Zenon, <2>1, <2>2 DEF InfoInv, InfoTypes, ParsesRight
<1>4. QED
  BY <1>2, <1>3

LEMMA SkipInv == InfoInv /\ Skip => InfoInv'
<1> SUFFICES ASSUME InfoInv, Skip PROVE InfoInv'
  OBVIOUS
<1>1. InfoTypes'
  BY DEF InfoInv, InfoTypes, Skip, AtNewline, AtEnd
<1>2. Named'
  BY DEF InfoInv, InfoTypes, Skip, Named, IsName, AtNewline, AtEnd
<1>3. infoPc' = "room" => IsGap(file, Len(uri), pcCnt)
  <2>1. Len(uri) \in Nat /\ Len(uri) < Len(file) /\ file[Len(uri) + 1] = NL
    BY DEF InfoInv, InfoTypes, Named, IsName, Skip
  <2>2. SUFFICES ASSUME infoPc' = "room" PROVE IsGap(file, Len(uri), pcCnt)
    OBVIOUS
  <2>3. ~AtNewline
    BY <2>2 DEF Skip
  <2>4. Len(uri) < pcCnt
    BY <2>1, <2>3 DEF AtNewline, AtEnd, InfoInv, InfoTypes, Named, Skip
  <2>5. QED
    BY <2>3, <2>4 DEF AtNewline, AtEnd, InfoInv, InfoTypes, Named, Skip, IsGap
<1>4. QED
  BY <1>1, <1>2, <1>3 DEF InfoInv, Skip, ParsesRight

\* A verdict against the file is right when the place of the hash is known and
\* there is no room for it or no digit.
LEMMA Refused ==
    ASSUME InfoTypes, Named, IsGap(file, Len(uri), pcCnt),
           \/ ~(pcCnt + Digits < Len(file))
           \/ \E i \in 1..Digits : file[pcCnt + i] \notin Hex
    PROVE  ~\E n, h \in 0..Len(file) : Accepted(file, n, h)
<1> SUFFICES ASSUME NEW n \in 0..Len(file), NEW h \in 0..Len(file), Accepted(file, n, h)
             PROVE  FALSE
  OBVIOUS
<1>1. Len(uri) \in Nat /\ Len(file) \in Nat /\ pcCnt \in 0..Len(file)
  BY DEF InfoTypes
<1>2. n = Len(uri)
  <2>1. file \in Seq(Chars) /\ n \in Nat /\ IsName(file, n) /\ IsName(file, Len(uri))
    BY <1>1 DEF InfoTypes, Named, Accepted
  <2>2. QED
    BY <1>1, <2>1, OneName
<1>3. h = pcCnt
  BY <1>1, <1>2, OneGap DEF InfoTypes, Accepted
<1>4. QED
  BY <1>3 DEF Accepted, HoldsHash

LEMMA ClearInv == InfoInv /\ Clear => InfoInv'
<1> SUFFICES ASSUME InfoInv, Clear PROVE InfoInv'
  OBVIOUS
<1>1. InfoTypes /\ Named /\ IsGap(file, Len(uri), pcCnt)
  BY DEF InfoInv, Clear
<1>2. /\ UNCHANGED <<file, pcCnt, uri>>
      /\ pucHash' = 0 /\ hash' = [i \in 0..(HashSize - 1) |-> 0]
  BY DEF Clear
<1>3. CASE Room
  <2>1. infoPc' = "digit" /\ uiLineSize' = 0 /\ iInfoResult' = iInfoResult
    BY <1>3 DEF Clear
  <2>2. InfoTypes'
    BY <1>1, <1>2, <2>1 DEF InfoTypes
  <2>3. \A i \in 0..(HashSize - 1) : hash'[i] = ByteSoFar(i)'
    BY <1>2, <2>1, DigitsAssumption DEF ByteSoFar
  <2>4. Collected'
    BY <1>2, <1>3, <2>1, <2>3, DigitsAssumption DEF Collected, Room
  <2>5. QED
    BY Zenon, <1>1, <1>2, <2>1, <2>2, <2>4 DEF InfoInv, Named, ParsesRight
<1>4. CASE ~Room
  <2>1. infoPc' = "done" /\ iInfoResult' = FALSE /\ uiLineSize' = uiLineSize
    BY <1>4 DEF Clear, Finish
  <2>2. InfoTypes'
    <3>1. hash' \in [0..(HashSize - 1) -> Int] /\ pucHash' \in Nat
      BY <1>2
    <3>2. iInfoResult' \in BOOLEAN
      BY Zenon, <2>1
    <3>3. QED
      BY <1>1, <1>2, <2>1, <3>1, <3>2 DEF InfoTypes
  <2>3. ~\E n, h \in 0..Len(file) : Accepted(file, n, h)
    BY <1>1, <1>4, Refused DEF Room
  <2>4. QED
    BY <1>2, <2>1, <2>2, <2>3 DEF InfoInv, ParsesRight
<1>5. QED
  BY <1>3, <1>4

LEMMA DigitInv == InfoInv /\ Digit => InfoInv'
<1> SUFFICES ASSUME InfoInv, Digit PROVE InfoInv'
  OBVIOUS
<1> DEFINE c == file[pcCnt + uiLineSize + 1]
<1>1. InfoTypes /\ Named /\ IsGap(file, Len(uri), pcCnt) /\ Collected /\ infoPc = "digit"
  BY DEF InfoInv, Digit
<1>2. UNCHANGED <<file, pcCnt, uri, iInfoResult>>
  BY DEF Digit
<1>3. uiLineSize \in 0..(Digits - 1) /\ pcCnt \in Nat /\ Digits \in Nat /\ HashSize \in Nat
  BY <1>1, DigitsAssumption DEF Collected, InfoTypes
<1>4. CASE c \in Hex
  <2>1. /\ hash' = [hash EXCEPT ![pucHash] = @ + Shifted(c)]
        /\ pucHash' = pucHash + (uiLineSize % 2)
        /\ uiLineSize' = uiLineSize + 1
        /\ infoPc' = IF uiLineSize' < Digits THEN "digit" ELSE "end"
    BY <1>4 DEF Digit
  <2>2. pucHash \in 0..(HashSize - 1) /\ pucHash = uiLineSize \div 2
    BY <1>1, <1>3, DigitsAssumption DEF Collected
  <2>3. Shifted(c) \in Int
    BY <1>3, <1>4 DEF Shifted, Hex
  <2>4. hash' \in [0..(HashSize - 1) -> Int] /\ pucHash' \in Nat
    BY <1>1, <1>3, <2>1, <2>2, <2>3 DEF InfoTypes
  <2>5. InfoTypes'
    BY <1>1, <1>2, <1>3, <2>1, <2>4 DEF InfoTypes
  <2>6. pucHash' = uiLineSize' \div 2
    BY <1>3, <2>1, <2>2
  <2>7. ASSUME NEW i \in 1..uiLineSize'
        PROVE  file[pcCnt + i] \in Hex
    <3>1. i \in 1..uiLineSize \/ pcCnt + i = pcCnt + uiLineSize + 1
      BY <1>3, <2>1
    <3>2. QED
      BY <1>1, <1>4, <3>1 DEF Collected
  <2>8. ASSUME NEW i \in 0..(HashSize - 1)
        PROVE  hash'[i] = ByteSoFar(i)'
    <3>1. hash[i] = ByteSoFar(i) /\ hash[i] \in Int
      BY <1>1 DEF Collected, InfoTypes
    <3>2. CASE i # pucHash
      <4>1. hash'[i] = hash[i]
        BY <1>1, <2>1, <2>2, <3>2 DEF InfoTypes
      <4>2. (2 * i + 2 <= uiLineSize <=> 2 * i + 2 <= uiLineSize + 1)
            /\ 2 * i + 1 # uiLineSize /\ 2 * i # uiLineSize
        BY <1>3, <2>2, <3>2
      <4>3. QED
        BY <1>2, <1>3, <2>1, <3>1, <4>1, <4>2 DEF ByteSoFar
    <3>3. CASE i = pucHash /\ uiLineSize % 2 = 0
      <4>1. 2 * i = uiLineSize
        BY <1>3, <2>2, <3>3
      <4>2. hash[i] = 0 /\ Shifted(c) = 16 * c /\ c \in Int
        BY <1>3, <1>4, <3>1, <3>3, <4>1 DEF ByteSoFar, Shifted, Hex
      <4>3. hash'[i] = 16 * c
        BY <1>1, <2>1, <2>2, <3>3, <4>2 DEF InfoTypes
      <4>4. QED
        BY <1>2, <1>3, <2>1, <4>1, <4>3 DEF ByteSoFar
    <3>4. CASE i = pucHash /\ uiLineSize % 2 # 0
      <4>1. 2 * i + 1 = uiLineSize
        BY <1>3, <2>2, <3>4
      <4>2. hash[i] = 16 * file[pcCnt + 2 * i + 1] /\ Shifted(c) = c /\ c \in Int
        BY <1>3, <1>4, <3>1, <3>4, <4>1 DEF ByteSoFar, Shifted, Hex
      <4>3. hash'[i] = 16 * file[pcCnt + 2 * i + 1] + c
        BY <1>1, <2>1, <2>2, <3>4, <4>2 DEF InfoTypes
      <4>4. pcCnt + 2 * i + 2 = pcCnt + uiLineSize + 1
        BY <1>3, <4>1
      <4>5. QED
        BY <1>2, <1>3, <2>1, <4>1, <4>3, <4>4 DEF ByteSoFar
    <3>5. QED
      BY <3>2, <3>3, <3>4
  <2>9. Collected'
    BY <1>1, <1>2, <1>3, <2>1, <2>6, <2>7, <2>8 DEF Collected
  <2>10. QED
    BY <1>1, <1>2, <2>1, <2>5, <2>9 DEF InfoInv, Named, ParsesRight
<1>5. CASE c \notin Hex
  <2>1. infoPc' = "end" /\ UNCHANGED <<hash, pucHash, uiLineSize>>
    BY <1>5 DEF Digit
  <2>2. InfoTypes'
    BY <1>1, <1>2, <2>1 DEF InfoTypes
  <2>3. Collected'
    BY <1>1, <1>2, <1>5, <2>1 DEF Collected, ByteSoFar
  <2>4. QED
    BY <1>1, <1>2, <2>1, <2>2, <2>3 DEF InfoInv, Named, ParsesRight
<1>6. QED
  BY <1>4, <1>5

LEMMA InfoVerdictInv == InfoInv /\ InfoVerdict => InfoInv'
<1> SUFFICES ASSUME InfoInv, InfoVerdict PROVE InfoInv'
  OBVIOUS
<1>1. InfoTypes /\ Named /\ IsGap(file, Len(uri), pcCnt) /\ Collected /\ infoPc = "end"
  BY DEF InfoInv, InfoVerdict
<1>2. /\ UNCHANGED <<file, pcCnt, uiLineSize, uri, pucHash, hash>>
      /\ infoPc' = "done" /\ iInfoResult' = Complete
  BY DEF InfoVerdict, Finish
<1>3. iInfoResult' \in BOOLEAN
  BY <1>2 DEF Complete
<1>4. InfoTypes'
  BY <1>1, <1>2, <1>3 DEF InfoTypes
<1>5. CASE Complete
  <2>1. uiLineSize = Digits /\ Digits = 2 * HashSize /\ HashSize \in Nat
    BY <1>5, DigitsAssumption DEF Complete
  <2>2. HoldsHash(file, pcCnt)
    BY <1>1, <2>1 DEF Collected, HoldsHash, InfoTypes
  <2>3. Len(uri) \in 0..Len(file) /\ pcCnt \in 0..Len(file) /\ Len(uri) <= UriSize - 2
    BY <1>1, UriAssumption DEF InfoTypes, Named
  <2>4. Accepted(file, Len(uri), pcCnt)
    BY <1>1, <2>2, <2>3 DEF Accepted, Named, Collected
  <2>5. \A i \in 0..(HashSize - 1) :
           hash[i] = 16 * file[pcCnt + 2 * i + 1] + file[pcCnt + 2 * i + 2]
    BY <1>1, <2>1 DEF Collected, ByteSoFar
  <2>6. uri = SubSeq(file, 1, Len(uri))
    BY <1>1 DEF Named
  <2>7. ParsesRight'
    BY Zenon, <1>2, <1>5, <2>3, <2>4, <2>5, <2>6 DEF ParsesRight
  <2>8. QED
    BY <1>2, <1>4, <2>7 DEF InfoInv
<1>6. CASE ~Complete
  <2>1. uiLineSize + 1 \in 1..Digits /\ file[pcCnt + (uiLineSize + 1)] \notin Hex
    <3>1. uiLineSize \in 0..(Digits - 1) /\ pcCnt \in Nat
      BY <1>1, <1>6, DigitsAssumption DEF Collected, Complete, InfoTypes
    <3>2. pcCnt + (uiLineSize + 1) = pcCnt + uiLineSize + 1
      BY <3>1
    <3>3. QED
      BY <1>1, <1>6, <3>1, <3>2, DigitsAssumption DEF Collected, Complete
  <2>2. ~\E n, h \in 0..Len(file) : Accepted(file, n, h)
    BY <1>1, <2>1, Refused
  <2>3. ParsesRight'
    BY <1>2, <1>6, <2>2 DEF ParsesRight
  <2>4. QED
    BY <1>2, <1>4, <2>3 DEF InfoInv
<1>7. QED
  BY <1>5, <1>6

LEMMA InfoStepInv == InfoInv /\ [InfoNext]_infoVars => InfoInv'
<1>1. ASSUME InfoInv, UNCHANGED infoVars PROVE InfoInv'
  <2>1. UNCHANGED <<file, infoPc, pcCnt, uiLineSize, uri, pucHash, hash, iInfoResult>>
    BY Zenon, <1>1 DEF infoVars
  <2>2. InfoTypes' = InfoTypes
    BY Zenon, <2>1 DEF InfoTypes
  <2>3. Scanned' = Scanned
    BY Zenon, <2>1 DEF Scanned, AtText, AtEnd
  <2>4. Named' = Named
    BY Zenon, <2>1 DEF Named
  <2>5. Collected' = Collected
    BY Zenon, <2>1 DEF Collected, ByteSoFar
  <2>6. ParsesRight' = ParsesRight
    BY <2>1 DEF ParsesRight
  <2> QED BY Zenon, <1>1, <2>1, <2>2, <2>3, <2>4, <2>5, <2>6 DEF InfoInv
<1>2. QED
  BY <1>1, ScanInv, NameInv, SkipInv, ClearInv, DigitInv, InfoVerdictInv DEF InfoNext

\* parseInfoFile never leaves acDataUri, the file or tHash.
THEOREM StaysInBounds == InfoSpec => []InBounds
<1>1. InfoInv => InBounds
  <2> SUFFICES ASSUME InfoInv PROVE InBounds
    OBVIOUS
  <2>1. Len(uri) + 2 <= UriSize
    BY DEF InfoInv, InfoTypes
  <2>2. ASSUME infoPc = "digit" PROVE pcCnt + uiLineSize < Len(file) /\ pucHash < HashSize
    <3>1. Collected /\ uiLineSize < Digits /\ pcCnt \in 0..Len(file) /\ Len(file) \in Nat
      BY <2>2 DEF InfoInv, Collected, InfoTypes
    <3>2. QED
      BY <3>1, DigitsAssumption DEF Collected
  <2>3. QED
    BY <2>1, <2>2 DEF InBounds
<1>2. QED
  BY <1>1, InfoInitInv, InfoStepInv, PTL DEF InfoSpec

\* parseInfoFile accepts exactly the files of the reference definition, and it
\* returns their name and their hash.
THEOREM ParserCorrect == InfoSpec => []ParsesRight
<1>1. InfoInv => ParsesRight
  BY DEF InfoInv
<1>2. QED
  BY <1>1, InfoInitInv, InfoStepInv, PTL DEF InfoSpec

\* The bytes are bytes: each is made of at most two digits.
HashBytes == pucHash \in 0..HashSize /\ hash \in [0..(HashSize - 1) -> 0..255]

LEMMA CollectedBytes == InfoTypes /\ Collected => HashBytes
<1> SUFFICES ASSUME InfoTypes, Collected PROVE HashBytes
  OBVIOUS
<1>1. uiLineSize \in 0..(2 * HashSize) /\ HashSize \in Nat /\ pcCnt \in Nat
  BY DigitsAssumption DEF Collected, InfoTypes
<1>2. pucHash \in 0..HashSize
  BY <1>1 DEF Collected
<1>3. ASSUME NEW i \in 0..(HashSize - 1)
      PROVE  hash[i] \in 0..255
  <2>1. \A j \in 1..uiLineSize : file[pcCnt + j] \in 0..15
    BY DEF Collected, Hex
  <2>2. CASE 2 * i + 2 <= uiLineSize
    <3>1. 2 * i + 1 \in 1..uiLineSize /\ 2 * i + 2 \in 1..uiLineSize
      BY <1>1, <2>2
    <3>2. file[pcCnt + (2 * i + 1)] \in 0..15 /\ file[pcCnt + (2 * i + 2)] \in 0..15
      BY <2>1, <3>1
    <3>3. pcCnt + (2 * i + 1) = pcCnt + 2 * i + 1 /\ pcCnt + (2 * i + 2) = pcCnt + 2 * i + 2
      BY <1>1
    <3>4. hash[i] = 16 * file[pcCnt + 2 * i + 1] + file[pcCnt + 2 * i + 2]
      BY <2>2 DEF Collected, ByteSoFar
    <3>5. QED
      BY <3>2, <3>3, <3>4
  <2>3. CASE ~(2 * i + 2 <= uiLineSize) /\ 2 * i + 1 = uiLineSize
    <3>1. 2 * i + 1 \in 1..uiLineSize
      BY <1>1, <2>3
    <3>2. file[pcCnt + (2 * i + 1)] \in 0..15 /\ pcCnt + (2 * i + 1) = pcCnt + 2 * i + 1
      BY <1>1, <2>1, <3>1
    <3>3. hash[i] = 16 * file[pcCnt + 2 * i + 1]
      BY <2>3 DEF Collected, ByteSoFar
    <3>4. QED
      BY <3>2, <3>3
  <2>4. CASE ~(2 * i + 2 <= uiLineSize) /\ 2 * i + 1 # uiLineSize
    BY <2>4 DEF Collected, ByteSoFar
  <2>5. QED
    BY <2>2, <2>3, <2>4
<1>4. QED
  BY Zenon, <1>2, <1>3 DEF HashBytes, InfoTypes

LEMMA BytesStep == InfoInv /\ HashBytes /\ [InfoNext]_infoVars => HashBytes'
<1> SUFFICES ASSUME InfoInv, HashBytes, [InfoNext]_infoVars PROVE HashBytes'
  OBVIOUS
<1>1. CASE Scan \/ Name \/ Skip \/ InfoVerdict \/ UNCHANGED infoVars
  BY Zenon, <1>1 DEF Scan, Name, Skip, InfoVerdict, infoVars, HashBytes
<1>2. CASE Clear
  BY <1>2, DigitsAssumption DEF Clear, HashBytes
<1>3. CASE Digit
  <2>1. InfoInv' /\ infoPc' \in {"digit", "end"}
    BY <1>3, InfoStepInv DEF Digit
  <2>2. InfoTypes' /\ Collected'
    BY <2>1 DEF InfoInv
  <2>3. QED
    BY <2>2, CollectedBytes, PTL
<1>4. QED
  BY <1>1, <1>2, <1>3 DEF InfoNext

\* What parseInfoFile puts together from the digits are bytes: no or of a digit
\* carries into the next byte.
THEOREM ParserTyped == InfoSpec => []InfoTypeOK
<1>1. InfoInit => HashBytes
  BY DigitsAssumption DEF InfoInit, HashBytes
<1>2. InfoInv /\ HashBytes => InfoTypeOK
  BY Zenon DEF InfoInv, InfoTypes, HashBytes, InfoTypeOK
<1>3. QED
  BY <1>1, <1>2, InfoInitInv, InfoStepInv, BytesStep, PTL DEF InfoSpec

-----------------------------------------------------------------------------
(* Sha384 *)

\* The padded message in bytes.
Padded == ((size * width + 1 + 16 + Block - 1) \div Block) * Block

\* What is still to come: elements of zeros and the two words of the length.
ShaInv ==
    /\ ShaTypeOK
    /\ shaPc = "pad" => fed = size * width
    /\ shaPc = "one" => fed = size * width /\ fed + width + pad * width + 8 = Padded
    /\ shaPc = "zero" => fed + pad * width + 8 = Padded
    /\ shaPc = "length" => fed + 8 = Padded
    /\ shaPc = "last" => fed + 4 = Padded
    /\ shaPc \in {"wait", "done"} => fed = Padded
    /\ shaPc \notin {"pad", "one"} => one = size * width + 1

\* The arithmetic of sha384_finalize_byte
LEMMA Bytes ==
    ASSUME NEW n \in Nat
    PROVE  LET p == n % 128
               z == IF p < 112 THEN 119 - p ELSE 247 - p
           IN  z \in Nat /\ n + 1 + z + 8 = ((n + 144) \div 128) * 128
OBVIOUS

\* and of sha384_finalize.
LEMMA Words ==
    ASSUME NEW n \in Nat
    PROVE  LET p == n % 32
               z == IF p < 28 THEN 29 - p ELSE 61 - p
           IN  z \in Nat /\ n * 4 + 4 + z * 4 + 8 = ((n * 4 + 144) \div 128) * 128
OBVIOUS

LEMMA PadRight ==
    ASSUME ShaTypeOK
    PROVE  LET z == Zeros(size % (Block \div width))
           IN  z \in Nat /\ size * width + width + z * width + 8 = Padded
<1>1. CASE width = 1
  <2>1. /\ 112 \div width = 112 /\ 120 \div width = 120 /\ 248 \div width = 248
        /\ Block \div width = 128 /\ Block = 128
    BY <1>1 DEF Block
  <2>2. QED
    BY <1>1, <2>1, Bytes DEF ShaTypeOK, Zeros, SameBlock, Padded
<1>2. CASE width = 4
  <2>1. /\ 112 \div width = 28 /\ 120 \div width = 30 /\ 248 \div width = 62
        /\ Block \div width = 32 /\ Block = 128
    BY <1>2 DEF Block
  <2>2. QED
    BY <1>2, <2>1, Words DEF ShaTypeOK, Zeros, SameBlock, Padded
<1>3. QED
  BY <1>1, <1>2 DEF ShaTypeOK

LEMMA ShaInitInv == ShaInit => ShaInv
BY SizesAssumption DEF ShaInit, ShaInv, ShaTypeOK

LEMMA ShaStepInv == ShaInv /\ [ShaNext]_shaVars => ShaInv'
<1> SUFFICES ASSUME ShaInv, [ShaNext]_shaVars PROVE ShaInv'
  OBVIOUS
<1>0. ShaTypeOK /\ Padded' = Padded /\ UNCHANGED <<width, size>>
  BY DEF ShaInv, ShaNext, Pad, One, Zero, High, Low, Wait, Padded, shaVars
<1>1. CASE Pad
  <2>1. pad' \in Nat /\ size * width + width + pad' * width + 8 = Padded
    BY <1>0, <1>1, PadRight DEF Pad
  <2>2. QED
    BY <1>0, <1>1, <2>1 DEF ShaInv, ShaTypeOK, Pad
<1>2. CASE One
  <2>1. ready' \in BOOLEAN
    BY <1>2 DEF One, Completes
  <2>2. QED
    BY <1>0, <1>2, <2>1 DEF ShaInv, ShaTypeOK, One, Feed
<1>3. CASE Zero
  <2>1. CASE pad # 0
    <3>1. pad' = pad - 1 /\ fed' = fed + width /\ shaPc' = "zero" /\ one' = one
      BY <1>3, <2>1 DEF Zero, Feed
    <3>2. ready' \in BOOLEAN
      BY Zenon, <1>3, <2>1 DEF Zero, Completes
    <3>3. fed' + pad' * width = fed + pad * width
      BY <1>0, <2>1, <3>1 DEF ShaTypeOK
    <3>4. QED
      BY <1>0, <1>3, <2>1, <3>1, <3>2, <3>3 DEF ShaInv, ShaTypeOK, Zero
  <2>2. CASE pad = 0
    BY <1>0, <1>3, <2>2 DEF ShaInv, ShaTypeOK, Zero
  <2>3. QED
    BY <2>1, <2>2
<1>4. CASE High
  <2>1. ready' \in BOOLEAN
    BY Zenon, <1>4 DEF High
  <2>2. QED
    BY <1>0, <1>4, <2>1 DEF ShaInv, ShaTypeOK, High, Feed
<1>5. CASE Low
  <2>1. ready' \in BOOLEAN
    BY <1>5 DEF Low, Completes
  <2>2. QED
    BY <1>0, <1>5, <2>1 DEF ShaInv, ShaTypeOK, Low, Feed
<1>6. CASE Wait
  BY <1>0, <1>6 DEF ShaInv, ShaTypeOK, Wait
<1>7. CASE UNCHANGED shaVars
  BY <1>0, <1>7 DEF ShaInv, ShaTypeOK, shaVars
<1>8. QED
  BY <1>1, <1>2, <1>3, <1>4, <1>5, <1>6, <1>7 DEF ShaNext

\* The number of padding elements, an unsigned difference, never wraps around.
THEOREM PaddingTyped == ShaSpec => []ShaTypeOK
<1>1. ShaInv => ShaTypeOK
  BY DEF ShaInv
<1>2. QED
  BY <1>1, ShaInitInv, ShaStepInv, PTL DEF ShaSpec

\* sha384_finalize_byte and sha384_finalize pad every message as the standard
\* asks.
THEOREM PaddingCorrect == ShaSpec => []PaddedRight
<1>1. ShaInv => PaddedRight
  BY DEF ShaInv, PaddedRight, Padded
<1>2. QED
  BY <1>1, ShaInitInv, ShaStepInv, PTL DEF ShaSpec
=============================================================================
