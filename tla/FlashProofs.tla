----------------------------- MODULE FlashProofs -----------------------------
(***************************************************************************)
(* Proofs about FlashRecords, for every size of the boot image, every      *)
(* division of it into sectors, and any number of writes and losses of     *)
(* power: what the boot loader starts is whole, and what was reported      *)
(* written is kept.                                                        *)
(*                                                                         *)
(* Both properties look at the flash between two writes.  IInv says how    *)
(* far a write has come in between, by the operations its job still holds. *)
(***************************************************************************)
EXTENDS FlashRecords, TLAPS

Writers == {"fg", "usb"}

BootCells == Images \cup {"factory", "erased", "torn"}
MfgCells == Serials \cup {"calibration", "erased", "torn"}
Records == [ok : BOOLEAN, count : Nat, mode : 0 .. 3]

FlashType ==
  [boot : [1 .. Units -> BootCells], mfg : [1 .. Pages -> MfgCells],
   state : Records]

BootOps ==
  [does : {"erase"}, at : {"boot"}, n : Nat, value : {"none"}]
    \cup [does : {"program"}, at : {"boot"}, n : 1 .. Units, value : Images]
MfgOps ==
  [does : {"erase"}, at : {"mfg"}, n : Nat, value : {"none"}]
    \cup [does : {"program"}, at : {"mfg"}, n : 1 .. Pages, value : MfgCells]
StateOps ==
  [does : {"erase"}, at : {"state"}, n : Nat, value : {"none"}]
    \cup [does : {"program"}, at : {"state"}, n : Nat, value : Records]

AllOps == BootOps \cup MfgOps \cup StateOps

JobType ==
  [ops : Seq(AllOps),
   what : {"none", "mode", "count", "download", "activate", "serial",
           "restore"},
   want : [1 .. Pages -> MfgCells] \cup Seq(Nat)]

ControlType ==
  [count : Nat, mode : 1 .. 3, saved : 1 .. 3, serial : Serials \cup {"default"}]

UpdateType ==
  [started : BOOLEAN, failed : BOOLEAN, valid : BOOLEAN, got : Seq(Images),
   ticks : 0 .. ResetDelay]

(* The ranges of all variables; the module's TypeOK follows but for the    *)
(* length of a download, which is in BootInv.                              *)
Types ==
  /\ on \in BOOLEAN /\ masked \in BOOLEAN /\ torn \subseteq {"state", "mfg"}
  /\ flash \in FlashType /\ control \in ControlType /\ update \in UpdateType
  /\ started \in [serial : BOOLEAN, mfg : BOOLEAN]
  /\ spi \in [frame : BOOLEAN, faulted : BOOLEAN]
  /\ job \in [Writers -> JobType]
  /\ kept \in [state : Records, mfg : [1 .. Pages -> MfgCells]]
  /\ bound \in [starts : Nat, writes : Nat]

-----------------------------------------------------------------------------
(* The inductive invariant.                                                *)

Saves(who) == job[who].what \in {"mode", "count"}
WritesSector == job["usb"].what \in {"serial", "restore"}

(* The operations of a job are in the place of its kind.                   *)
OwnPlace(j) ==
  /\ j.what = "none" => j.ops = <<>>
  /\ j.what \in {"mode", "count"} => \A i \in DOMAIN j.ops : j.ops[i] \in StateOps
  /\ j.what \in {"serial", "restore"} => \A i \in DOMAIN j.ops : j.ops[i] \in MfgOps
  /\ j.what \in {"download", "activate"} => \A i \in DOMAIN j.ops : j.ops[i] \in BootOps

(* One writer at a time, and each in its own place.                        *)
WriterInv ==
  /\ Busy("fg") => masked /\ ~Busy("usb")
  /\ job["fg"].what \in {"none", "mode", "count"}
  /\ \A who \in Writers : OwnPlace(job[who])

(* The record that a save leaves: the last thing it programs.              *)
Leaves(j) == IF j.ops = <<>> THEN flash.state ELSE j.ops[Len(j.ops)].value

ModeOf(r) == IF r.mode = 0 THEN 1 ELSE r.mode

(* A save leaves a record that agrees with what is kept but for the field  *)
(* that it was asked to change.                                            *)
SaveOf(j, r) ==
  /\ j.ops \in {Saving(r), <<ToProgram("state", 1, r)>>, <<>>}
  /\ r \in Records /\ r.ok /\ r.count <= control.count
  /\ j.ops = <<ToProgram("state", 1, r)>> => flash.state = NoRecord
  /\ j.what = "mode" =>
       /\ j.want = <<r.mode>> /\ r.mode # 0
       /\ "state" \notin torn => r = [kept.state EXCEPT !.ok = TRUE, !.mode = r.mode]
  /\ j.what = "count" =>
       /\ j.want = <<r.count>> /\ control.saved = ModeOf(r)
       /\ "state" \notin torn => r = [kept.state EXCEPT !.ok = TRUE, !.count = r.count]

(* Without a save the flash has what is kept, and the dock shows it.       *)
SavedInv ==
  /\ control.saved = ModeOf(flash.state) /\ flash.state.count <= control.count
  /\ "state" \notin torn => flash.state = kept.state

StateInv ==
  /\ flash.state.ok \/ flash.state = NoRecord
  /\ \A who \in Writers : Saves(who) => SaveOf(job[who], Leaves(job[who]))
  /\ ~Saves("fg") /\ ~Saves("usb") => SavedInv

(* The manufacturing sector is as it was kept unless it is being written,  *)
(* and the dock shows the serial number of the last start.                 *)
SectorInv ==
  /\ WritesSector => started.serial \/ started.mfg
  /\ ~WritesSector /\ "mfg" \notin torn => flash.mfg = kept.mfg
  /\ "mfg" \notin torn /\ ~started.serial /\ ~started.mfg =>
       control.serial = rdx_manager_identity_init(flash)

(* The operations that a download of what was got has left: e sectors to   *)
(* erase and then r units to program.                                      *)
Remains(ops, got, e, r) ==
  /\ Len(ops) = e + r
  /\ r # 0 => Len(got) - r >= 2
  /\ e # 0 => Len(got) - r <= 2
  /\ \A i \in 1 .. e : ops[i] = ToErase("boot", Len(Sectors) - e + i)
  /\ \A i \in 1 .. r : ops[e + i] = ToProgram("boot", Len(got) - r + i - 1,
                                              got[Len(got) - r + i])

(* Behind the first unit there is what was got, but for the last r units.  *)
Behind(boot, got, r) ==
  \A u \in 2 .. Units : boot[u] = IF u < Len(got) - r THEN got[u + 1] ELSE "erased"

(* The units that are in the flash then.                                   *)
Holds(boot, got, e, r) ==
  /\ e # 0 => \A s \in 1 .. Len(Sectors) - e : \A u \in Sectors[s] : boot[u] = "erased"
  /\ e = 0 => Behind(boot, got, r)
  /\ e < Len(Sectors) => boot[1] = "erased"

(* From the first erase to the activation there is no first vector word in *)
(* the flash, and what is there beside it is what the host has sent.       *)
BootInv ==
  /\ Len(update.got) <= Units + 1
  /\ update.started => Len(update.got) >= 1
  /\ update.valid => Len(update.got) = Units + 1 /\ ImageValid(update.got)
  /\ job["usb"].what = "download" =>
       \E e \in 0 .. Len(Sectors), r \in 0 .. Units :
         Remains(job["usb"].ops, update.got, e, r) /\ Holds(flash.boot, update.got, e, r)
  /\ job["usb"].what = "activate" =>
       /\ update.started /\ ~update.failed /\ update.valid
       /\ job["usb"].ops \in {rdx_program_flash(1, 1, update.got[2]), <<>>}
  /\ update.started /\ ~update.failed /\ job["usb"].what # "download" =>
       /\ Behind(flash.boot, update.got, 0)
       /\ flash.boot[1] # "erased" => update.valid /\ flash.boot[1] = update.got[2]

IInv ==
  /\ Types /\ WriterInv /\ StateInv /\ SectorInv
  /\ BootsWhole /\ BootInv

-----------------------------------------------------------------------------
(* What the operators of the flash do.                                     *)

(* The constants' assumption in arithmetic.                                *)
LEMMA SizesType ==
  /\ Units \in Nat /\ 2 <= Units /\ Pages \in Nat /\ 1 <= Pages
  /\ ResetDelay \in Nat /\ 1 <= ResetDelay
  /\ Len(Sectors) \in Nat /\ 1 <= Len(Sectors)
  /\ \A s \in 1 .. Len(Sectors) : Sectors[s] \subseteq 1 .. Units
  /\ 1 \in Sectors[1]
<1>1. Sectors \in Seq(SUBSET (1 .. Units))
  BY FlashAssumption
<1>2. Len(Sectors) # 0
  <2> SUFFICES ASSUME Len(Sectors) = 0 PROVE FALSE
    OBVIOUS
  <2>1. DOMAIN Sectors = {}
    BY <1>1
  <2>2. UNION {Sectors[s] : s \in DOMAIN Sectors} = {}
    BY <2>1
  <2>3. QED
    BY <2>2, FlashAssumption
<1>3. QED
  BY <1>1, <1>2, FlashAssumption

(* The sectors cover the image.                                            *)
LEMMA SectorsCover ==
  \A u \in 1 .. Units : \E s \in 1 .. Len(Sectors) : u \in Sectors[s]
<1>1. Sectors \in Seq(SUBSET (1 .. Units))
  BY FlashAssumption
<1>2. DOMAIN Sectors = 1 .. Len(Sectors)
  BY <1>1
<1>3. UNION {Sectors[s] : s \in DOMAIN Sectors} = 1 .. Units
  BY FlashAssumption
<1>4. QED
  BY <1>2, <1>3

(* A job without its first operation.                                      *)
LEMMA TailFacts ==
  ASSUME NEW S, NEW s \in Seq(S), s # <<>>
  PROVE  /\ Head(s) \in S /\ Head(s) = s[1] /\ 1 \in DOMAIN s
         /\ Tail(s) \in Seq(S) /\ Len(Tail(s)) = Len(s) - 1
         /\ Len(s) \in Nat /\ Len(s) >= 1
         /\ \A i \in 1 .. Len(s) - 1 : Tail(s)[i] = s[i + 1]
         /\ DOMAIN Tail(s) = 1 .. Len(s) - 1 /\ DOMAIN s = 1 .. Len(s)
  OBVIOUS

(* Nothing is shorter than one.                                            *)
LEMMA EmptyIsShort ==
  ASSUME NEW S, NEW s \in Seq(S)
  PROVE  s = <<>> <=> Len(s) = 0
  OBVIOUS

(* An erase or program of the boot image.                                  *)
LEMMA DoneBoot ==
  ASSUME NEW f \in FlashType, NEW op \in BootOps
  PROVE  /\ Done(f, op) \in FlashType
         /\ Done(f, op).mfg = f.mfg /\ Done(f, op).state = f.state
         /\ op.does = "erase" => \A u \in 1 .. Units :
              Done(f, op).boot[u] = IF u \in Sectors[op.n] THEN "erased" ELSE f.boot[u]
         /\ op.does = "program" => \A u \in 1 .. Units :
              Done(f, op).boot[u] = IF u = op.n THEN Programmed(f.boot[u], op.value)
                                    ELSE f.boot[u]
<1>1. CASE op.does = "erase"
  BY <1>1 DEF Done, Erase, BootOps, FlashType, BootCells
<1>2. CASE op.does = "program"
  <2>1. op.n \in 1 .. Units /\ op.value \in Images /\ op.at = "boot"
    BY <1>2 DEF BootOps
  <2>2. Programmed(f.boot[op.n], op.value) \in BootCells
    BY <2>1 DEF Programmed, BootCells
  <2> DEFINE b == [f.boot EXCEPT ![op.n] = Programmed(@, op.value)]
  <2>3. /\ b \in [1 .. Units -> BootCells]
        /\ \A n \in 1 .. Units : b[n] = IF n = op.n THEN Programmed(f.boot[n], op.value)
                                      ELSE f.boot[n]
    BY <2>1, <2>2 DEF FlashType
  <2>4. Done(f, op) = [f EXCEPT !.boot = b]
    BY <1>2, <2>1 DEF Done, Program
  <2> HIDE DEF b
  <2>5. QED
    BY <1>2, <2>3, <2>4 DEF FlashType
<1>3. QED
  BY <1>1, <1>2 DEF BootOps

(* An erase or program of the manufacturing sector.                        *)
LEMMA DoneMfg ==
  ASSUME NEW f \in FlashType, NEW op \in MfgOps
  PROVE  /\ Done(f, op) \in FlashType
         /\ Done(f, op).boot = f.boot /\ Done(f, op).state = f.state
<1>1. CASE op.does = "erase"
  BY <1>1 DEF Done, Erase, MfgOps, FlashType, MfgCells
<1>2. CASE op.does = "program"
  <2>1. op.n \in 1 .. Pages /\ op.value \in MfgCells /\ op.at = "mfg"
    BY <1>2 DEF MfgOps
  <2>2. Programmed(f.mfg[op.n], op.value) \in MfgCells
    BY <2>1 DEF Programmed, MfgCells
  <2> DEFINE b == [f.mfg EXCEPT ![op.n] = Programmed(@, op.value)]
  <2>3. /\ b \in [1 .. Pages -> MfgCells]
        /\ \A n \in 1 .. Pages : b[n] = IF n = op.n THEN Programmed(f.mfg[n], op.value)
                                      ELSE f.mfg[n]
    BY <2>1, <2>2 DEF FlashType
  <2>4. Done(f, op) = [f EXCEPT !.mfg = b]
    BY <1>2, <2>1 DEF Done, Program
  <2> HIDE DEF b
  <2>5. QED
    BY <1>2, <2>3, <2>4 DEF FlashType
<1>3. QED
  BY <1>1, <1>2 DEF MfgOps

(* No record is a record of its type.                                      *)
LEMMA NoRecordType == NoRecord \in Records
  BY DEF NoRecord, Records

(* An erase or program of the state record.                                *)
LEMMA DoneState ==
  ASSUME NEW f \in FlashType, NEW op \in StateOps
  PROVE  /\ Done(f, op) \in FlashType
         /\ Done(f, op).boot = f.boot /\ Done(f, op).mfg = f.mfg
         /\ op.does = "erase" => Done(f, op).state = NoRecord
         /\ op.does = "program" =>
              Done(f, op).state = IF f.state = NoRecord THEN op.value ELSE NoRecord
<1>1. CASE op.does = "erase"
  BY <1>1, NoRecordType DEF Done, Erase, StateOps, FlashType
<1>2. CASE op.does = "program"
  BY <1>2, NoRecordType DEF Done, Program, StateOps, FlashType
<1>3. QED
  BY <1>1, <1>2 DEF StateOps

(* An operation that is cut off spoils nothing but its own place.          *)
LEMMA CutOffType ==
  ASSUME NEW f \in FlashType, NEW op \in AllOps
  PROVE  /\ CutOff(f, op) \in FlashType
         /\ op \notin BootOps => CutOff(f, op).boot = f.boot
         /\ op \notin MfgOps => CutOff(f, op).mfg = f.mfg
         /\ op \notin StateOps => CutOff(f, op).state = f.state
<1>1. CASE op \in BootOps
  <2>1. op.at = "boot" /\ op \notin MfgOps /\ op \notin StateOps
    BY <1>1 DEF BootOps, MfgOps, StateOps
  <2>2. QED
    BY <1>1, <2>1 DEF CutOff, FlashType, BootCells
<1>2. CASE op \in MfgOps
  <2>1. op.at = "mfg" /\ op \notin BootOps /\ op \notin StateOps
    BY <1>2 DEF BootOps, MfgOps, StateOps
  <2>2. QED
    BY <1>2, <2>1 DEF CutOff, FlashType, MfgCells
<1>3. CASE op \in StateOps
  <2>1. op.at = "state" /\ op \notin BootOps /\ op \notin MfgOps
    BY <1>3 DEF BootOps, MfgOps, StateOps
  <2>2. QED
    BY <1>3, <2>1, NoRecordType DEF CutOff, FlashType
<1>4. QED
  BY <1>1, <1>2, <1>3 DEF AllOps

(* A record whose erase or program is cut off is none, or as it was.       *)
LEMMA CutOffState ==
  ASSUME NEW f \in FlashType, NEW op \in AllOps
  PROVE  CutOff(f, op).state \in {f.state, NoRecord}
<1>1. CASE op \in StateOps
  <2>1. op.at = "state"
    BY <1>1 DEF StateOps
  <2>2. QED
    BY <2>1 DEF CutOff, FlashType
<1>2. CASE op \notin StateOps
  BY <1>2, CutOffType
<1>3. QED
  BY <1>1, <1>2

(* Half an erase of the first sector, or half the first vector word, is    *)
(* not started from.                                                       *)
LEMMA CutOffBoot ==
  ASSUME NEW f \in FlashType, NEW op \in BootOps
  PROVE  /\ op.does = "erase" => \A u \in 1 .. Units :
              CutOff(f, op).boot[u] = IF u \in Sectors[op.n] THEN "torn" ELSE f.boot[u]
         /\ op.does = "program" => \A u \in 1 .. Units :
              CutOff(f, op).boot[u] = IF u = op.n THEN "torn" ELSE f.boot[u]
<1>1. op.at = "boot"
  BY DEF BootOps
<1>2. QED
  BY <1>1 DEF CutOff, FlashType
-----------------------------------------------------------------------------
(* What the jobs are made of.                                              *)

(* A record by its fields.                                                *)
LEMMA RecordType ==
  ASSUME NEW c \in Nat, NEW m \in 0 .. 3
  PROVE  /\ Record(c, m) \in Records /\ Record(c, m).ok
         /\ Record(c, m).count = c /\ Record(c, m).mode = m
  BY DEF Record, Records

(* The record that a save starts from.                                     *)
LEMMA StateRecordType ==
  ASSUME flash \in FlashType
  PROVE  /\ StateRecord \in Records /\ StateRecord.ok
         /\ flash.state.ok => StateRecord = flash.state
         /\ ~flash.state.ok => StateRecord.count = 0 /\ StateRecord.mode = 0
<1>1. flash.state \in Records
  BY DEF FlashType
<1>2. QED
  BY <1>1, RecordType DEF StateRecord, rdx_control_record_is_valid, Records

(* A save is an erase and a program of the state record.                   *)
LEMMA SavingFacts ==
  ASSUME NEW r \in Records
  PROVE  /\ Saving(r) \in Seq(AllOps) /\ Len(Saving(r)) = 2 /\ Saving(r) # <<>>
         /\ Saving(r)[1] = ToErase("state", 1)
         /\ Saving(r)[2] = ToProgram("state", 1, r)
         /\ ToErase("state", 1) \in StateOps
         /\ ToProgram("state", 1, r) \in StateOps
         /\ \A i \in DOMAIN Saving(r) : Saving(r)[i] \in StateOps
         /\ Tail(Saving(r)) = <<ToProgram("state", 1, r)>>
         /\ Head(Saving(r)) = ToErase("state", 1)
<1>1. /\ ToErase("state", 1) \in StateOps
      /\ ToProgram("state", 1, r) \in StateOps
  BY DEF ToErase, ToProgram, StateOps
<1>2. QED
  BY <1>1 DEF Saving, AllOps

(* A program of consecutive units.                                         *)
LEMMA ProgramFacts ==
  ASSUME NEW first \in 1 .. Units, NEW last \in 0 .. Units, NEW image \in Images
  PROVE  LET ops == rdx_program_flash(first, last, image) IN
         /\ ops \in Seq(AllOps)
         /\ Len(ops) = IF last < first THEN 0 ELSE last - first + 1
         /\ \A i \in 1 .. Len(ops) : /\ ops[i] = ToProgram("boot", first + i - 1, image)
                                     /\ ops[i] \in BootOps
<1> DEFINE n == IF last < first THEN 0 ELSE last - first + 1
<1>1. /\ n \in Nat /\ 1 .. last - first + 1 = 1 .. n
      /\ \A i \in 1 .. n : first + i - 1 \in 1 .. Units
  BY SizesType
<1>2. \A i \in 1 .. n : ToProgram("boot", first + i - 1, image) \in BootOps
  BY <1>1 DEF ToProgram, BootOps
<1>3. rdx_program_flash(first, last, image) =
        [i \in 1 .. n |-> ToProgram("boot", first + i - 1, image)]
  BY <1>1 DEF rdx_program_flash
<1> DEFINE op(i) == ToProgram("boot", first + i - 1, image)
<1>a. \A i \in 1 .. n : op(i) \in AllOps
  BY <1>1, <1>2 DEF AllOps
<1> HIDE DEF n, op
<1>b. [i \in 1 .. n |-> op(i)] \in Seq(AllOps) /\ Len([i \in 1 .. n |-> op(i)]) = n
  BY <1>1, <1>a
<1>4. /\ rdx_program_flash(first, last, image) \in Seq(AllOps)
      /\ Len(rdx_program_flash(first, last, image)) = n
  BY <1>3, <1>b DEF op
<1>5. QED
  BY <1>2, <1>3, <1>4 DEF n

(* The erases of the boot image, from its beginning.                       *)
LEMMA EraseFacts ==
  /\ rdx_erase_boot_image \in Seq(AllOps)
  /\ Len(rdx_erase_boot_image) = Len(Sectors)
  /\ \A i \in 1 .. Len(Sectors) : /\ rdx_erase_boot_image[i] = ToErase("boot", i)
                                  /\ rdx_erase_boot_image[i] \in BootOps
<1>1. DOMAIN Sectors = 1 .. Len(Sectors) /\ Len(Sectors) \in Nat
  BY FlashAssumption
<1>2. \A i \in 1 .. Len(Sectors) : ToErase("boot", i) \in BootOps
  BY <1>1 DEF ToErase, BootOps
<1>3. rdx_erase_boot_image = [i \in 1 .. Len(Sectors) |-> ToErase("boot", i)]
  BY <1>1 DEF rdx_erase_boot_image
<1>4. QED
  BY <1>1, <1>2, <1>3 DEF AllOps

(* A write of the manufacturing sector.                                    *)
LEMMA WritingFacts ==
  ASSUME NEW sector \in [1 .. Pages -> MfgCells], NEW erase \in BOOLEAN,
         NEW pages \in 1 .. Pages, NEW what \in {"serial", "restore"}
  PROVE  /\ Writing(sector, erase, pages, what) \in JobType
         /\ Writing(sector, erase, pages, what).what = what
         /\ Writing(sector, erase, pages, what).want = sector
         /\ LET ops == Writing(sector, erase, pages, what).ops IN
            \A i \in DOMAIN ops : ops[i] \in MfgOps
<1> DEFINE first == IF erase THEN <<ToErase("mfg", 1)>> ELSE <<>>
           rest == [n \in 1 .. pages |-> ToProgram("mfg", n, sector[n])]
<1>1. ToErase("mfg", 1) \in MfgOps
  BY DEF ToErase, MfgOps
<1>2. \A n \in 1 .. pages : n \in 1 .. Pages /\ ToProgram("mfg", n, sector[n]) \in MfgOps
  BY SizesType DEF ToProgram, MfgOps
<1>3. rest \in Seq(MfgOps)
  BY <1>2, SizesType
<1>4. first \in Seq(MfgOps)
  BY <1>1
<1>5. Writing(sector, erase, pages, what) =
        [ops |-> first \o rest, what |-> what, want |-> sector]
  BY DEF Writing
<1> HIDE DEF first, rest
<1>6. first \o rest \in Seq(MfgOps)
  BY <1>3, <1>4
<1>7. first \o rest \in Seq(AllOps) /\ \A i \in DOMAIN (first \o rest) : (first \o rest)[i] \in MfgOps
  BY <1>6 DEF AllOps
<1>8. QED
  BY <1>5, <1>7 DEF JobType

(* No job is a job of its type.                                            *)
LEMMA NoJobType ==
  /\ NoJob \in JobType /\ NoJob.what = "none" /\ NoJob.ops = <<>>
  /\ [who \in {"fg", "usb"} |-> NoJob] \in [Writers -> JobType]
  BY DEF NoJob, JobType, Writers

(* What a start reads from the flash.                                      *)
LEMMA ControlInit ==
  ASSUME NEW f \in FlashType
  PROVE  /\ rdx_manager_control_init(f) \in ControlType
         /\ rdx_manager_control_init(f).serial = rdx_manager_identity_init(f)
         /\ f.state.ok \/ f.state = NoRecord =>
              /\ rdx_manager_control_init(f).saved = ModeOf(f.state)
              /\ rdx_manager_control_init(f).count = f.state.count
<1>1. f.state \in Records
  BY DEF FlashType
<1>2. rdx_manager_identity_init(f) \in Serials \cup {"default"}
  BY DEF rdx_manager_identity_init
<1>3. QED
  BY <1>1, <1>2 DEF rdx_manager_control_init, rdx_control_record_is_valid,
     ControlType, Records, NoRecord, ModeOf

(* The flash after a job is cut off.                                       *)
LEMMA HalfFacts ==
  ASSUME Types, NEW who \in Writers, NEW f \in Half(who)
  PROVE  /\ f \in FlashType
         /\ \/ f = flash
            \/ /\ job[who].ops # <<>> /\ Head(job[who].ops) \in AllOps
               /\ Head(job[who].ops) = job[who].ops[1] /\ 1 \in DOMAIN job[who].ops
               /\ f = CutOff(flash, Head(job[who].ops))
<1>1. job[who] \in JobType /\ flash \in FlashType
  BY DEF Types
<1>2. job[who].ops \in Seq(AllOps)
  BY <1>1 DEF JobType
<1>3. CASE job[who].ops = <<>>
  BY <1>1, <1>3 DEF Half
<1>4. CASE job[who].ops # <<>>
  <2>1. /\ Head(job[who].ops) \in AllOps
        /\ Head(job[who].ops) = job[who].ops[1] /\ 1 \in DOMAIN job[who].ops
    BY <1>2, <1>4, TailFacts
  <2>2. f \in {flash, CutOff(flash, Head(job[who].ops))}
    BY <1>4 DEF Half
  <2>3. CutOff(flash, Head(job[who].ops)) \in FlashType
    BY <1>1, <2>1, CutOffType
  <2>4. QED
    BY <1>1, <1>4, <2>1, <2>2, <2>3
<1>5. QED
  BY <1>3, <1>4
-----------------------------------------------------------------------------
(* One writer's job is changed.                                            *)
LEMMA JobChange ==
  ASSUME NEW js \in [Writers -> JobType], NEW who \in Writers, NEW j \in JobType
  PROVE  /\ [js EXCEPT ![who] = j] \in [Writers -> JobType]
         /\ [js EXCEPT ![who] = j][who] = j
         /\ \A w \in Writers : w # who => [js EXCEPT ![who] = j][w] = js[w]
  OBVIOUS

(* A record with another mode.                                             *)
LEMMA ModeRecord ==
  ASSUME NEW r \in Records, NEW m \in 0 .. 3
  PROVE  /\ [r EXCEPT !.mode = m] \in Records /\ [r EXCEPT !.mode = m].mode = m
         /\ [r EXCEPT !.mode = m].ok = r.ok /\ [r EXCEPT !.mode = m].count = r.count
  BY DEF Records

(* A record with another count.                                            *)
LEMMA CountRecord ==
  ASSUME NEW r \in Records, NEW n \in Nat
  PROVE  /\ [r EXCEPT !.count = n] \in Records /\ [r EXCEPT !.count = n].count = n
         /\ [r EXCEPT !.count = n].ok = r.ok /\ [r EXCEPT !.count = n].mode = r.mode
  BY DEF Records

(* What is kept of a record.                                               *)
LEMMA KeptRecord ==
  ASSUME NEW r \in Records
  PROVE  /\ \A m \in 0 .. 3 : [r EXCEPT !.ok = TRUE, !.mode = m] \in Records
         /\ \A n \in Nat : [r EXCEPT !.ok = TRUE, !.count = n] \in Records
<1>1. TRUE \in BOOLEAN
  OBVIOUS
<1>2. \A m \in 0 .. 3 : [r EXCEPT !.ok = TRUE, !.mode = m] \in Records
  BY <1>1 DEF Records
<1>3. \A n \in Nat : [r EXCEPT !.ok = TRUE, !.count = n] \in Records
  BY <1>1 DEF Records
<1>4. QED
  BY <1>2, <1>3

(* A save is a job of its type.                                            *)
LEMMA SaveJob ==
  ASSUME NEW r \in Records, NEW w \in {"mode", "count"}, NEW n \in Nat
  PROVE  [ops |-> Saving(r), what |-> w, want |-> <<n>>] \in JobType
<1>1. Saving(r) \in Seq(AllOps) /\ <<n>> \in Seq(Nat)
  BY SavingFacts
<1>2. QED
  BY <1>1 DEF JobType

(* No update is an update of its type.                                     *)
LEMMA NoUpdateType == NoUpdate \in UpdateType
<1>1. 0 \in 0 .. ResetDelay /\ <<>> \in Seq(Images)
  BY SizesType
<1>2. QED
  BY <1>1 DEF NoUpdate, UpdateType

(* Two sequences, one after the other.                                     *)
LEMMA ConcatFacts ==
  ASSUME NEW S, NEW a \in Seq(S), NEW b \in Seq(S)
  PROVE  /\ a \o b \in Seq(S) /\ Len(a \o b) = Len(a) + Len(b)
         /\ DOMAIN (a \o b) = 1 .. Len(a) + Len(b)
         /\ \A i \in 1 .. Len(a) : (a \o b)[i] = a[i]
         /\ \A i \in 1 .. Len(b) : (a \o b)[Len(a) + i] = b[i]
  OBVIOUS

(* An operation of a job.                                                  *)
LEMMA FlashStepFacts ==
  ASSUME Types, NEW who \in Writers, FlashStep(who)
  PROVE  /\ job[who].ops \in Seq(AllOps) /\ job[who].ops # <<>>
         /\ Head(job[who].ops) \in AllOps
         /\ Head(job[who].ops) = job[who].ops[1] /\ 1 \in DOMAIN job[who].ops
         /\ job' \in [Writers -> JobType]
         /\ job'[who].ops = Tail(job[who].ops)
         /\ job'[who].what = job[who].what /\ job'[who].want = job[who].want
         /\ \A w \in Writers : w # who => job'[w] = job[w]
<1>1. job \in [Writers -> JobType] /\ job[who] \in JobType
  BY DEF Types
<1>2. job[who].ops \in Seq(AllOps) /\ job[who].ops # <<>>
  BY <1>1 DEF FlashStep, JobType
<1>3. /\ Head(job[who].ops) \in AllOps /\ Tail(job[who].ops) \in Seq(AllOps)
      /\ Head(job[who].ops) = job[who].ops[1] /\ 1 \in DOMAIN job[who].ops
  BY <1>2, TailFacts
<1> DEFINE j == [job[who] EXCEPT !.ops = Tail(@)]
<1>4. /\ j \in JobType /\ j.ops = Tail(job[who].ops)
      /\ j.what = job[who].what /\ j.want = job[who].want
  BY <1>1, <1>3 DEF JobType
<1>5. job' = [job EXCEPT ![who] = j]
  BY DEF FlashStep
<1> HIDE DEF j
<1>6. QED
  BY <1>1, <1>2, <1>3, <1>4, <1>5, JobChange

(* What was downloaded before a chunk, and with it; the sectors that it    *)
(* makes the job erase, and the units that it makes it program.            *)
Before(first) == IF first THEN <<>> ELSE update.got
After(first, n, image) == Before(first) \o [k \in 1 .. n |-> image]
ErasesOf(first) == IF first THEN Len(Sectors) ELSE 0
FirstOf(at) == IF at < 2 THEN 2 ELSE at
ProgramsOf(at, n) == IF at + n - 1 < FirstOf(at) THEN 0 ELSE at + n - FirstOf(at)

Chunk(ops, e, from, r, image) ==
  /\ Len(ops) = e + r /\ DOMAIN ops = 1 .. e + r
  /\ \A i \in 1 .. e : ops[i] = ToErase("boot", i) /\ ops[i] \in BootOps
  /\ \A i \in 1 .. r : /\ ops[e + i] = ToProgram("boot", from + i - 1, image)
                       /\ ops[e + i] \in BootOps

(* What a chunk of a download brings, and the job that it leaves.          *)
LEMMA DownloadFacts ==
  ASSUME Types, BootInv, NEW first \in BOOLEAN, NEW n \in 1 .. 2, NEW image \in Images,
         Download(first, n, image)
  PROVE  /\ update' \in UpdateType /\ job' \in [Writers -> JobType]
         /\ job["usb"].what = "none" /\ job'["fg"] = job["fg"]
         /\ Len(Before(first)) \in Nat /\ Len(Before(first)) + n <= Units + 1
         /\ ~first => update.started /\ ~update.failed
         /\ \/ /\ job' = job /\ update'.failed /\ update'.got = Before(first)
               /\ update'.valid => ~first /\ update.valid
               /\ update'.started => ~first
            \/ /\ job'["usb"].what = "download" /\ update'.started
               /\ update'.got = After(first, n, image)
               /\ Len(update'.got) = Len(Before(first)) + n
               /\ \A i \in 1 .. n : update'.got[Len(Before(first)) + i] = image
               /\ \A i \in 1 .. Len(Before(first)) : update'.got[i] = Before(first)[i]
               /\ update'.valid => Len(update'.got) = Units + 1 /\ ImageValid(update'.got)
               /\ Chunk(job'["usb"].ops, ErasesOf(first), FirstOf(Len(Before(first))),
                        ProgramsOf(Len(Before(first)), n), image)
<1> DEFINE u == IF first THEN rdx_begin_update ELSE update
           got0 == Before(first)
           at == Len(got0)
           chunk == [k \in 1 .. n |-> image]
           got == After(first, n, image)
           e == ErasesOf(first)
           from == FirstOf(at)
           r == ProgramsOf(at, n)
           erases == IF first THEN rdx_erase_boot_image ELSE <<>>
           programs == rdx_program_flash(from, at + n - 1, image)
           ops == erases \o programs
           whole == Len(got) = Units + 1
<1>0. /\ update \in UpdateType /\ job \in [Writers -> JobType]
      /\ "usb" \in Writers /\ "fg" \in Writers
  BY DEF Types, Writers
<1>1. /\ u \in UpdateType /\ u.got = got0 /\ u.started = (first \/ update.started)
      /\ u.failed = (~first /\ update.failed) /\ u.valid = (~first /\ update.valid)
  <2>1. CASE first
    <3>1. NoUpdate \in UpdateType
      BY NoUpdateType
    <3>2. rdx_begin_update = [NoUpdate EXCEPT !.started = TRUE, !.ticks = update.ticks]
      BY DEF rdx_begin_update
    <3>3. update.ticks \in 0 .. ResetDelay
      BY <1>0 DEF UpdateType
    <3>4. [NoUpdate EXCEPT !.ticks = update.ticks] \in UpdateType
      BY <3>1, <3>3 DEF UpdateType
    <3>5. rdx_begin_update \in UpdateType
      BY <3>2, <3>4 DEF UpdateType, NoUpdate
    <3>6. QED
      BY <2>1, <3>2, <3>5 DEF NoUpdate, Before
  <2>2. CASE ~first
    BY <1>0, <2>2 DEF UpdateType, Before
  <2>3. QED
    BY <2>1, <2>2
<1>2. /\ got0 \in Seq(Images) /\ at \in Nat
      /\ chunk \in Seq(Images) /\ Len(chunk) = n /\ \A k \in 1 .. n : chunk[k] = image
  BY <1>0 DEF UpdateType, Before
<1>3. /\ got \in Seq(Images) /\ Len(got) = at + n
      /\ \A i \in 1 .. n : got[at + i] = image
      /\ \A i \in 1 .. at : got[i] = got0[i]
  <2>1. got = got0 \o chunk
    BY DEF After
  <2> HIDE DEF got0, chunk, got
  <2>2. QED
    BY <1>2, <2>1, ConcatFacts
<1>4. /\ Busy("usb") = FALSE /\ at + n <= Units + 1 /\ u.started /\ ~u.failed
  BY <1>1 DEF Download, UsbRuns
<1>5. rdx_program_container_payload(at, n, image) = programs
  BY DEF rdx_program_container_payload, FirstOf
<1>6. /\ \/ /\ update' = [u EXCEPT !.got = got, !.valid = whole /\ ImageValid(got),
                                   !.failed = whole /\ ~ImageValid(got)]
            /\ job' = [job EXCEPT !["usb"] = [ops |-> ops, what |-> "download", want |-> <<>>]]
         \/ /\ update' = [u EXCEPT !.failed = TRUE, !.started = ~first]
            /\ job' = job
  <2>1. \/ /\ update' = [u EXCEPT !.got = u.got \o chunk,
                                  !.valid = /\ Len(u.got \o chunk) = Units + 1
                                            /\ ImageValid(u.got \o chunk),
                                  !.failed = /\ Len(u.got \o chunk) = Units + 1
                                             /\ ~ImageValid(u.got \o chunk)]
           /\ job' = [job EXCEPT !["usb"] =
                        [ops |-> erases \o rdx_program_container_payload(Len(u.got), n, image),
                         what |-> "download", want |-> <<>>]]
        \/ /\ update' = [u EXCEPT !.failed = TRUE, !.started = ~first]
           /\ job' = job
    BY DEF Download
  <2>2. u.got = got0
    BY <1>1
  <2>3. got = got0 \o chunk
    BY DEF After
  <2> HIDE DEF u, got0, chunk, programs, erases, got
  <2>4. QED
    BY <1>5, <2>1, <2>2, <2>3
<1>7. /\ from \in 1 .. Units /\ at + n - 1 \in 0 .. Units /\ r \in Nat /\ e \in Nat
      /\ r = IF at + n - 1 < from THEN 0 ELSE at + n - 1 - from + 1
  <2> HIDE DEF got0
  <2>1. QED
    BY <1>2, <1>4, SizesType DEF FirstOf, ProgramsOf, ErasesOf
<1> HIDE DEF from, r, e
<1>8. /\ programs \in Seq(AllOps) /\ Len(programs) = r
      /\ \A i \in 1 .. r : /\ programs[i] = ToProgram("boot", from + i - 1, image)
                           /\ programs[i] \in BootOps
  <2>1. PICK last \in 0 .. Units : last = at + n - 1
    BY <1>7
  <2>2. programs = rdx_program_flash(from, last, image)
    BY <2>1
  <2>3. r = IF last < from THEN 0 ELSE last - from + 1
    <3>1. from \in Nat /\ at \in Nat
      BY <1>2, <1>7
    <3> HIDE DEF at, programs
    <3>2. QED
      BY <1>7, <2>1, <3>1
  <2> HIDE DEF at, programs
  <2>4. QED
    BY <1>7, <2>2, <2>3, ProgramFacts
<1>9. /\ erases \in Seq(AllOps) /\ Len(erases) = e
      /\ \A i \in 1 .. e : /\ erases[i] = ToErase("boot", i)
                           /\ erases[i] \in BootOps
  BY EraseFacts DEF e, ErasesOf
<1> HIDE DEF programs, erases
<1>10. /\ ops \in Seq(AllOps) /\ Len(ops) = e + r /\ DOMAIN ops = 1 .. e + r
       /\ \A i \in 1 .. e : ops[i] = erases[i]
       /\ \A i \in 1 .. r : ops[e + i] = programs[i]
  <2>1. /\ ops \in Seq(AllOps) /\ Len(ops) = Len(erases) + Len(programs)
        /\ DOMAIN ops = 1 .. Len(erases) + Len(programs)
        /\ \A i \in 1 .. Len(erases) : ops[i] = erases[i]
        /\ \A i \in 1 .. Len(programs) : ops[Len(erases) + i] = programs[i]
    BY <1>8, <1>9, ConcatFacts
  <2> HIDE DEF ops
  <2>2. QED
    BY <1>8, <1>9, <2>1
<1> HIDE DEF ops, got, u
<1>11. CASE /\ update' = [u EXCEPT !.got = got, !.valid = whole /\ ImageValid(got),
                                   !.failed = whole /\ ~ImageValid(got)]
            /\ job' = [job EXCEPT !["usb"] = [ops |-> ops, what |-> "download", want |-> <<>>]]
  <2>1. PICK v \in BOOLEAN, f \in BOOLEAN :
          v = (whole /\ ImageValid(got)) /\ f = (whole /\ ~ImageValid(got))
    OBVIOUS
  <2>2. update' = [u EXCEPT !.got = got, !.valid = v, !.failed = f]
    BY <1>11, <2>1
  <2>3. /\ update' \in UpdateType /\ update'.got = got /\ update'.valid = v
        /\ update'.started = u.started
    BY <1>1, <1>3, <2>2 DEF UpdateType
  <2>4. [ops |-> ops, what |-> "download", want |-> <<>>] \in JobType
    BY <1>10 DEF JobType
  <2>5. /\ job' \in [Writers -> JobType] /\ job'["usb"].ops = ops
        /\ job'["usb"].what = "download" /\ job'["fg"] = job["fg"]
    BY <1>0, <1>11, <2>4
  <2>6. update'.valid => Len(got) = Units + 1 /\ ImageValid(got)
    BY <2>1, <2>3
  <2>7. Chunk(ops, e, from, r, image)
    BY <1>8, <1>9, <1>10 DEF Chunk
  <2>8. job["usb"].what = "none"
    BY <1>4 DEF Busy
  <2>9. ~first => update.started /\ ~update.failed
    BY <1>1, <1>4
  <2>10. QED
    BY <1>2, <1>3, <1>4, <2>3, <2>5, <2>6, <2>7, <2>8, <2>9 DEF got, e, from, r
<1>12. CASE /\ update' = [u EXCEPT !.failed = TRUE, !.started = ~first]
            /\ job' = job
  <2>1. PICK s \in BOOLEAN : s = ~first
    OBVIOUS
  <2>2. update' = [u EXCEPT !.failed = TRUE, !.started = s]
    BY <1>12, <2>1
  <2>3. /\ update' \in UpdateType /\ update'.failed /\ update'.started = s
        /\ update'.got = u.got /\ update'.valid = u.valid
    BY <1>1, <2>2 DEF UpdateType
  <2>4. /\ update'.got = got0
        /\ update'.started => ~first
        /\ update'.valid => ~first /\ update.valid
    BY <1>1, <2>1, <2>3
  <2>5. job["usb"].what = "none" /\ (~first => update.started /\ ~update.failed)
    BY <1>1, <1>4 DEF Busy
  <2>6. Len(Before(first)) \in Nat /\ Len(Before(first)) + n <= Units + 1
    BY <1>2, <1>4
  <2>7. job' \in [Writers -> JobType] /\ job'["fg"] = job["fg"]
    BY <1>0, <1>12
  <2>8. job' = job
    BY <1>12
  <2>9. QED
    BY <2>3, <2>4, <2>5, <2>6, <2>7, <2>8
<1>13. QED
  BY <1>6, <1>11, <1>12

(* The end of a job keeps the types.                                       *)
LEMMA JobEndsType ==
  ASSUME Types, BootInv, StateInv, NEW who \in Writers, JobEnds(who)
  PROVE  Types'
<1>0. job[who] \in JobType /\ kept \in [state : Records, mfg : [1 .. Pages -> MfgCells]]
  BY DEF Types
<1>1. job' \in [Writers -> JobType] /\ masked' \in BOOLEAN
  BY NoJobType DEF JobEnds, Types
<1>2. UNCHANGED <<on, flash, started, spi, bound>>
  BY DEF JobEnds
<1>3. /\ control' \in ControlType /\ update' \in UpdateType
      /\ kept' \in [state : Records, mfg : [1 .. Pages -> MfgCells]]
      /\ torn' \subseteq {"state", "mfg"}
  <2>1. CASE job[who].what = "mode"
    <3> DEFINE r == Leaves(job[who])
    <3>0. r \in Records /\ r.mode # 0 /\ job[who].want = <<r.mode>>
      BY <2>1 DEF StateInv, SaveOf, Saves
    <3> HIDE DEF r
    <3>1. PICK m \in 1 .. 3 : job[who].want[1] = m
      BY <3>0 DEF Records
    <3>2. control' \in ControlType /\ UNCHANGED update /\ torn' \subseteq torn
      <4>1. control' = [control EXCEPT !.saved = m] /\ UNCHANGED update /\ torn' = torn \ {"state"}
        BY <2>1, <3>1 DEF JobEnds, Reported
      <4>2. [control EXCEPT !.saved = m] \in ControlType
        BY DEF Types, ControlType
      <4>3. torn \ {"state"} \subseteq torn
        OBVIOUS
      <4>4. torn' \subseteq torn
        BY <4>1, <4>3
      <4>5. control' \in ControlType
        BY <4>1, <4>2
      <4>6. QED
        BY <4>1, <4>4, <4>5
    <3>3. [kept.state EXCEPT !.ok = TRUE, !.mode = m] \in Records /\ flash.state \in Records
      <4>1. kept.state \in Records /\ flash.state \in Records
        BY <1>0 DEF Types, FlashType
      <4>2. m \in 0 .. 3
        OBVIOUS
      <4>3. QED
        BY <4>1, <4>2, KeptRecord
    <3>4. /\ kept' = [kept EXCEPT !.state = kept'.state]
          /\ kept'.state \in {flash.state, [kept.state EXCEPT !.ok = TRUE, !.mode = m]}
      BY <1>0, <2>1, <3>1 DEF JobEnds, Reported, SavedAs
    <3>5. kept'.state \in Records
      BY <3>3, <3>4
    <3>6. kept' \in [state : Records, mfg : [1 .. Pages -> MfgCells]]
      BY <1>0, <3>4, <3>5
    <3>7. QED
      BY <3>2, <3>6 DEF Types
  <2>2. CASE job[who].what = "count"
    <3> DEFINE r == Leaves(job[who])
    <3>0. r \in Records /\ job[who].want = <<r.count>>
      BY <2>2 DEF StateInv, SaveOf, Saves
    <3> HIDE DEF r
    <3>1. PICK n \in Nat : job[who].want[1] = n
      BY <3>0 DEF Records
    <3>2. UNCHANGED <<control, update>> /\ torn' \subseteq torn
      BY <2>2 DEF JobEnds, Reported
    <3>3. [kept.state EXCEPT !.ok = TRUE, !.count = n] \in Records /\ flash.state \in Records
      <4>1. kept.state \in Records /\ flash.state \in Records
        BY <1>0 DEF Types, FlashType
      <4>2. QED
        BY <4>1, KeptRecord
    <3>4. /\ kept' = [kept EXCEPT !.state = kept'.state]
          /\ kept'.state \in {flash.state, [kept.state EXCEPT !.ok = TRUE, !.count = n]}
      BY <1>0, <2>2, <3>1 DEF JobEnds, Reported, SavedAs
    <3>5. kept'.state \in Records
      BY <3>3, <3>4
    <3>6. kept' \in [state : Records, mfg : [1 .. Pages -> MfgCells]]
      BY <1>0, <3>4, <3>5
    <3>7. QED
      BY <3>2, <3>6 DEF Types
  <2>3. CASE job[who].what = "activate"
    <3>1. UNCHANGED <<control, kept, torn>> /\ update' = [update EXCEPT !.ticks = ResetDelay]
      BY <2>3 DEF JobEnds, Reported
    <3>2. update' \in UpdateType
      <4>1. ResetDelay \in 0 .. ResetDelay
        BY SizesType
      <4>2. update \in UpdateType
        BY DEF Types
      <4>3. QED
        BY <3>1, <4>1, <4>2 DEF UpdateType
    <3>3. QED
      BY <3>1, <3>2 DEF Types
  <2>4. CASE job[who].what = "download"
    BY <2>4 DEF JobEnds, Reported, Types
  <2>5. CASE job[who].what \in {"none", "serial", "restore"}
    <3>1. /\ kept' = [kept EXCEPT !.mfg = IF flash.mfg = job[who].want THEN job[who].want ELSE @]
          /\ torn' \in {torn \ {"mfg"}, torn \cup {"mfg"}}
          /\ UNCHANGED <<control, update>>
      BY <2>5 DEF JobEnds, Reported
    <3>2. flash.mfg \in [1 .. Pages -> MfgCells]
      BY DEF Types, FlashType
    <3>3. QED
      BY <1>0, <3>1, <3>2 DEF Types
  <2>6. QED
    BY <1>0, <2>1, <2>2, <2>3, <2>4, <2>5 DEF JobType
<1>4. QED
  BY <1>1, <1>2, <1>3 DEF Types

(* What a start does.                                                      *)
LEMMA RestartFacts ==
  ASSUME Types, Restart
  PROVE  /\ flash' \in Half(IF Busy("usb") THEN "usb" ELSE "fg")
         /\ on' = Boots(flash') /\ control' = rdx_manager_control_init(flash')
         /\ update' = NoUpdate
         /\ started' = [serial |-> FALSE, mfg |-> FALSE]
         /\ spi' = [frame |-> FALSE, faulted |-> FALSE]
         /\ job' = [w \in {"fg", "usb"} |-> NoJob] /\ masked' = FALSE
         /\ kept' = kept /\ torn' = torn \cup CutOffPlaces
         /\ bound' = [bound EXCEPT !.starts = @ + 1]
  BY DEF Restart, rdx_manager_protocol_init

(* A start keeps the types.                                                *)
LEMMA RestartType ==
  ASSUME Types, Restart
  PROVE  Types'
<1>1. flash' \in FlashType
  BY RestartFacts, HalfFacts DEF Writers
<1>2. control' \in ControlType
  BY <1>1, RestartFacts, ControlInit
<1>3. update' \in UpdateType
  BY RestartFacts, NoUpdateType
<1>4. job' \in [Writers -> JobType] /\ masked' \in BOOLEAN
  BY RestartFacts, NoJobType
<1>5. torn' \subseteq {"state", "mfg"}
  <2>1. CutOffPlaces \subseteq {"state", "mfg"}
    BY DEF CutOffPlaces
  <2>2. QED
    BY <2>1 DEF Restart, Types
<1>6. on' \in BOOLEAN
  <2>1. Boots(flash') \in BOOLEAN
    BY DEF Boots
  <2>2. on' = Boots(flash')
    BY RestartFacts
  <2>3. QED
    BY <2>1, <2>2
<1>7. /\ started' \in [serial : BOOLEAN, mfg : BOOLEAN]
      /\ spi' \in [frame : BOOLEAN, faulted : BOOLEAN]
  BY DEF Restart, rdx_manager_protocol_init
<1>8. /\ bound' \in [starts : Nat, writes : Nat]
      /\ kept' \in [state : Records, mfg : [1 .. Pages -> MfgCells]]
  BY DEF Restart, Types
<1>9. QED
  BY <1>1, <1>2, <1>3, <1>4, <1>5, <1>6, <1>7, <1>8 DEF Types

(* Every step keeps the types.                                             *)
LEMMA TypesStep ==
  ASSUME Types, BootInv, StateInv, [Next]_vars
  PROVE  Types'
<1>0. /\ on \in BOOLEAN /\ masked \in BOOLEAN /\ torn \subseteq {"state", "mfg"}
      /\ flash \in FlashType /\ control \in ControlType /\ update \in UpdateType
      /\ started \in [serial : BOOLEAN, mfg : BOOLEAN]
      /\ spi \in [frame : BOOLEAN, faulted : BOOLEAN]
      /\ job \in [Writers -> JobType]
      /\ kept \in [state : Records, mfg : [1 .. Pages -> MfgCells]]
      /\ bound \in [starts : Nat, writes : Nat]
  BY DEF Types
<1> USE <1>0
<1>b. [bound EXCEPT !.writes = @ + 1] \in [starts : Nat, writes : Nat]
  OBVIOUS
<1>c. [bound EXCEPT !.starts = @ + 1] \in [starts : Nat, writes : Nat]
  OBVIOUS
<1>w. "fg" \in Writers /\ "usb" \in Writers
  BY DEF Writers
<1>1. CASE rdx_mcp3008_read_channel
  <2>1. spi' \in [frame : BOOLEAN, faulted : BOOLEAN]
    BY <1>1 DEF rdx_mcp3008_read_channel
  <2>2. QED
    BY <1>1, <2>1 DEF rdx_mcp3008_read_channel, Types
<1>2. CASE rdx_manager_increment_drive_load_count
  <2>1. control.count + 1 \in Nat /\ control' \in ControlType
    BY <1>2 DEF rdx_manager_increment_drive_load_count, ControlType
  <2>2. job' \in [Writers -> JobType] /\ masked' \in BOOLEAN
    <3>1. CASE SpiOps("fg")
      <4>0. PICK n \in Nat : n = control.count + 1
        BY <2>1
      <4> DEFINE r == [StateRecord EXCEPT !.count = n]
      <4>1. [ops |-> Saving(r), what |-> "count", want |-> <<n>>] \in JobType
        <5>1. r \in Records
          BY StateRecordType, CountRecord
        <5> HIDE DEF r
        <5>2. QED
          BY <5>1, SaveJob
      <4>2. QED
        BY <1>2, <1>w, <3>1, <4>0, <4>1 DEF rdx_manager_increment_drive_load_count,
           rdx_control_save_drive_load_count
    <3>2. CASE ~SpiOps("fg")
      BY <1>2, <3>2 DEF rdx_manager_increment_drive_load_count
    <3>3. QED
      BY <3>1, <3>2
  <2>3. QED
    BY <1>2, <1>b, <2>1, <2>2 DEF rdx_manager_increment_drive_load_count, Write, Types
<1>3. CASE \E m \in Modes : rdx_manager_set_button_operation_mode(m)
  <2>1. PICK m \in 1 .. 3 : rdx_manager_set_button_operation_mode(m)
    BY <1>3 DEF rdx_manager_set_button_operation_mode
  <2>2. control' \in ControlType
    BY <2>1 DEF rdx_manager_set_button_operation_mode, ControlType
  <2>3. job' \in [Writers -> JobType] /\ masked' \in BOOLEAN
    <3>1. CASE SpiOps("fg")
      <4> DEFINE r == [StateRecord EXCEPT !.mode = m]
      <4>1. [ops |-> Saving(r), what |-> "mode", want |-> <<m>>] \in JobType
        <5>0. m \in Nat /\ m \in 0 .. 3
          OBVIOUS
        <5>1. r \in Records
          BY <5>0, StateRecordType, ModeRecord
        <5> HIDE DEF r
        <5>2. QED
          BY <5>0, <5>1, SaveJob
      <4>2. QED
        BY <1>w, <2>1, <3>1, <4>1 DEF rdx_manager_set_button_operation_mode,
           rdx_control_save_operation_mode
    <3>2. CASE ~SpiOps("fg")
      BY <2>1, <3>2 DEF rdx_manager_set_button_operation_mode
    <3>3. QED
      BY <3>1, <3>2
  <2>4. QED
    BY <1>b, <2>1, <2>2, <2>3 DEF rdx_manager_set_button_operation_mode, Write, Types
<1>4. CASE \E m \in Modes, save \in BOOLEAN : rdx_control_apply_mode_page(m, save)
  <2>1. PICK mode \in Modes, save \in BOOLEAN : rdx_control_apply_mode_page(mode, save)
    BY <1>4
  <2>2. PICK m \in 1 .. 3 : m = IF mode = 0 THEN 1 ELSE mode
    BY FlashAssumption
  <2>3. control' \in ControlType
    BY <2>1, <2>2 DEF rdx_control_apply_mode_page, ControlType
  <2>4. job' \in [Writers -> JobType] /\ masked' \in BOOLEAN
    <3>1. CASE save /\ SpiOps("usb")
      <4> DEFINE r == [StateRecord EXCEPT !.mode = m]
      <4>1. [ops |-> Saving(r), what |-> "mode", want |-> <<m>>] \in JobType
        <5>0. m \in Nat /\ m \in 0 .. 3
          OBVIOUS
        <5>1. r \in Records
          BY <5>0, StateRecordType, ModeRecord
        <5> HIDE DEF r
        <5>2. QED
          BY <5>0, <5>1, SaveJob
      <4>2. QED
        BY <1>w, <2>1, <2>2, <3>1, <4>1 DEF rdx_control_apply_mode_page,
           rdx_control_save_operation_mode
    <3>2. CASE ~(save /\ SpiOps("usb"))
      BY <2>1, <3>2 DEF rdx_control_apply_mode_page
    <3>3. QED
      BY <3>1, <3>2
  <2>5. QED
    BY <1>b, <2>1, <2>3, <2>4 DEF rdx_control_apply_mode_page, Write, Types
<1>5. CASE \E first \in BOOLEAN, n \in 1 .. 2, image \in Images : Download(first, n, image)
  <2>1. PICK first \in BOOLEAN, n \in 1 .. 2, image \in Images : Download(first, n, image)
    BY <1>5
  <2>2. update' \in UpdateType /\ job' \in [Writers -> JobType]
    BY <2>1, DownloadFacts
  <2>3. QED
    BY <1>b, <2>1, <2>2 DEF Download, Write, Types
<1>6. CASE Activate
  <2>1. update.got[2] \in Images
    BY <1>6, SizesType DEF Activate, BootInv, UpdateType
  <2>2. [ops |-> rdx_program_flash(1, 1, update.got[2]), what |-> "activate",
         want |-> <<>>] \in JobType
    BY <2>1, ProgramFacts, SizesType DEF JobType
  <2>3. job' \in [Writers -> JobType]
    BY <1>6, <1>w, <2>2 DEF Activate
  <2>4. QED
    BY <1>6, <1>b, <2>3 DEF Activate, Write, Types
<1>7. CASE \E s \in Serials, fallback \in BOOLEAN : rdx_manager_serial_write(s, fallback)
  <2>1. PICK s \in Serials, fallback \in BOOLEAN : rdx_manager_serial_write(s, fallback)
    BY <1>7
  <2> DEFINE sector == [flash.mfg EXCEPT ![1] = s]
  <2>2. sector \in [1 .. Pages -> MfgCells]
    BY DEF FlashType, MfgCells
  <2> HIDE DEF sector
  <2>3. PICK pages \in 1 .. Pages : pages = IF fallback THEN 1 ELSE Pages
    BY SizesType
  <2>4. Writing(sector, ~fallback, pages, "serial") \in JobType
    <3>1. PICK erase \in BOOLEAN : erase = ~fallback
      OBVIOUS
    <3>2. Writing(sector, erase, pages, "serial") \in JobType
      BY <2>2, WritingFacts
    <3>3. QED
      BY <3>1, <3>2
  <2>5. job' \in [Writers -> JobType]
    BY <1>w, <2>1, <2>3, <2>4 DEF rdx_manager_serial_write, sector
  <2>6. started' \in [serial : BOOLEAN, mfg : BOOLEAN]
    BY <2>1 DEF rdx_manager_serial_write
  <2>7. QED
    BY <1>b, <2>1, <2>5, <2>6 DEF rdx_manager_serial_write, Write, Types
<1>8. CASE \E s \in Serials : rdx_manager_handle_manufacturing(s)
  <2>1. PICK s \in Serials : rdx_manager_handle_manufacturing(s)
    BY <1>8
  <2> DEFINE sector == [flash.mfg EXCEPT ![1] = s]
  <2>2. sector \in [1 .. Pages -> MfgCells]
    BY DEF FlashType, MfgCells
  <2> HIDE DEF sector
  <2>3. Writing(sector, TRUE, Pages, "restore") \in JobType
    <3>1. Pages \in 1 .. Pages /\ TRUE \in BOOLEAN /\ "restore" \in {"serial", "restore"}
      BY SizesType
    <3>2. QED
      BY <2>2, <3>1, WritingFacts
  <2>4. job' \in [Writers -> JobType]
    BY <1>w, <2>1, <2>3 DEF rdx_manager_handle_manufacturing, rdx_mfg_restore_locked, sector
  <2>5. /\ started' \in [serial : BOOLEAN, mfg : BOOLEAN]
        /\ spi' \in [frame : BOOLEAN, faulted : BOOLEAN]
    BY <2>1 DEF rdx_manager_handle_manufacturing, rdx_mfg_restore_locked
  <2>6. QED
    BY <1>b, <2>1, <2>4, <2>5 DEF rdx_manager_handle_manufacturing, Write, Types
<1>9. CASE \E who \in Writers : FlashStep(who)
  <2>1. PICK who \in Writers : FlashStep(who)
    BY <1>9
  <2>2. job' \in [Writers -> JobType] /\ Head(job[who].ops) \in AllOps
    BY <2>1, FlashStepFacts
  <2>3. flash' \in FlashType
    BY <2>1, <2>2, DoneBoot, DoneMfg, DoneState DEF FlashStep, AllOps
  <2>4. UNCHANGED <<on, control, update, started, spi, masked, kept, torn, bound>>
    BY <2>1 DEF FlashStep
  <2>5. QED
    BY <2>2, <2>3, <2>4 DEF Types
<1>10. CASE \E who \in Writers : JobEnds(who)
  BY <1>10, JobEndsType
<1>11. CASE SpiOpsBounded
  <2>1. job["usb"].ops \in Seq(AllOps)
    BY <1>11, <1>w DEF SpiOpsBounded, JobType
  <2>2. job["usb"].ops # <<>> => Head(job["usb"].ops) \in AllOps
    BY <2>1, TailFacts
  <2>3. flash' \in FlashType
    BY <1>11, <2>2, DoneBoot, DoneMfg, DoneState, CutOffType DEF SpiOpsBounded, AllOps
  <2>4. job' \in [Writers -> JobType]
    BY <1>11, <1>w, NoJobType DEF SpiOpsBounded
  <2>5. spi' \in [frame : BOOLEAN, faulted : BOOLEAN] /\ torn' \subseteq {"state", "mfg"}
    BY <1>11 DEF SpiOpsBounded
  <2>6. UNCHANGED <<on, control, update, started, masked, kept, bound>>
    BY <1>11 DEF SpiOpsBounded
  <2>7. QED
    BY <2>3, <2>4, <2>5, <2>6 DEF Types
<1>12. CASE Restart
  BY <1>12, RestartType
<1>13. CASE rdx_manager_protocol_tick /\ ~Restart
  <2>1. update' \in UpdateType
    <3>1. update' = [update EXCEPT !.ticks = @ - 1] /\ update.ticks > 0
      BY <1>13 DEF rdx_manager_protocol_tick
    <3>2. PICK t \in 0 .. ResetDelay : t = update.ticks - 1
      BY <3>1, SizesType DEF UpdateType
    <3>3. update' = [update EXCEPT !.ticks = t]
      BY <3>1, <3>2 DEF UpdateType
    <3>4. QED
      BY <3>3 DEF UpdateType
  <2>2. QED
    BY <1>13, <2>1 DEF rdx_manager_protocol_tick, Types
<1>14. CASE UNCHANGED vars
  BY <1>14 DEF vars, Types
<1>15. QED
  BY <1>1, <1>2, <1>3, <1>4, <1>5, <1>6, <1>7, <1>8, <1>9, <1>10, <1>11, <1>12,
     <1>13, <1>14 DEF Next, Writers, rdx_manager_handle_write_buffer, PowerLoss,
     rdx_manager_protocol_tick, rdx_manager_handle_send_diagnostic

-----------------------------------------------------------------------------
(* What the operations do, as far as the invariant tells it apart.         *)

AtRest == ~Busy("fg") /\ ~Busy("usb")

SaveOfRecord(what, r, n) == [ops |-> Saving(r), what |-> what, want |-> <<n>>]

(* Whoever runs finds no write underway but its own.                       *)
LEMMA RunsAtRest ==
  ASSUME WriterInv
  PROVE  /\ UsbRuns => AtRest
         /\ ForegroundRuns /\ ~Busy("fg") => AtRest
  BY DEF WriterInv, UsbRuns, ForegroundRuns, AtRest

(* The load count goes up, and is saved or not.                            *)
CountSaves ==
  /\ AtRest /\ UNCHANGED <<flash, update, started, kept, torn>>
  /\ control'.saved = control.saved /\ control'.serial = control.serial
  /\ control'.count = control.count + 1
  /\ \/ UNCHANGED <<job, masked>>
     \/ /\ job' = [job EXCEPT !["fg"] = SaveOfRecord("count",
                     [StateRecord EXCEPT !.count = control.count + 1], control.count + 1)]
        /\ masked'

(* A mode is taken on, and saved or not.                                   *)
ModeSaves(who, m) ==
  /\ AtRest /\ UNCHANGED <<flash, update, started, kept, torn>>
  /\ control'.saved = control.saved /\ control'.serial = control.serial
  /\ control'.count = control.count
  /\ \/ UNCHANGED <<job, masked>>
     \/ /\ job' = [job EXCEPT ![who] =
                     SaveOfRecord("mode", [StateRecord EXCEPT !.mode = m], m)]
        /\ who = "fg" => masked'

(* A write of the manufacturing sector begins, or no more than that it may *)
(* have begun is known.                                                    *)
SectorWrites ==
  /\ AtRest /\ UNCHANGED <<flash, control, update, masked, kept, torn>>
  /\ started'.serial \/ started'.mfg \/ UNCHANGED <<job, started>>
  /\ \/ UNCHANGED job
     \/ \E sector \in [1 .. Pages -> MfgCells], erase \in BOOLEAN, pages \in 1 .. Pages,
           what \in {"serial", "restore"} :
          job' = [job EXCEPT !["usb"] = Writing(sector, erase, pages, what)]

(* The eject's count.                                                      *)
LEMMA CountFacts ==
  ASSUME Types, WriterInv, rdx_manager_increment_drive_load_count
  PROVE  CountSaves
<1>1. AtRest
  BY RunsAtRest DEF rdx_manager_increment_drive_load_count
<1>2. /\ control'.saved = control.saved /\ control'.serial = control.serial
      /\ control'.count = control.count + 1
  BY DEF rdx_manager_increment_drive_load_count, Types, ControlType
<1>3. \/ UNCHANGED <<job, masked>>
      \/ /\ job' = [job EXCEPT !["fg"] = SaveOfRecord("count",
                      [StateRecord EXCEPT !.count = control.count + 1], control.count + 1)]
         /\ masked'
  BY DEF rdx_manager_increment_drive_load_count, rdx_control_save_drive_load_count,
     SaveOfRecord
<1>4. UNCHANGED <<flash, update, started, kept, torn>>
  BY DEF rdx_manager_increment_drive_load_count
<1>5. QED
  BY <1>1, <1>2, <1>3, <1>4 DEF CountSaves

(* The hidden button's mode.                                               *)
LEMMA ButtonFacts ==
  ASSUME Types, WriterInv, NEW m \in Modes, rdx_manager_set_button_operation_mode(m)
  PROVE  m \in 1 .. 3 /\ ModeSaves("fg", m)
<1>1. AtRest /\ m \in 1 .. 3
  BY RunsAtRest DEF rdx_manager_set_button_operation_mode
<1>2. /\ control'.saved = control.saved /\ control'.serial = control.serial
      /\ control'.count = control.count
  BY DEF rdx_manager_set_button_operation_mode, Types, ControlType
<1>3. \/ UNCHANGED <<job, masked>>
      \/ /\ job' = [job EXCEPT !["fg"] =
                      SaveOfRecord("mode", [StateRecord EXCEPT !.mode = m], m)]
         /\ masked'
  BY DEF rdx_manager_set_button_operation_mode, rdx_control_save_operation_mode,
     SaveOfRecord
<1>4. UNCHANGED <<flash, update, started, kept, torn>>
  BY DEF rdx_manager_set_button_operation_mode
<1>5. QED
  BY <1>1, <1>2, <1>3, <1>4 DEF ModeSaves

(* The host's mode page.                                                   *)
LEMMA PageFacts ==
  ASSUME Types, WriterInv, NEW mode \in Modes, NEW save \in BOOLEAN,
         rdx_control_apply_mode_page(mode, save)
  PROVE  \E m \in 1 .. 3 : ModeSaves("usb", m)
<1>1. AtRest
  BY RunsAtRest DEF rdx_control_apply_mode_page
<1>2. PICK m \in 1 .. 3 : m = IF mode = 0 THEN 1 ELSE mode
  BY FlashAssumption
<1>3. /\ control'.saved = control.saved /\ control'.serial = control.serial
      /\ control'.count = control.count
  BY DEF rdx_control_apply_mode_page, Types, ControlType
<1>4. \/ UNCHANGED <<job, masked>>
      \/ /\ job' = [job EXCEPT !["usb"] =
                      SaveOfRecord("mode", [StateRecord EXCEPT !.mode = m], m)]
         /\ "usb" = "fg" => masked'
  BY <1>2 DEF rdx_control_apply_mode_page, rdx_control_save_operation_mode, SaveOfRecord
<1>5. UNCHANGED <<flash, update, started, kept, torn>>
  BY DEF rdx_control_apply_mode_page
<1>6. QED
  BY <1>1, <1>3, <1>4, <1>5 DEF ModeSaves

(* The serial utility's write.                                             *)
LEMMA SerialFacts ==
  ASSUME Types, WriterInv, NEW s \in Serials, NEW fallback \in BOOLEAN,
         rdx_manager_serial_write(s, fallback)
  PROVE  SectorWrites
<1> DEFINE sector == [flash.mfg EXCEPT ![1] = s]
<1>1. AtRest
  BY RunsAtRest DEF rdx_manager_serial_write
<1>2. sector \in [1 .. Pages -> MfgCells]
  BY DEF Types, FlashType, MfgCells
<1>3. PICK pages \in 1 .. Pages : pages = IF fallback THEN 1 ELSE Pages
  BY SizesType
<1>4. PICK erase \in BOOLEAN : erase = ~fallback
  OBVIOUS
<1>5. job' = [job EXCEPT !["usb"] = Writing(sector, erase, pages, "serial")]
  BY <1>3, <1>4 DEF rdx_manager_serial_write
<1>6. UNCHANGED <<flash, control, update, masked, kept, torn>>
  BY DEF rdx_manager_serial_write
<1>7. started'.serial
  BY DEF rdx_manager_serial_write, Types
<1> HIDE DEF sector
<1>8. QED
  BY <1>1, <1>2, <1>5, <1>6, <1>7 DEF SectorWrites

(* The restore's write.                                                    *)
LEMMA RestoreFacts ==
  ASSUME Types, WriterInv, NEW s \in Serials, rdx_manager_handle_manufacturing(s)
  PROVE  SectorWrites
<1> DEFINE sector == [flash.mfg EXCEPT ![1] = s]
<1>1. AtRest
  BY RunsAtRest DEF rdx_manager_handle_manufacturing
<1>2. sector \in [1 .. Pages -> MfgCells]
  BY DEF Types, FlashType, MfgCells
<1>3. \/ UNCHANGED job
      \/ job' = [job EXCEPT !["usb"] = Writing(sector, TRUE, Pages, "restore")]
  BY DEF rdx_manager_handle_manufacturing, rdx_mfg_restore_locked
<1>4. UNCHANGED <<flash, control, update, masked, kept, torn>>
  BY DEF rdx_manager_handle_manufacturing
<1>5. started'.mfg \/ UNCHANGED <<job, started>>
  BY DEF rdx_manager_handle_manufacturing, rdx_mfg_restore_locked, Types
<1>6. Pages \in 1 .. Pages /\ TRUE \in BOOLEAN
  BY SizesType
<1> HIDE DEF sector
<1>7. QED
  BY <1>1, <1>2, <1>3, <1>4, <1>5, <1>6 DEF SectorWrites

(* The steps there are.                                                    *)
LEMMA StepKinds ==
  ASSUME Types, WriterInv, [Next]_vars
  PROVE  \/ rdx_mcp3008_read_channel \/ rdx_manager_increment_drive_load_count
         \/ \E who \in Writers, m \in 1 .. 3 : ModeSaves(who, m)
         \/ \E first \in BOOLEAN, n \in 1 .. 2, image \in Images : Download(first, n, image)
         \/ Activate \/ SectorWrites
         \/ \E who \in Writers : FlashStep(who)
         \/ \E who \in Writers : JobEnds(who)
         \/ SpiOpsBounded \/ Restart
         \/ rdx_manager_protocol_tick /\ ~Restart
         \/ UNCHANGED vars
<1>0. "fg" \in Writers /\ "usb" \in Writers
  BY DEF Writers
<1>1. ASSUME NEW m \in Modes, rdx_manager_set_button_operation_mode(m)
      PROVE  \E who \in Writers, k \in 1 .. 3 : ModeSaves(who, k)
  BY <1>0, <1>1, ButtonFacts
<1>2. ASSUME NEW m \in Modes, NEW save \in BOOLEAN, rdx_control_apply_mode_page(m, save)
      PROVE  \E who \in Writers, k \in 1 .. 3 : ModeSaves(who, k)
  BY <1>0, <1>2, PageFacts
<1>3. ASSUME NEW s \in Serials, NEW fallback \in BOOLEAN, rdx_manager_serial_write(s, fallback)
      PROVE  SectorWrites
  BY <1>3, SerialFacts
<1>4. ASSUME NEW s \in Serials, rdx_manager_handle_manufacturing(s)
      PROVE  SectorWrites
  BY <1>4, RestoreFacts
<1>5. QED
  BY <1>1, <1>2, <1>3, <1>4 DEF Next, Writers, rdx_manager_handle_write_buffer, PowerLoss,
     rdx_manager_protocol_tick, rdx_manager_handle_send_diagnostic

(* The one program of an activation.                                       *)
LEMMA ActivateFacts ==
  ASSUME NEW image \in Images
  PROVE  LET ops == rdx_program_flash(1, 1, image) IN
         /\ ops \in Seq(AllOps) /\ Len(ops) = 1 /\ DOMAIN ops = {1}
         /\ ops[1] = ToProgram("boot", 1, image) /\ ops[1] \in BootOps
         /\ Tail(ops) = <<>>
<1> DEFINE ops == rdx_program_flash(1, 1, image)
<1>1. 1 \in 1 .. Units /\ 1 \in 0 .. Units
  BY SizesType
<1>2. /\ ops \in Seq(AllOps) /\ Len(ops) = IF 1 < 1 THEN 0 ELSE 1 - 1 + 1
      /\ \A i \in 1 .. Len(ops) : /\ ops[i] = ToProgram("boot", 1 + i - 1, image)
                                  /\ ops[i] \in BootOps
  BY <1>1, ProgramFacts
<1> HIDE DEF ops
<1>3. Len(ops) = 1
  BY <1>2
<1>4. /\ ops[1] = ToProgram("boot", 1, image) /\ ops[1] \in BootOps
  BY <1>2, <1>3
<1>5. DOMAIN ops = {1} /\ Tail(ops) = <<>>
  <2>0. ops \in Seq(AllOps)
    BY <1>2
  <2>1. ops # <<>>
    BY <1>3, <2>0
  <2>2. /\ Tail(ops) \in Seq(AllOps) /\ Len(Tail(ops)) = Len(ops) - 1
        /\ DOMAIN ops = 1 .. Len(ops)
    BY <2>0, <2>1, TailFacts
  <2>3. Tail(ops) = <<>>
    <3> DEFINE t == Tail(ops)
    <3>1. t \in Seq(AllOps) /\ Len(t) = 0
      BY <1>3, <2>2
    <3> HIDE DEF t
    <3>2. t = <<>>
      BY <3>1, EmptyIsShort
    <3>3. QED
      BY <3>2 DEF t
  <2>4. QED
    BY <1>3, <2>2, <2>3
<1>6. QED
  BY <1>2, <1>3, <1>4, <1>5 DEF ops

(* A chunk's operations are all the boot image's.                          *)
LEMMA ChunkOps ==
  ASSUME NEW ops, NEW e \in Nat, NEW from \in Nat, NEW r \in Nat, NEW image,
         Chunk(ops, e, from, r, image)
  PROVE  \A i \in DOMAIN ops : ops[i] \in BootOps
<1>1. TAKE i \in DOMAIN ops
<1>2. CASE i <= e
  BY <1>2 DEF Chunk
<1>3. CASE ~(i <= e)
  <2>0. DOMAIN ops = 1 .. e + r
    BY DEF Chunk
  <2>1. PICK k \in 1 .. r : i = e + k
    <3>1. i - e \in 1 .. r /\ i = e + (i - e)
      BY <1>3, <2>0
    <3>2. QED
      BY <3>1
  <2>2. QED
    BY <2>1 DEF Chunk
<1>4. QED
  BY <1>2, <1>3

(* The numbers of a chunk's operations.                                    *)
LEMMA ChunkSizes ==
  ASSUME NEW first \in BOOLEAN, NEW n \in 1 .. 2, Len(Before(first)) \in Nat
  PROVE  /\ ErasesOf(first) \in Nat /\ FirstOf(Len(Before(first))) \in Nat
         /\ ProgramsOf(Len(Before(first)), n) \in Nat
<1> DEFINE at == Len(Before(first))
<1>1. at \in Nat
  OBVIOUS
<1> HIDE DEF at
<1>2. FirstOf(at) \in Nat /\ ProgramsOf(at, n) \in Nat
  BY <1>1 DEF FirstOf, ProgramsOf
<1>3. QED
  BY <1>2, SizesType DEF at, ErasesOf

-----------------------------------------------------------------------------
(* The writers.                                                            *)

(* A writer's job is changed, and the other is at rest.                    *)
LEMMA WriterJob ==
  ASSUME WriterInv, job \in [Writers -> JobType], NEW who \in Writers, NEW j,
         job' = [job EXCEPT ![who] = j], OwnPlace(j),
         who = "fg" => /\ j.what \in {"none", "mode", "count"}
                       /\ j.what # "none" => masked' /\ ~Busy("usb"),
         who = "usb" => ~Busy("fg")
  PROVE  WriterInv'
<1>1. CASE who = "fg"
  <2>1. job'["fg"] = j /\ job'["usb"] = job["usb"]
    BY <1>1 DEF Writers
  <2>2. QED
    BY <1>1, <2>1 DEF WriterInv, Busy, Writers
<1>2. CASE who = "usb"
  <2>1. job'["usb"] = j /\ job'["fg"] = job["fg"]
    BY <1>2 DEF Writers
  <2>2. QED
    BY <1>2, <2>1 DEF WriterInv, Busy, Writers
<1>3. QED
  BY <1>1, <1>2 DEF Writers

(* A save, and a write of the manufacturing sector, stay in their places.  *)
LEMMA PlacesOfJobs ==
  /\ \A r \in Records, n \in Nat, what \in {"mode", "count"} :
       OwnPlace(SaveOfRecord(what, r, n))
  /\ \A sector \in [1 .. Pages -> MfgCells], erase \in BOOLEAN, pages \in 1 .. Pages,
        what \in {"serial", "restore"} : OwnPlace(Writing(sector, erase, pages, what))
  /\ OwnPlace(NoJob)
<1>1. ASSUME NEW r \in Records, NEW n \in Nat, NEW what \in {"mode", "count"}
      PROVE  OwnPlace(SaveOfRecord(what, r, n))
  BY SavingFacts DEF OwnPlace, SaveOfRecord
<1>2. ASSUME NEW sector \in [1 .. Pages -> MfgCells], NEW erase \in BOOLEAN,
             NEW pages \in 1 .. Pages, NEW what \in {"serial", "restore"}
      PROVE  OwnPlace(Writing(sector, erase, pages, what))
  BY WritingFacts DEF OwnPlace
<1>3. OwnPlace(NoJob)
  BY NoJobType DEF OwnPlace
<1>4. QED
  BY <1>1, <1>2, <1>3

(* The records that saves begin with.                                      *)
LEMMA SavedRecords ==
  ASSUME Types
  PROVE  /\ [StateRecord EXCEPT !.count = control.count + 1] \in Records
         /\ control.count + 1 \in Nat
         /\ \A m \in 1 .. 3 : [StateRecord EXCEPT !.mode = m] \in Records
<1>1. flash \in FlashType /\ control.count \in Nat
  BY DEF Types, ControlType
<1>2. PICK n \in Nat : n = control.count + 1
  BY <1>1
<1>3. [StateRecord EXCEPT !.count = n] \in Records
  BY <1>1, StateRecordType, CountRecord
<1>4. \A m \in 1 .. 3 : [StateRecord EXCEPT !.mode = m] \in Records
  <2>1. TAKE m \in 1 .. 3
  <2>2. m \in 0 .. 3
    OBVIOUS
  <2>3. QED
    BY <1>1, <2>2, StateRecordType, ModeRecord
<1>5. QED
  BY <1>1, <1>2, <1>3, <1>4

(* Every step leaves one writer at a time, in its own place.               *)
LEMMA WriterStep ==
  ASSUME Types, WriterInv, BootInv, [Next]_vars
  PROVE  WriterInv'
<1>0. job \in [Writers -> JobType] /\ "fg" \in Writers /\ "usb" \in Writers
  BY DEF Types, Writers
<1>f. ASSUME UNCHANGED <<job, masked>> PROVE WriterInv'
  BY <1>f DEF WriterInv, Busy, OwnPlace
<1>1. CASE rdx_mcp3008_read_channel
  BY <1>1, <1>f DEF rdx_mcp3008_read_channel
<1>2. CASE rdx_manager_increment_drive_load_count
  <2> DEFINE r == [StateRecord EXCEPT !.count = control.count + 1]
             j == SaveOfRecord("count", r, control.count + 1)
  <2>1. CountSaves
    BY <1>2, CountFacts
  <2>2. OwnPlace(j) /\ j.what = "count"
    BY SavedRecords, PlacesOfJobs DEF SaveOfRecord
  <2>3. \/ UNCHANGED <<job, masked>>
        \/ job' = [job EXCEPT !["fg"] = j] /\ masked' /\ ~Busy("usb")
    BY <2>1 DEF CountSaves, AtRest
  <2> HIDE DEF j
  <2>4. QED
    BY <1>0, <1>f, <2>2, <2>3, WriterJob
<1>3. ASSUME NEW who \in Writers, NEW m \in 1 .. 3, ModeSaves(who, m) PROVE WriterInv'
  <2> DEFINE r == [StateRecord EXCEPT !.mode = m]
             j == SaveOfRecord("mode", r, m)
  <2>1. OwnPlace(j) /\ j.what = "mode"
    <3>1. r \in Records /\ m \in Nat /\ "mode" \in {"mode", "count"}
      BY SavedRecords
    <3> HIDE DEF r
    <3>2. QED
      BY <3>1, PlacesOfJobs DEF SaveOfRecord
  <2>2. \/ UNCHANGED <<job, masked>>
        \/ job' = [job EXCEPT ![who] = j] /\ (who = "fg" => masked')
    BY <1>3 DEF ModeSaves
  <2>3. ~Busy("fg") /\ ~Busy("usb")
    BY <1>3 DEF ModeSaves, AtRest
  <2> HIDE DEF j
  <2>4. QED
    BY <1>0, <1>f, <2>1, <2>2, <2>3, WriterJob
<1>4. CASE \E first \in BOOLEAN, n \in 1 .. 2, image \in Images : Download(first, n, image)
  <2>1. PICK first \in BOOLEAN, n \in 1 .. 2, image \in Images : Download(first, n, image)
    BY <1>4
  <2>2. AtRest /\ masked' = masked
    BY <2>1, RunsAtRest DEF Download
  <2>3. CASE job' = job
    BY <1>f, <2>2, <2>3
  <2>4. CASE job'["usb"].what = "download"
    <3>1. job'["fg"] = job["fg"] /\ OwnPlace(job'["usb"])
      <4>1. job'["fg"] = job["fg"]
        BY <2>1, DownloadFacts
      <4>2. \/ job' = job
            \/ Chunk(job'["usb"].ops, ErasesOf(first), FirstOf(Len(Before(first))),
                     ProgramsOf(Len(Before(first)), n), image)
        BY <2>1, DownloadFacts
      <4>3. job' # job
        BY <2>2, <2>4 DEF AtRest, Busy
      <4>4. \A i \in DOMAIN job'["usb"].ops : job'["usb"].ops[i] \in BootOps
        BY <2>1, <4>2, <4>3, ChunkSizes, ChunkOps, DownloadFacts
      <4>5. QED
        BY <2>4, <4>1, <4>4 DEF OwnPlace
    <3>2. QED
      BY <2>2, <3>1 DEF WriterInv, AtRest, Busy, Writers
  <2>5. QED
    BY <2>1, <2>3, <2>4, DownloadFacts
<1>5. CASE Activate
  <2> DEFINE j == [ops |-> rdx_program_flash(1, 1, update.got[2]), what |-> "activate",
                   want |-> <<>>]
  <2>1. update.got[2] \in Images
    BY <1>5, SizesType DEF Activate, BootInv, Types, UpdateType
  <2>2. OwnPlace(j)
    BY <2>1, ActivateFacts DEF OwnPlace
  <2>3. job' = [job EXCEPT !["usb"] = j]
    BY <1>5 DEF Activate
  <2>4. ~Busy("fg")
    BY <1>5, RunsAtRest DEF Activate, AtRest
  <2> HIDE DEF j
  <2>5. QED
    BY <1>0, <2>2, <2>3, <2>4, WriterJob
<1>6. CASE SectorWrites
  <2>1. CASE UNCHANGED job
    BY <1>6, <1>f, <2>1 DEF SectorWrites
  <2>2. CASE \E sector \in [1 .. Pages -> MfgCells], erase \in BOOLEAN, pages \in 1 .. Pages,
                what \in {"serial", "restore"} :
               job' = [job EXCEPT !["usb"] = Writing(sector, erase, pages, what)]
    <3>1. PICK j : OwnPlace(j) /\ job' = [job EXCEPT !["usb"] = j]
      BY <2>2, PlacesOfJobs
    <3>2. ~Busy("fg")
      BY <1>6 DEF SectorWrites, AtRest
    <3>3. QED
      BY <1>0, <3>1, <3>2, WriterJob
  <2>3. QED
    BY <1>6, <2>1, <2>2 DEF SectorWrites
<1>7. CASE \E who \in Writers : FlashStep(who)
  <2>1. PICK who \in Writers : FlashStep(who)
    BY <1>7
  <2>2. /\ job[who].ops # <<>> /\ job[who].ops \in Seq(AllOps)
        /\ job'[who].ops = Tail(job[who].ops) /\ job'[who].what = job[who].what
        /\ \A w \in Writers : w # who => job'[w] = job[w]
    BY <2>1, FlashStepFacts
  <2>3. masked' = masked
    BY <2>1 DEF FlashStep
  <2>4. OwnPlace(job[who])
    BY DEF WriterInv
  <2>5. OwnPlace(job'[who])
    <3> DEFINE ops == job[who].ops
    <3>1. /\ DOMAIN Tail(ops) = 1 .. Len(ops) - 1 /\ DOMAIN ops = 1 .. Len(ops)
          /\ Len(ops) \in Nat
          /\ \A i \in 1 .. Len(ops) - 1 : Tail(ops)[i] = ops[i + 1]
      BY <2>2, TailFacts
    <3>2. \A i \in DOMAIN Tail(ops) : \E k \in DOMAIN ops : Tail(ops)[i] = ops[k]
      <4> HIDE DEF ops
      <4>1. TAKE i \in DOMAIN Tail(ops)
      <4>2. i \in 1 .. Len(ops) - 1 /\ i + 1 \in DOMAIN ops
        BY <3>1
      <4>3. QED
        BY <3>1, <4>2
    <3>3. job[who].what # "none"
      BY <2>2, <2>4 DEF OwnPlace
    <3>4. QED
      BY <2>2, <2>4, <3>2, <3>3 DEF OwnPlace
  <2>6. \A w \in Writers : job'[w].what = job[w].what /\ OwnPlace(job'[w])
    BY <2>2, <2>5 DEF WriterInv
  <2>7. QED
    BY <1>0, <2>3, <2>6 DEF WriterInv, Busy
<1>8. ASSUME NEW who \in Writers, Busy(who), job' = [job EXCEPT ![who] = NoJob],
             who = "usb" => masked' = masked
      PROVE  WriterInv'
  <2>1. who = "usb" => ~Busy("fg")
    BY <1>8 DEF WriterInv
  <2>2. QED
    BY <1>0, <1>8, <2>1, NoJobType, PlacesOfJobs, WriterJob
<1>9. CASE \E who \in Writers : JobEnds(who)
  <2>1. PICK who \in Writers : JobEnds(who)
    BY <1>9
  <2>2. /\ job' = [job EXCEPT ![who] = NoJob] /\ Busy(who)
        /\ masked' = (masked /\ who # "fg")
    BY <2>1 DEF JobEnds, Runs
  <2>3. who = "usb" => masked' = masked
    BY <2>2 DEF Types
  <2>4. QED
    BY <1>8, <2>2, <2>3
<1>10. CASE SpiOpsBounded
  BY <1>0, <1>8, <1>10 DEF SpiOpsBounded, Runs
<1>11. CASE Restart
  <2>1. job'["fg"] = NoJob /\ job'["usb"] = NoJob
    BY <1>11, RestartFacts
  <2>2. QED
    BY <2>1, NoJobType, PlacesOfJobs DEF WriterInv, Busy, Writers
<1>12. CASE rdx_manager_protocol_tick /\ ~Restart
  BY <1>12, <1>f DEF rdx_manager_protocol_tick
<1>13. CASE UNCHANGED vars
  BY <1>13, <1>f DEF vars
<1>14. QED
  BY StepKinds, <1>0, <1>1, <1>2, <1>3, <1>4, <1>5, <1>6, <1>7, <1>9, <1>10, <1>11,
     <1>12, <1>13

-----------------------------------------------------------------------------
(* The state record.                                                       *)

(* A record is its fields.                                                 *)
LEMMA SameRecord ==
  ASSUME NEW r \in Records, NEW s \in Records, r.ok = s.ok, r.count = s.count, r.mode = s.mode
  PROVE  r = s
  BY DEF Records

(* Two changes of a record, one after the other, are both.                 *)
LEMMA KeptFields ==
  ASSUME NEW r \in Records
  PROVE  /\ [r EXCEPT !.ok = TRUE] \in Records
         /\ [r EXCEPT !.ok = TRUE].ok
         /\ [r EXCEPT !.ok = TRUE].count = r.count /\ [r EXCEPT !.ok = TRUE].mode = r.mode
         /\ \A m \in 0 .. 3 : [[r EXCEPT !.ok = TRUE] EXCEPT !.mode = m] =
                              [r EXCEPT !.ok = TRUE, !.mode = m]
         /\ \A n \in Nat : [[r EXCEPT !.ok = TRUE] EXCEPT !.count = n] =
                           [r EXCEPT !.ok = TRUE, !.count = n]
<1>1. TRUE \in BOOLEAN
  OBVIOUS
<1>2. [r EXCEPT !.ok = TRUE] \in Records
  BY <1>1 DEF Records
<1>3. /\ [r EXCEPT !.ok = TRUE].ok
      /\ [r EXCEPT !.ok = TRUE].count = r.count /\ [r EXCEPT !.ok = TRUE].mode = r.mode
  BY <1>1 DEF Records
<1>4. \A m \in 0 .. 3 : [[r EXCEPT !.ok = TRUE] EXCEPT !.mode = m] =
                        [r EXCEPT !.ok = TRUE, !.mode = m]
  OBVIOUS
<1>5. \A n \in Nat : [[r EXCEPT !.ok = TRUE] EXCEPT !.count = n] =
                     [r EXCEPT !.ok = TRUE, !.count = n]
  OBVIOUS
<1>6. QED
  BY <1>2, <1>3, <1>4, <1>5

(* The record that the next save starts from is the one that is kept.      *)
LEMMA StateRecordKept ==
  ASSUME Types, StateInv, SavedInv
  PROVE  /\ StateRecord \in Records /\ StateRecord.ok
         /\ ModeOf(StateRecord) = control.saved /\ StateRecord.count <= control.count
         /\ "state" \notin torn => StateRecord = [kept.state EXCEPT !.ok = TRUE]
<1>1. flash \in FlashType /\ flash.state \in Records /\ kept.state \in Records
  BY DEF Types, FlashType
<1>2. StateRecord \in Records /\ StateRecord.ok
  BY <1>1, StateRecordType
<1>3. StateRecord.count = flash.state.count /\ StateRecord.mode = flash.state.mode
  BY <1>1, StateRecordType DEF StateInv, NoRecord
<1>4. ModeOf(StateRecord) = control.saved /\ StateRecord.count <= control.count
  BY <1>3 DEF SavedInv, ModeOf
<1>5. ASSUME "state" \notin torn PROVE StateRecord = [kept.state EXCEPT !.ok = TRUE]
  <2>1. flash.state = kept.state
    BY <1>5 DEF SavedInv
  <2> DEFINE k == [kept.state EXCEPT !.ok = TRUE]
  <2>2. k \in Records /\ k.ok /\ k.count = kept.state.count /\ k.mode = kept.state.mode
    BY <1>1, KeptFields
  <2> HIDE DEF k
  <2>3. StateRecord.ok = TRUE /\ k.ok = TRUE
    BY <1>2, <2>2 DEF Records
  <2>4. StateRecord = k
    BY <1>2, <1>3, <2>1, <2>2, <2>3, SameRecord
  <2>5. QED
    BY <2>4 DEF k
<1>6. QED
  BY <1>2, <1>4, <1>5

(* Who does not touch the record, keeps it.                                *)
LEMMA StateFrame ==
  ASSUME Types, StateInv, flash'.state = flash.state, control'.saved = control.saved,
         control.count \in Nat, control'.count \in Nat, control.count <= control'.count,
         kept'.state = kept.state, "state" \in torn' <=> "state" \in torn,
         \A who \in Writers : Saves(who) => Saves(who)' /\ job'[who] = job[who],
         \A who \in Writers : Saves(who)' => Saves(who)
  PROVE  StateInv'
<1>1. (flash.state.ok \/ flash.state = NoRecord)'
  BY DEF StateInv
<1>2. ASSUME NEW who \in Writers, Saves(who)'
      PROVE  SaveOf(job[who], Leaves(job[who]))'
  <2>1. Saves(who) /\ job'[who] = job[who] /\ SaveOf(job[who], Leaves(job[who]))
    BY <1>2 DEF StateInv
  <2>2. Leaves(job[who])' = Leaves(job[who])
    BY <2>1 DEF Leaves
  <2> DEFINE r == Leaves(job[who])
             j == job[who]
  <2>3. r \in Records /\ r.count \in Nat
    BY <2>1 DEF SaveOf, Records
  <2>4. r.count <= control'.count
    BY <2>1, <2>3 DEF SaveOf, Records
  <2>5. SaveOf(j, r)
    BY <2>1
  <2>6. job'[who] = j /\ Leaves(job[who])' = r
    BY <2>1, <2>2
  <2> HIDE DEF r, j
  <2>7. QED
    BY <2>3, <2>4, <2>5, <2>6 DEF SaveOf, ModeOf
<1>3. ASSUME ~Saves("fg")', ~Saves("usb")' PROVE SavedInv'
  <2>1. SavedInv
    BY <1>3 DEF StateInv, Writers
  <2>2. (control.saved = ModeOf(flash.state))'
    BY <2>1 DEF SavedInv, ModeOf
  <2>3. (flash.state.count <= control.count)'
    <3>1. flash.state.count <= control.count
      BY <2>1 DEF SavedInv
    <3>2. flash.state.count \in Nat
      BY DEF Types, FlashType, Records
    <3>3. QED
      BY <3>1, <3>2
  <2>4. QED
    BY <2>1, <2>2, <2>3 DEF SavedInv
<1>4. QED
  BY <1>1, <1>2, <1>3 DEF StateInv

(* A save begins with the record that is kept, but for one field.          *)
LEMMA SaveBegins ==
  ASSUME Types, StateInv, AtRest, NEW who \in Writers, NEW r \in Records,
         NEW what \in {"mode", "count"}, NEW n \in Nat,
         job' = [job EXCEPT ![who] = SaveOfRecord(what, r, n)],
         UNCHANGED <<flash, kept, torn>>, r.ok, r.count <= control'.count,
         what = "mode" =>
           /\ n = r.mode /\ r.mode # 0
           /\ "state" \notin torn => r = [kept.state EXCEPT !.ok = TRUE, !.mode = r.mode],
         what = "count" =>
           /\ n = r.count /\ control'.saved = ModeOf(r)
           /\ "state" \notin torn => r = [kept.state EXCEPT !.ok = TRUE, !.count = r.count]
  PROVE  StateInv'
<1> DEFINE j == SaveOfRecord(what, r, n)
<1>0. job \in [Writers -> JobType]
  BY DEF Types
<1>1. job'[who] = j /\ \A w \in Writers : w # who => job'[w] = job[w]
  BY <1>0
<1>2. j.ops = Saving(r) /\ j.what = what /\ j.want = <<n>>
  BY DEF SaveOfRecord
<1> HIDE DEF j
<1>3. Leaves(job[who])' = r
  <2>1. Saving(r) # <<>> /\ Len(Saving(r)) = 2 /\ Saving(r)[2] = ToProgram("state", 1, r)
    BY SavingFacts
  <2>2. Leaves(job[who])' = Saving(r)[2].value
    BY <1>1, <1>2, <2>1 DEF Leaves
  <2>3. QED
    BY <2>1, <2>2 DEF ToProgram
<1>4. SaveOf(job[who], r)'
  <2>1. j.ops # <<ToProgram("state", 1, r)>>
    <3>1. Saving(r) # <<ToProgram("state", 1, r)>>
      BY DEF Saving
    <3>2. QED
      BY <1>2, <3>1
  <2>2. SaveOf(j, r)'
    BY <1>2, <2>1 DEF SaveOf, ModeOf
  <2>3. QED
    BY <1>1, <2>2 DEF SaveOf
<1>5. ASSUME NEW w \in Writers, Saves(w)' PROVE w = who
  BY <1>1, <1>5 DEF Saves, AtRest, Busy, Writers
<1>6. Saves(who)'
  BY <1>1, <1>2 DEF Saves
<1>7. SaveOf(job[who], Leaves(job[who]))'
  BY <1>3, <1>4
<1>8. (flash.state.ok \/ flash.state = NoRecord)'
  BY DEF StateInv
<1>9. QED
  <2>1. \A w \in Writers : Saves(w)' => SaveOf(job[w], Leaves(job[w]))'
    BY <1>5, <1>7
  <2>2. (Saves("fg") \/ Saves("usb"))'
    BY <1>6 DEF Writers
  <2>3. QED
    BY <1>8, <2>1, <2>2 DEF StateInv

(* A step of a save: the record is erased, and then the new one is there.  *)
LEMMA SaveGoesOn ==
  ASSUME Types, WriterInv, StateInv, NEW who \in Writers, Saves(who), FlashStep(who)
  PROVE  StateInv'
<1>a. Leaves(job[who]) \in Records
  BY DEF StateInv, SaveOf
<1>b. PICK r \in Records : r = Leaves(job[who])
  BY <1>a
<1>0. flash \in FlashType /\ flash.state \in Records
  BY DEF Types, FlashType
<1>1. /\ job'[who].ops = Tail(job[who].ops) /\ job[who].ops # <<>>
      /\ job'[who].what = job[who].what /\ job'[who].want = job[who].want
      /\ \A w \in Writers : w # who => job'[w] = job[w]
  BY FlashStepFacts
<1>2. UNCHANGED <<control, kept, torn>> /\ flash' = Done(flash, Head(job[who].ops))
  BY DEF FlashStep
<1>3. SaveOf(job[who], r)
  BY <1>b DEF StateInv
<1>4. r \in Records /\ r.ok
  BY <1>3 DEF SaveOf
<1>5. /\ flash'.state \in {NoRecord, r} /\ Leaves(job[who])' = r
      /\ job'[who].ops \in {<<ToProgram("state", 1, r)>>, <<>>}
      /\ job'[who].ops = <<ToProgram("state", 1, r)>> => flash'.state = NoRecord
  <2>1. CASE job[who].ops = Saving(r)
    <3>1. /\ Tail(Saving(r)) = <<ToProgram("state", 1, r)>>
          /\ Head(Saving(r)) = ToErase("state", 1) /\ ToErase("state", 1) \in StateOps
      BY <1>4, SavingFacts
    <3>2. flash'.state = NoRecord
      <4>1. ToErase("state", 1).does = "erase"
        BY DEF ToErase
      <4>2. QED
        BY <1>0, <1>2, <2>1, <3>1, <4>1, DoneState
    <3>3. job'[who].ops = <<ToProgram("state", 1, r)>>
      BY <1>1, <2>1, <3>1
    <3>4. Leaves(job[who])' = r
      <4> DEFINE op == ToProgram("state", 1, r)
      <4>1. op.value = r
        BY DEF ToProgram
      <4> HIDE DEF op
      <4>2. <<op>> # <<>> /\ <<op>>[Len(<<op>>)] = op
        OBVIOUS
      <4>3. job'[who].ops = <<op>>
        BY <3>3 DEF op
      <4>4. QED
        BY <4>1, <4>2, <4>3 DEF Leaves
    <3>5. QED
      BY <3>2, <3>3, <3>4
  <2>2. CASE job[who].ops = <<ToProgram("state", 1, r)>>
    <3> DEFINE op == ToProgram("state", 1, r)
    <3>1. op \in StateOps /\ op.does = "program" /\ op.value = r
      BY <1>4, SavingFacts DEF ToProgram
    <3>2. flash.state = NoRecord
      BY <1>3, <2>2 DEF SaveOf
    <3>3. job[who].ops = <<op>>
      BY <2>2
    <3> HIDE DEF op
    <3>4. Head(<<op>>) = op /\ Tail(<<op>>) = <<>>
      OBVIOUS
    <3>5. flash'.state = r /\ job'[who].ops = <<>>
      BY <1>0, <1>1, <1>2, <3>1, <3>2, <3>3, <3>4, DoneState
    <3>6. <<>> # <<ToProgram("state", 1, r)>>
      OBVIOUS
    <3>7. QED
      BY <3>5, <3>6 DEF Leaves
  <2>3. QED
    BY <1>1, <1>3, <2>1, <2>2 DEF SaveOf
<1>6. SaveOf(job[who], r)'
  <2>j. PICK j : j = job[who]
    OBVIOUS
  <2>k. PICK k : k = job'[who]
    OBVIOUS
  <2>1. k.what = j.what /\ k.want = j.want
    BY <1>1, <2>j, <2>k
  <2>2. /\ k.ops \in {<<ToProgram("state", 1, r)>>, <<>>}
        /\ k.ops = <<ToProgram("state", 1, r)>> => flash'.state = NoRecord
    BY <1>5, <2>k
  <2>3. SaveOf(j, r)
    BY <1>3, <2>j
  <2>4. SaveOf(k, r)'
    BY <1>2, <1>4, <2>1, <2>2, <2>3 DEF SaveOf, ModeOf
  <2>5. QED
    BY <2>4, <2>k DEF SaveOf
<1>7. \A w \in Writers : Saves(w)' => w = who
  <2>1. \A w \in Writers : w # who => ~Saves(w)
    BY DEF WriterInv, Saves, Busy, Writers
  <2>2. QED
    BY <1>1, <2>1 DEF Saves
<1>8. Saves(who)'
  BY <1>1 DEF Saves
<1>9. (flash.state.ok \/ flash.state = NoRecord)'
  BY <1>4, <1>5
<1>10. QED
  <2>1. SaveOf(job[who], Leaves(job[who]))'
    BY <1>5, <1>6
  <2>2. \A w \in Writers : Saves(w)' => SaveOf(job[w], Leaves(job[w]))'
    BY <1>7, <2>1
  <2>3. (Saves("fg") \/ Saves("usb"))'
    BY <1>8 DEF Writers
  <2>4. QED
    BY <1>9, <2>2, <2>3 DEF StateInv

(* A save that has come to its end has left what it is reported to have.   *)
LEMMA SaveEnds ==
  ASSUME Types, WriterInv, StateInv, NEW who \in Writers, Saves(who), JobEnds(who)
  PROVE  StateInv'
<1>0. /\ flash.state \in Records /\ control \in ControlType
      /\ kept \in [state : Records, mfg : [1 .. Pages -> MfgCells]]
      /\ job \in [Writers -> JobType]
  BY DEF Types, FlashType
<1>1. job[who].ops = <<>> /\ UNCHANGED flash /\ job' = [job EXCEPT ![who] = NoJob]
  BY DEF JobEnds
<1>2. SaveOf(job[who], flash.state)
  BY <1>1 DEF StateInv, Leaves
<1>3. /\ control'.saved = ModeOf(flash.state) /\ control'.count = control.count
      /\ kept'.state = flash.state
  <2>1. CASE job[who].what = "mode"
    <3>1. /\ job[who].want[1] = flash.state.mode /\ flash.state.mode # 0
          /\ "state" \notin torn =>
               flash.state = [kept.state EXCEPT !.ok = TRUE, !.mode = flash.state.mode]
      BY <1>2, <2>1 DEF SaveOf
    <3>2. /\ control' = [control EXCEPT !.saved = job[who].want[1]]
          /\ kept' = [kept EXCEPT !.state = IF "state" \in torn THEN flash.state
                         ELSE [kept.state EXCEPT !.ok = TRUE, !.mode = job[who].want[1]]]
      BY <1>0, <2>1 DEF JobEnds, Reported, SavedAs
    <3>3. control'.saved = flash.state.mode /\ control'.count = control.count
      BY <1>0, <3>1, <3>2 DEF ControlType
    <3>4. kept' = [kept EXCEPT !.state = flash.state]
      BY <3>1, <3>2
    <3>5. QED
      BY <1>0, <3>1, <3>3, <3>4 DEF ModeOf
  <2>2. CASE job[who].what = "count"
    <3>1. /\ job[who].want[1] = flash.state.count /\ control.saved = ModeOf(flash.state)
          /\ "state" \notin torn =>
               flash.state = [kept.state EXCEPT !.ok = TRUE, !.count = flash.state.count]
      BY <1>2, <2>2 DEF SaveOf
    <3>2. /\ UNCHANGED control
          /\ kept' = [kept EXCEPT !.state = IF "state" \in torn THEN flash.state
                         ELSE [kept.state EXCEPT !.ok = TRUE, !.count = job[who].want[1]]]
      BY <1>0, <2>2 DEF JobEnds, Reported, SavedAs
    <3>3. kept' = [kept EXCEPT !.state = flash.state]
      BY <3>1, <3>2
    <3>4. QED
      BY <1>0, <3>1, <3>2, <3>3
  <2>3. QED
    BY <2>1, <2>2 DEF Saves
<1>4. flash.state.count <= control.count
  BY <1>2 DEF SaveOf
<1>5. \A w \in Writers : ~Saves(w)'
  <2>1. \A w \in Writers : w # who => ~Saves(w)
    BY DEF WriterInv, Saves, Busy, Writers
  <2>2. job'[who].what = "none" /\ \A w \in Writers : w # who => job'[w] = job[w]
    BY <1>0, <1>1, NoJobType
  <2>3. QED
    BY <2>1, <2>2 DEF Saves
<1>6. SavedInv'
  BY <1>1, <1>3, <1>4 DEF SavedInv, ModeOf
<1>7. QED
  BY <1>1, <1>5, <1>6 DEF StateInv

(* A start finds the record that is kept, unless a save was cut off.       *)
LEMMA StateRestart ==
  ASSUME Types, WriterInv, StateInv, Restart
  PROVE  StateInv'
<1> DEFINE who == IF Busy("usb") THEN "usb" ELSE "fg"
<1>0. who \in Writers
  BY DEF Writers
<1>1. /\ flash' \in Half(who) /\ control' = rdx_manager_control_init(flash')
      /\ job' = [w \in {"fg", "usb"} |-> NoJob]
      /\ kept' = kept /\ torn' = torn \cup CutOffPlaces
  BY RestartFacts
<1>2. /\ flash' \in FlashType
      /\ \/ flash' = flash
         \/ /\ job[who].ops # <<>> /\ Head(job[who].ops) \in AllOps
            /\ Head(job[who].ops) = job[who].ops[1] /\ 1 \in DOMAIN job[who].ops
            /\ flash' = CutOff(flash, Head(job[who].ops))
  BY <1>0, <1>1, HalfFacts
<1>3. flash'.state \in {flash.state, NoRecord}
  <2>1. CASE flash' = flash
    BY <2>1
  <2>2. CASE Head(job[who].ops) \in AllOps /\ flash' = CutOff(flash, Head(job[who].ops))
    BY <2>2, CutOffState DEF Types
  <2>3. QED
    BY <1>2, <2>1, <2>2
<1>4. flash'.state.ok \/ flash'.state = NoRecord
  BY <1>3 DEF StateInv
<1>5. control'.saved = ModeOf(flash'.state) /\ control'.count = flash'.state.count
  BY <1>1, <1>2, <1>4, ControlInit
<1>6. ASSUME "state" \notin torn' PROVE flash'.state = kept'.state
  <2>1. "state" \notin torn /\ "state" \notin CutOffPlaces
    BY <1>1, <1>6
  <2>2. ~Saves("fg") /\ ~Saves("usb")
    BY <2>1 DEF CutOffPlaces, Saves
  <2>3. flash.state = kept.state
    BY <2>1, <2>2 DEF StateInv, SavedInv
  <2>4. flash'.state = flash.state
    <3>1. CASE flash' = flash
      BY <3>1
    <3>2. CASE /\ job[who].ops # <<>> /\ Head(job[who].ops) \in AllOps
               /\ Head(job[who].ops) = job[who].ops[1] /\ 1 \in DOMAIN job[who].ops
               /\ flash' = CutOff(flash, Head(job[who].ops))
      <4>1. OwnPlace(job[who]) /\ job[who] \in JobType
        BY <1>0 DEF WriterInv, Types
      <4>2. Head(job[who].ops) \in MfgOps \cup BootOps
        BY <2>2, <3>2, <4>1 DEF OwnPlace, JobType, Saves
      <4>3. Head(job[who].ops) \notin StateOps
        BY <4>2 DEF MfgOps, BootOps, StateOps
      <4>4. QED
        BY <3>2, <4>3, CutOffType DEF Types
    <3>3. QED
      BY <1>2, <3>1, <3>2
  <2>5. QED
    BY <1>1, <2>3, <2>4
<1>7. \A w \in Writers : ~Saves(w)'
  BY <1>1, NoJobType DEF Saves, Writers
<1>8. SavedInv'
  <2>1. flash'.state.count <= flash'.state.count
    BY <1>2 DEF FlashType, Records
  <2>2. (control.saved = ModeOf(flash.state))'
    BY <1>5 DEF ModeOf
  <2>3. QED
    BY <1>5, <1>6, <2>1, <2>2 DEF SavedInv
<1>9. QED
  BY <1>4, <1>7, <1>8 DEF StateInv

(* Every step keeps the invariant of the state record.                     *)
LEMMA StateStep ==
  ASSUME Types, WriterInv, StateInv, BootInv, [Next]_vars
  PROVE  StateInv'
<1>0. /\ job \in [Writers -> JobType] /\ "fg" \in Writers /\ "usb" \in Writers
      /\ control.count \in Nat /\ flash \in FlashType /\ kept.state \in Records
  BY DEF Types, Writers, ControlType
<1>f. ASSUME UNCHANGED <<job, kept, torn>>, flash'.state = flash.state,
             control'.saved = control.saved,
             control'.count \in Nat, control.count <= control'.count
      PROVE  StateInv'
  BY <1>0, <1>f, StateFrame DEF Saves
<1>g. ASSUME UNCHANGED <<control, kept, torn>>, flash'.state = flash.state,
             job'["fg"] = job["fg"], ~Saves("usb"), ~Saves("usb")'
      PROVE  StateInv'
  <2>1. control.count <= control'.count /\ control'.count \in Nat
    BY <1>0, <1>g
  <2>2. /\ \A w \in Writers : Saves(w) => Saves(w)' /\ job'[w] = job[w]
        /\ \A w \in Writers : Saves(w)' => Saves(w)
    BY <1>g DEF Saves, Writers
  <2>3. QED
    BY <1>0, <1>g, <2>1, <2>2, StateFrame
<1>s. control.count <= control.count
  BY <1>0
<1>1. CASE rdx_mcp3008_read_channel
  BY <1>0, <1>1, <1>f, <1>s DEF rdx_mcp3008_read_channel
<1>2. CASE rdx_manager_increment_drive_load_count
  <2>1. CountSaves
    BY <1>2, CountFacts
  <2>2. PICK n \in Nat : n = control.count + 1
    BY <1>0
  <2>3. CASE UNCHANGED <<job, masked>>
    BY <1>0, <1>f, <2>1, <2>3 DEF CountSaves
  <2>4. CASE job' = [job EXCEPT !["fg"] =
                       SaveOfRecord("count", [StateRecord EXCEPT !.count = n], n)]
    <3>1. PICK r : r = [StateRecord EXCEPT !.count = n]
      OBVIOUS
    <3>2. SavedInv /\ AtRest
      BY <2>1 DEF CountSaves, AtRest, Busy, StateInv, Saves
    <3>3. /\ StateRecord \in Records /\ StateRecord.ok
          /\ ModeOf(StateRecord) = control.saved
          /\ "state" \notin torn => StateRecord = [kept.state EXCEPT !.ok = TRUE]
      BY <3>2, StateRecordKept
    <3>4. r \in Records /\ r.count = n /\ r.ok /\ r.mode = StateRecord.mode
      BY <3>1, <3>3, CountRecord
    <3>5. "state" \notin torn => r = [kept.state EXCEPT !.ok = TRUE, !.count = n]
      BY <1>0, <2>2, <3>1, <3>3, KeptFields
    <3>6. control'.saved = ModeOf(r)
      BY <2>1, <3>3, <3>4 DEF CountSaves, ModeOf
    <3>7. r.count <= control'.count
      BY <2>1, <2>2, <3>4 DEF CountSaves
    <3>8. UNCHANGED <<flash, kept, torn>>
      BY <2>1 DEF CountSaves
    <3>9. job' = [job EXCEPT !["fg"] = SaveOfRecord("count", r, n)]
      BY <2>4, <3>1
    <3>10. "count" \in {"mode", "count"} /\ "count" # "mode"
      OBVIOUS
    <3>11. QED
      BY <1>0, <2>2, <3>2, <3>4, <3>5, <3>6, <3>7, <3>8, <3>9, <3>10, SaveBegins
  <2>5. QED
    BY <2>1, <2>2, <2>3, <2>4 DEF CountSaves
<1>3. ASSUME NEW who \in Writers, NEW m \in 1 .. 3, ModeSaves(who, m) PROVE StateInv'
  <2>1. CASE UNCHANGED <<job, masked>>
    BY <1>0, <1>3, <1>f, <1>s, <2>1 DEF ModeSaves
  <2>2. CASE job' = [job EXCEPT ![who] =
                       SaveOfRecord("mode", [StateRecord EXCEPT !.mode = m], m)]
    <3>0. m \in Nat /\ m \in 0 .. 3 /\ m # 0
      OBVIOUS
    <3>1. PICK r : r = [StateRecord EXCEPT !.mode = m]
      OBVIOUS
    <3>2. SavedInv /\ AtRest
      BY <1>3 DEF ModeSaves, AtRest, Busy, StateInv, Saves
    <3>3. /\ StateRecord \in Records /\ StateRecord.ok
          /\ StateRecord.count <= control.count
          /\ "state" \notin torn => StateRecord = [kept.state EXCEPT !.ok = TRUE]
      BY <3>2, StateRecordKept
    <3>4. r \in Records /\ r.mode = m /\ r.ok /\ r.count = StateRecord.count
      BY <3>0, <3>1, <3>3, ModeRecord
    <3>5. "state" \notin torn => r = [kept.state EXCEPT !.ok = TRUE, !.mode = m]
      BY <1>0, <3>0, <3>1, <3>3, KeptFields
    <3>6. r.count <= control'.count
      BY <1>3, <3>3, <3>4 DEF ModeSaves
    <3>7. UNCHANGED <<flash, kept, torn>>
      BY <1>3 DEF ModeSaves
    <3>8. job' = [job EXCEPT ![who] = SaveOfRecord("mode", r, m)]
      BY <2>2, <3>1
    <3>9. "mode" \in {"mode", "count"} /\ "mode" # "count"
      OBVIOUS
    <3>10. QED
      BY <3>0, <3>2, <3>4, <3>5, <3>6, <3>7, <3>8, <3>9, SaveBegins
  <2>3. QED
    BY <1>3, <2>1, <2>2 DEF ModeSaves
<1>4. CASE \E first \in BOOLEAN, n \in 1 .. 2, image \in Images : Download(first, n, image)
  <2>1. PICK first \in BOOLEAN, n \in 1 .. 2, image \in Images : Download(first, n, image)
    BY <1>4
  <2>2. /\ job["usb"].what = "none" /\ job'["fg"] = job["fg"]
        /\ job' = job \/ job'["usb"].what = "download"
    BY <2>1, DownloadFacts
  <2>3. UNCHANGED <<flash, control, kept, torn>>
    BY <2>1 DEF Download
  <2>4. ~Saves("usb") /\ ~Saves("usb")'
    BY <2>2 DEF Saves
  <2>5. QED
    BY <1>g, <2>2, <2>3, <2>4
<1>5. CASE Activate
  <2>1. /\ UNCHANGED <<flash, control, kept, torn>> /\ ~Busy("usb")
        /\ job' = [job EXCEPT !["usb"] = [ops |-> rdx_program_flash(1, 1, update.got[2]),
                                          what |-> "activate", want |-> <<>>]]
    BY <1>5 DEF Activate, UsbRuns
  <2>2. job'["fg"] = job["fg"] /\ job'["usb"].what = "activate"
    BY <1>0, <2>1
  <2>3. ~Saves("usb") /\ ~Saves("usb")'
    BY <2>1, <2>2 DEF Saves, Busy
  <2>4. QED
    BY <1>g, <2>1, <2>2, <2>3
<1>6. CASE SectorWrites
  <2>1. UNCHANGED <<flash, control, kept, torn>> /\ ~Busy("usb")
    BY <1>6 DEF SectorWrites, AtRest
  <2>2. CASE UNCHANGED job
    BY <1>0, <1>f, <1>s, <2>1, <2>2
  <2>3. CASE \E sector \in [1 .. Pages -> MfgCells], erase \in BOOLEAN, pages \in 1 .. Pages,
                what \in {"serial", "restore"} :
               job' = [job EXCEPT !["usb"] = Writing(sector, erase, pages, what)]
    <3>1. PICK j : /\ job' = [job EXCEPT !["usb"] = j]
                   /\ j.what \in {"serial", "restore"}
      <4>1. PICK sector \in [1 .. Pages -> MfgCells], erase \in BOOLEAN, pages \in 1 .. Pages,
                 what \in {"serial", "restore"} :
              job' = [job EXCEPT !["usb"] = Writing(sector, erase, pages, what)]
        BY <2>3
      <4>2. Writing(sector, erase, pages, what).what = what
        BY WritingFacts
      <4>3. QED
        BY <4>1, <4>2
    <3>2. job'["fg"] = job["fg"] /\ job'["usb"] = j
      BY <1>0, <3>1
    <3>3. ~Saves("usb") /\ ~Saves("usb")'
      BY <2>1, <3>1, <3>2 DEF Saves, Busy
    <3>4. QED
      BY <1>g, <2>1, <3>2, <3>3
  <2>4. QED
    BY <1>6, <2>2, <2>3 DEF SectorWrites
<1>7. CASE \E who \in Writers : FlashStep(who)
  <2>1. PICK who \in Writers : FlashStep(who)
    BY <1>7
  <2>2. CASE Saves(who)
    BY <2>1, <2>2, SaveGoesOn
  <2>3. CASE ~Saves(who)
    <3>1. /\ Head(job[who].ops) \in AllOps /\ job[who].ops # <<>>
          /\ Head(job[who].ops) = job[who].ops[1] /\ 1 \in DOMAIN job[who].ops
          /\ job'[who].what = job[who].what /\ job[who] \in JobType
          /\ \A w \in Writers : w # who => job'[w] = job[w]
      BY <1>0, <2>1, FlashStepFacts
    <3>2. OwnPlace(job[who])
      BY DEF WriterInv
    <3>3. job[who].what \in {"serial", "restore", "download", "activate"}
      BY <2>3, <3>1, <3>2 DEF JobType, OwnPlace, Saves
    <3>4. who = "usb"
      BY <3>3 DEF WriterInv, Writers
    <3>5. Head(job[who].ops) \in MfgOps \cup BootOps
      BY <3>1, <3>2, <3>3 DEF OwnPlace
    <3>6. flash'.state = flash.state
      BY <1>0, <2>1, <3>5, DoneMfg, DoneBoot DEF FlashStep
    <3>7. UNCHANGED <<control, kept, torn>>
      BY <2>1 DEF FlashStep
    <3>8. ~Saves("usb") /\ ~Saves("usb")' /\ job'["fg"] = job["fg"]
      BY <1>0, <2>3, <3>1, <3>4 DEF Saves
    <3>9. QED
      BY <1>g, <3>6, <3>7, <3>8
  <2>4. QED
    BY <2>2, <2>3
<1>8. CASE \E who \in Writers : JobEnds(who)
  <2>1. PICK who \in Writers : JobEnds(who)
    BY <1>8
  <2>2. CASE Saves(who)
    BY <2>1, <2>2, SaveEnds
  <2>3. CASE ~Saves(who)
    <3>1. /\ job' = [job EXCEPT ![who] = NoJob] /\ flash' = flash
          /\ job[who].what # "none" /\ job[who] \in JobType
      BY <1>0, <2>1 DEF JobEnds, Runs, Busy
    <3>2. who = "usb"
      BY <2>3, <3>1 DEF WriterInv, Writers, Saves
    <3>3. /\ control' = control /\ kept'.state = kept.state
          /\ "state" \in torn' <=> "state" \in torn
      <4>1. CASE job[who].what \in {"activate", "download"}
        BY <2>1, <4>1 DEF JobEnds, Reported
      <4>2. CASE job[who].what \in {"serial", "restore"}
        BY <2>1, <4>2 DEF JobEnds, Reported, Types
      <4>3. QED
        BY <2>3, <3>1, <4>1, <4>2 DEF JobType, Saves
    <3>4. job'["fg"] = job["fg"] /\ job'["usb"] = NoJob
      BY <1>0, <3>1, <3>2
    <3>5. /\ \A w \in Writers : Saves(w) => Saves(w)' /\ job'[w] = job[w]
          /\ \A w \in Writers : Saves(w)' => Saves(w)
      BY <2>3, <3>2, <3>4, NoJobType DEF Saves, Writers
    <3>6. QED
      BY <1>0, <1>s, <3>1, <3>3, <3>5, StateFrame
  <2>4. QED
    BY <2>2, <2>3
<1>9. CASE SpiOpsBounded
  <2>1. /\ UNCHANGED <<control, kept>> /\ torn' = torn \cup {"mfg"}
        /\ job["usb"].what = "restore" /\ job' = [job EXCEPT !["usb"] = NoJob]
        /\ job["usb"].ops \in Seq(AllOps)
    BY <1>0, <1>9 DEF SpiOpsBounded, JobType
  <2>2. \/ UNCHANGED flash
        \/ /\ job["usb"].ops # <<>>
           /\ flash' \in {flash, CutOff(flash, Head(job["usb"].ops)),
                          Done(flash, Head(job["usb"].ops))}
    BY <1>9 DEF SpiOpsBounded
  <2>3. flash'.state = flash.state
    <3>1. CASE UNCHANGED flash
      BY <3>1
    <3>2. CASE job["usb"].ops # <<>>
      <4>1. /\ Head(job["usb"].ops) = job["usb"].ops[1] /\ 1 \in DOMAIN job["usb"].ops
            /\ Head(job["usb"].ops) \in AllOps
        BY <2>1, <3>2, TailFacts
      <4>2. Head(job["usb"].ops) \in MfgOps
        BY <1>0, <2>1, <4>1 DEF WriterInv, OwnPlace
      <4>3. Head(job["usb"].ops) \notin StateOps
        BY <4>2 DEF MfgOps, StateOps
      <4>4. QED
        BY <1>0, <2>2, <4>1, <4>2, <4>3, DoneMfg, CutOffType
    <3>3. QED
      BY <2>2, <3>1, <3>2
  <2>4. job'["fg"] = job["fg"] /\ job'["usb"] = NoJob
    BY <1>0, <2>1
  <2>5. /\ \A w \in Writers : Saves(w) => Saves(w)' /\ job'[w] = job[w]
        /\ \A w \in Writers : Saves(w)' => Saves(w)
    BY <2>1, <2>4, NoJobType DEF Saves, Writers
  <2>6. "state" \in torn' <=> "state" \in torn
    BY <2>1
  <2>7. QED
    BY <1>0, <1>s, <2>1, <2>3, <2>5, <2>6, StateFrame
<1>10. CASE Restart
  BY <1>10, StateRestart
<1>11. CASE rdx_manager_protocol_tick /\ ~Restart
  BY <1>0, <1>11, <1>f, <1>s DEF rdx_manager_protocol_tick
<1>12. CASE UNCHANGED vars
  BY <1>0, <1>12, <1>f, <1>s DEF vars
<1>13. QED
  BY StepKinds, <1>1, <1>2, <1>3, <1>4, <1>5, <1>6, <1>7, <1>8, <1>9, <1>10, <1>11, <1>12

-----------------------------------------------------------------------------
(* The manufacturing sector.                                               *)

(* Who does not touch the sector, keeps it.                                *)
LEMMA SectorFrame ==
  ASSUME SectorInv, flash'.mfg = flash.mfg, control'.serial = control.serial,
         UNCHANGED started, kept'.mfg = kept.mfg, "mfg" \in torn' <=> "mfg" \in torn,
         WritesSector' <=> WritesSector
  PROVE  SectorInv'
  BY DEF SectorInv, rdx_manager_identity_init

(* A start finds the sector that is kept, unless a write was cut off.      *)
LEMMA SectorRestart ==
  ASSUME Types, WriterInv, SectorInv, Restart
  PROVE  SectorInv'
<1> DEFINE who == IF Busy("usb") THEN "usb" ELSE "fg"
<1>0. who \in Writers
  BY DEF Writers
<1>1. /\ flash' \in Half(who) /\ control' = rdx_manager_control_init(flash')
      /\ job' = [w \in {"fg", "usb"} |-> NoJob]
      /\ kept' = kept /\ torn' = torn \cup CutOffPlaces
  BY RestartFacts
<1>2. /\ flash' \in FlashType
      /\ \/ flash' = flash
         \/ /\ job[who].ops # <<>> /\ Head(job[who].ops) \in AllOps
            /\ Head(job[who].ops) = job[who].ops[1] /\ 1 \in DOMAIN job[who].ops
            /\ flash' = CutOff(flash, Head(job[who].ops))
  BY <1>0, <1>1, HalfFacts
<1>3. control'.serial = rdx_manager_identity_init(flash')
  BY <1>1, <1>2, ControlInit
<1>4. ~WritesSector'
  BY <1>1, NoJobType DEF WritesSector, Writers
<1>5. ASSUME "mfg" \notin torn' PROVE flash'.mfg = kept'.mfg
  <2>1. "mfg" \notin torn /\ "mfg" \notin CutOffPlaces
    BY <1>1, <1>5
  <2>2. ~WritesSector
    BY <2>1 DEF CutOffPlaces, WritesSector
  <2>3. flash.mfg = kept.mfg
    BY <2>1, <2>2 DEF SectorInv
  <2>4. flash'.mfg = flash.mfg
    <3>1. CASE flash' = flash
      BY <3>1
    <3>2. CASE /\ job[who].ops # <<>> /\ Head(job[who].ops) \in AllOps
               /\ Head(job[who].ops) = job[who].ops[1] /\ 1 \in DOMAIN job[who].ops
               /\ flash' = CutOff(flash, Head(job[who].ops))
      <4>1. OwnPlace(job[who]) /\ job[who] \in JobType
        BY <1>0 DEF WriterInv, Types
      <4>2. job[who].what \notin {"serial", "restore"}
        BY <2>2 DEF WritesSector, WriterInv
      <4>3. Head(job[who].ops) \in StateOps \cup BootOps
        BY <3>2, <4>1, <4>2 DEF OwnPlace, JobType
      <4>4. Head(job[who].ops) \notin MfgOps
        BY <4>3 DEF MfgOps, BootOps, StateOps
      <4>5. QED
        BY <3>2, <4>4, CutOffType DEF Types
    <3>3. QED
      BY <1>2, <3>1, <3>2
  <2>5. QED
    BY <1>1, <2>3, <2>4
<1>6. (control.serial = rdx_manager_identity_init(flash))'
  BY <1>3 DEF rdx_manager_identity_init
<1>7. QED
  BY <1>4, <1>5, <1>6 DEF SectorInv

(* Every step keeps the invariant of the sector.                           *)
LEMMA SectorStep ==
  ASSUME Types, WriterInv, SectorInv, BootInv, [Next]_vars
  PROVE  SectorInv'
<1>0. /\ job \in [Writers -> JobType] /\ "fg" \in Writers /\ "usb" \in Writers
      /\ flash \in FlashType
  BY DEF Types, Writers
<1>f. ASSUME UNCHANGED <<flash, started, kept, torn>>, control'.serial = control.serial,
             WritesSector' <=> WritesSector
      PROVE  SectorInv'
  BY <1>f, SectorFrame
<1>1. CASE rdx_mcp3008_read_channel
  BY <1>1, <1>f DEF rdx_mcp3008_read_channel, WritesSector
<1>2. CASE rdx_manager_increment_drive_load_count
  <2>1. CountSaves
    BY <1>2, CountFacts
  <2>2. job'["usb"] = job["usb"]
    BY <1>0, <2>1 DEF CountSaves
  <2>3. QED
    BY <1>f, <2>1, <2>2 DEF CountSaves, WritesSector
<1>3. ASSUME NEW who \in Writers, NEW m \in 1 .. 3, ModeSaves(who, m) PROVE SectorInv'
  <2>1. job["usb"].what = "none" /\ job'["usb"].what \in {"none", "mode"}
    BY <1>0, <1>3 DEF ModeSaves, AtRest, Busy, SaveOfRecord, Writers
  <2>2. QED
    BY <1>3, <1>f, <2>1 DEF ModeSaves, WritesSector
<1>4. CASE \E first \in BOOLEAN, n \in 1 .. 2, image \in Images : Download(first, n, image)
  <2>1. PICK first \in BOOLEAN, n \in 1 .. 2, image \in Images : Download(first, n, image)
    BY <1>4
  <2>2. /\ job["usb"].what = "none"
        /\ job' = job \/ job'["usb"].what = "download"
    BY <2>1, DownloadFacts
  <2>3. UNCHANGED <<flash, control, started, kept, torn>>
    BY <2>1 DEF Download
  <2>4. QED
    BY <1>f, <2>2, <2>3 DEF WritesSector
<1>5. CASE Activate
  <2>1. /\ UNCHANGED <<flash, control, started, kept, torn>> /\ ~Busy("usb")
        /\ job' = [job EXCEPT !["usb"] = [ops |-> rdx_program_flash(1, 1, update.got[2]),
                                          what |-> "activate", want |-> <<>>]]
    BY <1>5 DEF Activate, UsbRuns
  <2>2. job'["usb"].what = "activate"
    BY <1>0, <2>1
  <2>3. QED
    BY <1>f, <2>1, <2>2 DEF WritesSector, Busy
<1>6. CASE SectorWrites
  <2>1. ~WritesSector
    BY <1>6 DEF SectorWrites, AtRest, Busy, WritesSector
  <2>2. UNCHANGED <<flash, control, kept, torn>>
    BY <1>6 DEF SectorWrites
  <2>3. CASE started'.serial \/ started'.mfg
    BY <2>1, <2>2, <2>3 DEF SectorInv
  <2>4. CASE UNCHANGED <<job, started>>
    BY <1>f, <2>2, <2>4 DEF WritesSector
  <2>5. QED
    BY <1>6, <2>3, <2>4 DEF SectorWrites
<1>7. CASE \E who \in Writers : FlashStep(who)
  <2>1. PICK who \in Writers : FlashStep(who)
    BY <1>7
  <2>2. UNCHANGED <<control, started, kept, torn>> /\ flash' = Done(flash, Head(job[who].ops))
    BY <2>1 DEF FlashStep
  <2>3. /\ Head(job[who].ops) \in AllOps /\ job[who].ops # <<>>
        /\ Head(job[who].ops) = job[who].ops[1] /\ 1 \in DOMAIN job[who].ops
        /\ job'[who].what = job[who].what /\ job[who] \in JobType
        /\ \A w \in Writers : w # who => job'[w] = job[w]
    BY <1>0, <2>1, FlashStepFacts
  <2>4. WritesSector' <=> WritesSector
    BY <1>0, <2>3 DEF WritesSector
  <2>5. CASE WritesSector
    BY <2>2, <2>4, <2>5 DEF SectorInv
  <2>6. CASE ~WritesSector
    <3>1. OwnPlace(job[who]) /\ job[who].what \notin {"serial", "restore"}
      BY <2>6 DEF WriterInv, WritesSector, Writers
    <3>2. Head(job[who].ops) \in StateOps \cup BootOps
      BY <2>3, <3>1 DEF OwnPlace, JobType
    <3>3. flash'.mfg = flash.mfg
      BY <1>0, <2>2, <3>2, DoneBoot, DoneState
    <3>4. QED
      BY <2>2, <2>4, <3>3, SectorFrame
  <2>7. QED
    BY <2>5, <2>6
<1>8. CASE \E who \in Writers : JobEnds(who)
  <2>1. PICK who \in Writers : JobEnds(who)
    BY <1>8
  <2>2. /\ job' = [job EXCEPT ![who] = NoJob] /\ UNCHANGED <<flash, started>>
        /\ job[who].what # "none" /\ job[who] \in JobType
        /\ kept \in [state : Records, mfg : [1 .. Pages -> MfgCells]]
    BY <1>0, <2>1 DEF JobEnds, Runs, Busy, Types
  <2>3. CASE job[who].what \in {"serial", "restore"}
    <3>1. who = "usb" /\ WritesSector
      BY <2>3 DEF WriterInv, Writers, WritesSector
    <3>2. ~WritesSector'
      BY <1>0, <2>2, <3>1, NoJobType DEF WritesSector
    <3>3. /\ kept' = [kept EXCEPT !.mfg = IF flash.mfg = job[who].want THEN job[who].want ELSE @]
          /\ torn' = IF flash.mfg = job[who].want THEN torn \ {"mfg"} ELSE torn \cup {"mfg"}
      BY <2>1, <2>3 DEF JobEnds, Reported
    <3>4. "mfg" \notin torn' => kept'.mfg = flash.mfg
      BY <2>2, <3>3
    <3>5. started'.serial \/ started'.mfg
      BY <2>2, <3>1 DEF SectorInv
    <3>6. QED
      BY <2>2, <3>2, <3>4, <3>5 DEF SectorInv
  <2>4. CASE job[who].what \notin {"serial", "restore"}
    <3>1. /\ control'.serial = control.serial /\ kept'.mfg = kept.mfg
          /\ "mfg" \in torn' <=> "mfg" \in torn
      <4>1. CASE job[who].what = "mode"
        BY <2>1, <2>2, <4>1 DEF JobEnds, Reported, Types, ControlType
      <4>2. CASE job[who].what = "count"
        BY <2>1, <2>2, <4>2 DEF JobEnds, Reported
      <4>3. CASE job[who].what \in {"activate", "download"}
        BY <2>1, <4>3 DEF JobEnds, Reported
      <4>4. QED
        BY <2>2, <2>4, <4>1, <4>2, <4>3 DEF JobType
    <3>2. WritesSector' <=> WritesSector
      <4>1. job'[who] = NoJob /\ \A w \in Writers : w # who => job'[w] = job[w]
        BY <1>0, <2>2
      <4>2. CASE who = "usb"
        BY <2>4, <4>1, <4>2, NoJobType DEF WritesSector
      <4>3. CASE who = "fg"
        BY <1>0, <4>1, <4>3 DEF WritesSector
      <4>4. QED
        BY <4>2, <4>3 DEF Writers
    <3>3. QED
      BY <2>2, <3>1, <3>2, SectorFrame
  <2>5. QED
    BY <2>3, <2>4
<1>9. CASE SpiOpsBounded
  <2>1. "mfg" \in torn'
    BY <1>9 DEF SpiOpsBounded
  <2>2. job'["usb"] = NoJob
    BY <1>0, <1>9 DEF SpiOpsBounded
  <2>3. ~WritesSector'
    BY <2>2, NoJobType DEF WritesSector
  <2>4. QED
    BY <2>1, <2>3 DEF SectorInv
<1>10. CASE Restart
  BY <1>10, SectorRestart
<1>11. CASE rdx_manager_protocol_tick /\ ~Restart
  BY <1>11, <1>f DEF rdx_manager_protocol_tick, WritesSector
<1>12. CASE UNCHANGED vars
  BY <1>12, <1>f DEF vars, WritesSector
<1>13. QED
  BY StepKinds, <1>1, <1>2, <1>3, <1>4, <1>5, <1>6, <1>7, <1>8, <1>9, <1>10, <1>11, <1>12

-----------------------------------------------------------------------------
(* The boot image.                                                         *)

(* A download goes on: a sector is erased, before any unit is programmed.  *)
LEMMA EraseGoesOn ==
  ASSUME NEW got \in Seq(Images), NEW ops \in Seq(AllOps), NEW e \in 1 .. Len(Sectors),
         NEW r \in 0 .. Units, NEW f \in FlashType,
         Remains(ops, got, e, r), Holds(f.boot, got, e, r), ops[1] \in BootOps
  PROVE  /\ Remains(Tail(ops), got, e - 1, r)
         /\ Holds(Done(f, ops[1]).boot, got, e - 1, r)
         /\ Done(f, ops[1]).boot[1] = "erased"
         /\ CutOff(f, ops[1]).boot[1] \in {"erased", "torn"}
<1>0. /\ e \in Nat /\ r \in Nat /\ Len(Sectors) \in Nat /\ e >= 1 /\ e <= Len(Sectors)
      /\ Units \in Nat /\ Units >= 2
  BY SizesType
<1>1. Len(ops) = e + r /\ ops # <<>>
  <2>1. Len(ops) = e + r
    BY DEF Remains
  <2>2. Len(ops) # 0
    BY <1>0, <2>1
  <2>3. ops # <<>>
    BY <2>2, EmptyIsShort
  <2>4. QED
    BY <2>1, <2>3
<1>2. PICK k \in 1 .. Len(Sectors) : k = Len(Sectors) - e + 1
  <2>1. Len(Sectors) - e + 1 \in 1 .. Len(Sectors)
    BY <1>0
  <2>2. QED
    BY <2>1
<1>3. ops[1] = ToErase("boot", k)
  <2>1. ops[1] = ToErase("boot", Len(Sectors) - e + 1)
    BY <1>0 DEF Remains
  <2>2. QED
    BY <1>2, <2>1
<1>4. ops[1].does = "erase" /\ ops[1].n = k
  BY <1>3 DEF ToErase
<1>5. \A u \in 1 .. Units :
        Done(f, ops[1]).boot[u] = IF u \in Sectors[k] THEN "erased" ELSE f.boot[u]
  BY <1>4, DoneBoot
<1>6. \A u \in 1 .. Units :
        CutOff(f, ops[1]).boot[u] = IF u \in Sectors[k] THEN "torn" ELSE f.boot[u]
  BY <1>4, CutOffBoot
<1>7. 1 \in Sectors[k] \/ f.boot[1] = "erased"
  <2>1. CASE e = Len(Sectors)
    <3>1. k = 1
      BY <1>0, <1>2, <2>1
    <3>2. QED
      BY <3>1, SizesType
  <2>2. CASE e # Len(Sectors)
    BY <1>0, <2>2 DEF Holds
  <2>3. QED
    BY <2>1, <2>2
<1>8. /\ Done(f, ops[1]).boot[1] = "erased"
      /\ CutOff(f, ops[1]).boot[1] \in {"erased", "torn"}
  BY <1>0, <1>5, <1>6, <1>7
<1>9. Remains(Tail(ops), got, e - 1, r)
  <2> DEFINE t == Tail(ops)
  <2>1. Len(t) = e + r - 1 /\ \A i \in 1 .. e + r - 1 : t[i] = ops[i + 1]
    BY <1>0, <1>1, TailFacts
  <2> HIDE DEF t
  <2>2. \A i \in 1 .. e - 1 : t[i] = ToErase("boot", Len(Sectors) - (e - 1) + i)
    <3>1. TAKE i \in 1 .. e - 1
    <3>2. PICK l \in 1 .. e : l = i + 1
      BY <1>0
    <3>3. ops[l] = ToErase("boot", Len(Sectors) - e + l)
      BY DEF Remains
    <3>4. t[i] = ops[l] /\ Len(Sectors) - e + l = Len(Sectors) - (e - 1) + i
      BY <1>0, <2>1, <3>2
    <3>5. QED
      BY <3>3, <3>4
  <2>3. \A i \in 1 .. r : t[e - 1 + i] = ToProgram("boot", Len(got) - r + i - 1,
                                                  got[Len(got) - r + i])
    <3>1. TAKE i \in 1 .. r
    <3>2. ops[e + i] = ToProgram("boot", Len(got) - r + i - 1, got[Len(got) - r + i])
      BY DEF Remains
    <3>3. t[e - 1 + i] = ops[e + i]
      <4>1. e - 1 + i \in 1 .. e + r - 1 /\ e - 1 + i + 1 = e + i
        BY <1>0
      <4>2. QED
        BY <2>1, <4>1
    <3>4. QED
      BY <3>2, <3>3
  <2>4. /\ r # 0 => Len(got) - r >= 2
        /\ e - 1 # 0 => Len(got) - r <= 2
    BY <1>0 DEF Remains
  <2>5. Len(t) = e - 1 + r
    BY <1>0, <2>1
  <2>6. QED
    BY <2>2, <2>3, <2>4, <2>5 DEF Remains, t
<1>10. Holds(Done(f, ops[1]).boot, got, e - 1, r)
  <2> DEFINE b == Done(f, ops[1]).boot
  <2>1. /\ \A u \in 1 .. Units : b[u] = IF u \in Sectors[k] THEN "erased" ELSE f.boot[u]
        /\ b[1] = "erased"
    BY <1>5, <1>8
  <2> HIDE DEF b
  <2>2. \A s \in 1 .. Len(Sectors) - (e - 1) : \A u \in Sectors[s] : b[u] = "erased"
    <3>1. TAKE s \in 1 .. Len(Sectors) - (e - 1)
    <3>2. TAKE u \in Sectors[s]
    <3>3. s \in 1 .. Len(Sectors) /\ u \in 1 .. Units
      BY <1>0, SizesType, SMTT(40)
    <3>4. CASE s = k
      BY <2>1, <3>3, <3>4
    <3>5. CASE s # k
      <4>1. s \in 1 .. Len(Sectors) - e
        BY <1>0, <1>2, <3>5
      <4>2. f.boot[u] = "erased"
        BY <1>0, <4>1 DEF Holds
      <4>3. QED
        BY <2>1, <3>3, <4>2
    <3>6. QED
      BY <3>4, <3>5
  <2>3. e - 1 = 0 => Behind(b, got, r)
    <3>1. SUFFICES ASSUME e - 1 = 0, NEW u \in 2 .. Units
                   PROVE  b[u] = IF u < Len(got) - r THEN got[u + 1] ELSE "erased"
      BY DEF Behind
    <3>2. PICK s \in 1 .. Len(Sectors) : u \in Sectors[s]
      BY <1>0, SectorsCover
    <3>3. b[u] = "erased"
      BY <1>0, <2>2, <3>1, <3>2
    <3>4. Len(got) \in Nat /\ Len(got) - r <= 2
      BY <1>0 DEF Remains
    <3>5. ~(u < Len(got) - r)
      BY <1>0, <3>4
    <3>6. QED
      BY <3>3, <3>5
  <2>4. QED
    BY <2>1, <2>2, <2>3 DEF Holds, b
<1>11. QED
  BY <1>8, <1>9, <1>10

(* It goes on: the next unit is programmed behind those that are there.    *)
LEMMA ProgramGoesOn ==
  ASSUME NEW got \in Seq(Images), NEW ops \in Seq(AllOps), NEW r \in 1 .. Units,
         NEW f \in FlashType, Len(got) <= Units + 1,
         Remains(ops, got, 0, r), Holds(f.boot, got, 0, r), ops[1] \in BootOps
  PROVE  /\ Remains(Tail(ops), got, 0, r - 1)
         /\ Holds(Done(f, ops[1]).boot, got, 0, r - 1)
         /\ Done(f, ops[1]).boot[1] = "erased"
         /\ CutOff(f, ops[1]).boot[1] \in {"erased", "torn"}
<1>0. /\ r \in Nat /\ r >= 1 /\ Len(Sectors) \in Nat /\ 0 < Len(Sectors)
      /\ Units \in Nat /\ Units >= 2 /\ Len(got) \in Nat
  BY SizesType
<1>1. Len(ops) = r /\ ops # <<>> /\ Len(got) - r >= 2
  <2>1. Len(ops) = 0 + r /\ Len(got) - r >= 2
    BY <1>0 DEF Remains
  <2>2. QED
    BY <1>0, <2>1, EmptyIsShort
<1>2. PICK n \in 2 .. Units : n = Len(got) - r
  BY <1>0, <1>1
<1>3. ops[1] = ToProgram("boot", n, got[n + 1])
  <2>1. ops[0 + 1] = ToProgram("boot", Len(got) - r + 1 - 1, got[Len(got) - r + 1])
    BY <1>0 DEF Remains
  <2>2. 0 + 1 = 1 /\ Len(got) - r + 1 - 1 = n /\ Len(got) - r + 1 = n + 1
    BY <1>0, <1>2
  <2>3. QED
    BY <2>1, <2>2
<1>4. ops[1].does = "program" /\ ops[1].n = n /\ ops[1].value = got[n + 1]
  BY <1>3 DEF ToProgram
<1>5. Behind(f.boot, got, r) /\ f.boot[1] = "erased"
  BY <1>0 DEF Holds
<1>6. f.boot[n] = "erased"
  <2>1. ~(n < Len(got) - r)
    BY <1>0, <1>2
  <2>2. QED
    BY <1>5, <2>1 DEF Behind
<1>7. \A u \in 1 .. Units :
        Done(f, ops[1]).boot[u] = IF u = n THEN got[n + 1] ELSE f.boot[u]
  <2>1. Programmed(f.boot[n], got[n + 1]) = got[n + 1]
    BY <1>6 DEF Programmed
  <2>2. \A u \in 1 .. Units : Done(f, ops[1]).boot[u] =
          IF u = ops[1].n THEN Programmed(f.boot[u], ops[1].value) ELSE f.boot[u]
    BY <1>4, DoneBoot
  <2>3. QED
    BY <1>4, <2>1, <2>2
<1>8. \A u \in 1 .. Units :
        CutOff(f, ops[1]).boot[u] = IF u = n THEN "torn" ELSE f.boot[u]
  BY <1>4, CutOffBoot
<1>9. /\ Done(f, ops[1]).boot[1] = "erased"
      /\ CutOff(f, ops[1]).boot[1] \in {"erased", "torn"}
  <2>1. 1 \in 1 .. Units /\ 1 # n
    BY <1>0
  <2>2. QED
    BY <1>5, <1>7, <1>8, <2>1
<1>10. Remains(Tail(ops), got, 0, r - 1)
  <2> DEFINE t == Tail(ops)
  <2>1. Len(t) = r - 1 /\ \A i \in 1 .. r - 1 : t[i] = ops[i + 1]
    BY <1>0, <1>1, TailFacts
  <2> HIDE DEF t
  <2>2. \A i \in 1 .. r - 1 : t[0 + i] = ToProgram("boot", Len(got) - (r - 1) + i - 1,
                                                  got[Len(got) - (r - 1) + i])
    <3>1. TAKE i \in 1 .. r - 1
    <3>2. PICK l \in 1 .. r : l = i + 1
      BY <1>0
    <3>3. ops[0 + l] = ToProgram("boot", Len(got) - r + l - 1, got[Len(got) - r + l])
      BY DEF Remains
    <3>4. /\ 0 + l = i + 1 /\ 0 + i = i /\ Len(got) - r + l - 1 = Len(got) - (r - 1) + i - 1
          /\ Len(got) - r + l = Len(got) - (r - 1) + i
      BY <1>0, <3>2
    <3>5. t[i] = ops[i + 1]
      BY <2>1
    <3>6. QED
      BY <3>3, <3>4, <3>5
  <2>3. /\ r - 1 # 0 => Len(got) - (r - 1) >= 2
        /\ Len(t) = 0 + (r - 1)
    BY <1>0, <1>1, <2>1
  <2>4. \A i \in 1 .. 0 : t[i] = ToErase("boot", Len(Sectors) - 0 + i)
    OBVIOUS
  <2>5. QED
    BY <2>2, <2>3, <2>4 DEF Remains, t
<1>11. Behind(Done(f, ops[1]).boot, got, r - 1)
  <2> DEFINE b == Done(f, ops[1]).boot
  <2>1. \A u \in 1 .. Units : b[u] = IF u = n THEN got[n + 1] ELSE f.boot[u]
    BY <1>7
  <2> HIDE DEF b
  <2>2. SUFFICES ASSUME NEW u \in 2 .. Units
                 PROVE  b[u] = IF u < Len(got) - (r - 1) THEN got[u + 1] ELSE "erased"
    BY DEF Behind, b
  <2>3. f.boot[u] = IF u < Len(got) - r THEN got[u + 1] ELSE "erased"
    BY <1>5 DEF Behind
  <2>4. u \in 1 .. Units
    BY <1>0
  <2>5. CASE u = n
    <3>1. u < Len(got) - (r - 1)
      BY <1>0, <1>2, <2>5
    <3>2. QED
      BY <2>1, <2>4, <2>5, <3>1
  <2>6. CASE u # n
    <3>1. u < Len(got) - (r - 1) <=> u < Len(got) - r
      BY <1>0, <1>2, <2>6
    <3>2. QED
      BY <2>1, <2>3, <2>4, <2>6, <3>1
  <2>7. QED
    BY <2>5, <2>6
<1>12. Holds(Done(f, ops[1]).boot, got, 0, r - 1)
  BY <1>9, <1>11 DEF Holds
<1>13. QED
  BY <1>9, <1>10, <1>12

(* A chunk of n units of an image follows what was got.                    *)
Follows(more, got, n, image) ==
  /\ Len(more) = Len(got) + n
  /\ \A i \in 1 .. n : more[Len(got) + i] = image
  /\ \A i \in 1 .. Len(got) : more[i] = got[i]

(* What was got is there, behind no first vector word.                     *)
Withheld(boot, got) == Behind(boot, got, 0) /\ boot[1] = "erased"

(* A download begins: a chunk follows what was there before it.            *)
LEMMA ChunkBegins ==
  ASSUME NEW got \in Seq(Images), NEW more \in Seq(Images), NEW n \in 1 .. 2,
         NEW image \in Images, NEW ops \in Seq(AllOps), NEW e \in {0, Len(Sectors)},
         NEW boot \in [1 .. Units -> BootCells],
         Len(got) + n <= Units + 1, e # 0 => Len(got) = 0,
         Follows(more, got, n, image), e = 0 => Withheld(boot, got),
         Chunk(ops, e, FirstOf(Len(got)), ProgramsOf(Len(got), n), image)
  PROVE  \E r \in 0 .. Units : Remains(ops, more, e, r) /\ Holds(boot, more, e, r)
<1>0. /\ Len(Sectors) \in Nat /\ 1 <= Len(Sectors) /\ Units \in Nat /\ Units >= 2
  BY SizesType
<1>1. PICK at \in Nat : at = Len(got)
  OBVIOUS
<1>m. /\ Len(more) = Len(got) + n
      /\ \A i \in 1 .. n : more[Len(got) + i] = image
      /\ \A i \in 1 .. Len(got) : more[i] = got[i]
  BY DEF Follows
<1>l. Len(more) = at + n
  BY <1>1, <1>m
<1>2. e \in Nat
  BY <1>0
<1>3. PICK from \in 1 .. Units : from = FirstOf(at) /\ from >= 2 /\ from >= at
  BY <1>0, <1>1 DEF FirstOf
<1>4. PICK r \in 0 .. Units : /\ r = ProgramsOf(at, n)
                             /\ r = IF at + n - 1 < from THEN 0 ELSE at + n - from
  BY <1>0, <1>1, <1>3 DEF ProgramsOf
<1>5. at + n - r >= at /\ (r # 0 => at + n - r = from)
  <2>1. /\ r = 0 \/ r = at + n - from
        /\ from >= at
    BY <1>3, <1>4
  <2>2. n >= 1 /\ n \in Nat
    OBVIOUS
  <2>3. QED
    BY <1>1, <2>1, <2>2
<1>6. e # 0 => e = Len(Sectors) /\ at = 0 /\ r = 0
  BY <1>0, <1>1, <1>3, <1>4 DEF FirstOf
<1>7. /\ Len(ops) = e + r
      /\ \A i \in 1 .. e : ops[i] = ToErase("boot", i)
      /\ \A i \in 1 .. r : ops[e + i] = ToProgram("boot", from + i - 1, image)
  BY <1>1, <1>2, <1>3, <1>4 DEF Chunk
<1>8. \A i \in 1 .. e : ops[i] = ToErase("boot", Len(Sectors) - e + i)
  <2>1. TAKE i \in 1 .. e
  <2>2. e = Len(Sectors) /\ Len(Sectors) - e + i = i
    <3>1. e # 0 /\ i \in Nat
      BY <1>2
    <3>2. e = Len(Sectors)
      BY <1>6, <3>1
    <3>3. QED
      BY <1>0, <3>1, <3>2
  <2>3. QED
    BY <1>7, <2>2
<1>9. \A i \in 1 .. r : ops[e + i] = ToProgram("boot", Len(more) - r + i - 1,
                                              more[Len(more) - r + i])
  <2>1. TAKE i \in 1 .. r
  <2>a. r # 0 /\ r = at + n - from
    BY <1>1, <1>3, <1>4
  <2>b. Len(more) - r = from
    BY <1>1, <1>5, <1>l, <2>a
  <2>2. Len(more) - r + i - 1 = from + i - 1 /\ Len(more) - r + i = from + i
    BY <2>b
  <2>3. PICK k \in 1 .. n : from + i = at + k
    <3>0. n \in Nat /\ from \in Nat /\ i \in Nat /\ r \in Nat /\ 1 <= i /\ i <= r
      BY <1>0
    <3>1. from >= at
      BY <1>3
    <3>2. PICK k \in Int : k = from + i - at
      BY <3>0
    <3>3. k >= 1 /\ k <= n /\ from + i = at + k
      BY <2>a, <3>0, <3>1, <3>2
    <3>4. QED
      BY <3>3
  <2>4. more[from + i] = image
    BY <1>1, <1>m, <2>3
  <2>5. QED
    BY <1>7, <2>2, <2>4
<1>10. Remains(ops, more, e, r)
  <2>1. r # 0 => Len(more) - r >= 2
    BY <1>1, <1>3, <1>5, <1>l
  <2>2. e # 0 => Len(more) - r <= 2
    BY <1>1, <1>6, <1>l
  <2>3. QED
    BY <1>7, <1>8, <1>9, <2>1, <2>2 DEF Remains
<1>11. Holds(boot, more, e, r)
  <2>1. CASE e = 0
    <3>1. Behind(boot, got, 0) /\ boot[1] = "erased"
      BY <2>1 DEF Withheld
    <3>2. SUFFICES ASSUME NEW u \in 2 .. Units
                   PROVE  boot[u] = IF u < Len(more) - r THEN more[u + 1] ELSE "erased"
      BY <2>1, <3>1 DEF Holds, Behind
    <3>3. boot[u] = IF u < Len(got) - 0 THEN got[u + 1] ELSE "erased"
      BY <3>1 DEF Behind
    <3>4. u < Len(more) - r <=> u < at
      <4>1. CASE r = 0
        <5>1. at + n <= 2
          BY <1>1, <1>3, <1>4, <4>1 DEF FirstOf
        <5>2. QED
          BY <1>0, <1>1, <1>l, <4>1, <5>1
      <4>2. CASE r # 0
        <5>1. from = IF at < 2 THEN 2 ELSE at
          BY <1>3 DEF FirstOf
        <5>2. Len(more) - r = from
          BY <1>1, <1>5, <1>l, <4>2
        <5>3. QED
          BY <1>0, <5>1, <5>2
      <4>3. QED
        BY <4>1, <4>2
    <3>5. u < at => more[u + 1] = got[u + 1]
      <4>1. u < at => u + 1 \in 1 .. Len(got)
        BY <1>0, <1>1
      <4>2. QED
        BY <1>m, <4>1
    <3>6. u < Len(got) - 0 <=> u < at
      BY <1>1
    <3>7. QED
      BY <3>3, <3>4, <3>5, <3>6
  <2>2. CASE e # 0
    <3>1. e = Len(Sectors)
      BY <1>6, <2>2
    <3>2. \A s \in 1 .. Len(Sectors) - e : FALSE
      BY <1>0, <3>1
    <3>3. QED
      BY <1>0, <2>2, <3>1, <3>2 DEF Holds
  <2>3. QED
    BY <2>1, <2>2
<1>12. QED
  BY <1>10, <1>11

(* It ends: what was got is there, behind no first vector word.            *)
LEMMA DownloadEnds ==
  ASSUME NEW got \in Seq(Images), NEW e \in 0 .. Len(Sectors), NEW r \in 0 .. Units, NEW boot,
         Remains(<<>>, got, e, r), Holds(boot, got, e, r)
  PROVE  Withheld(boot, got)
<1>0. Len(Sectors) \in Nat /\ 0 < Len(Sectors) /\ Units \in Nat
  BY SizesType
<1>1. e + r = 0
  <2>1. Len(<<>>) = e + r
    BY DEF Remains
  <2>2. QED
    BY <2>1
<1>2. e = 0 /\ r = 0
  BY <1>0, <1>1
<1>3. QED
  BY <1>0, <1>2 DEF Holds, Withheld

(* An image that may be started is of one piece, and is one of the two.    *)
LEMMA ValidImages ==
  ASSUME NEW got \in Seq(Images), ImageValid(got), Len(got) = Units + 1
  PROVE  /\ got[2] \in {Compatible, Custom}
         /\ \A n \in 1 .. Units + 1 : got[n] = got[2]
<1>1. DOMAIN got = 1 .. Units + 1 /\ 2 \in 1 .. Units + 1
  BY SizesType
<1>2. CASE \A n \in DOMAIN got : got[n] = Compatible
  BY <1>1, <1>2
<1>3. CASE \A n \in DOMAIN got : got[n] = Custom
  BY <1>1, <1>3
<1>4. QED
  BY <1>2, <1>3 DEF ImageValid, rdx_custom_update_is_valid

(* Who does not touch the boot region, and begins no write of it, keeps    *)
(* its invariant.                                                          *)
LEMMA BootFrame ==
  ASSUME BootsWhole, BootInv, flash'.boot = flash.boot,
         update'.started = update.started, update'.failed = update.failed,
         update'.valid = update.valid, update'.got = update.got,
         \/ job'["usb"] = job["usb"]
         \/ job["usb"].what # "download" /\ job'["usb"].what \notin {"download", "activate"}
  PROVE  BootsWhole' /\ BootInv'
<1>1. BootsWhole'
  BY DEF BootsWhole, Boots
<1>2. BootInv'
  <2>1. CASE job'["usb"] = job["usb"]
    <3>1. job["usb"].what = "download" =>
            \E e \in 0 .. Len(Sectors), r \in 0 .. Units :
              /\ Remains(job'["usb"].ops, update'.got, e, r)
              /\ Holds(flash'.boot, update'.got, e, r)
      BY <2>1 DEF BootInv
    <3>2. QED
      BY <2>1, <3>1 DEF BootInv
  <2>2. CASE job["usb"].what # "download" /\ job'["usb"].what \notin {"download", "activate"}
    BY <2>2 DEF BootInv
  <2>3. QED
    BY <2>1, <2>2
<1>3. QED
  BY <1>1, <1>2

(* Without a first vector word there is nothing that must be whole.        *)
LEMMA NotBooting ==
  ASSUME flash'.boot[1] \in {"erased", "torn"}
  PROVE  BootsWhole'
  BY DEF BootsWhole, Boots

(* A chunk keeps it.                                                       *)
LEMMA BootDownload ==
  ASSUME Types, WriterInv, BootsWhole, BootInv, NEW first \in BOOLEAN, NEW n \in 1 .. 2,
         NEW image \in Images, Download(first, n, image)
  PROVE  BootsWhole' /\ BootInv'
<1>0. /\ update \in UpdateType /\ flash' = flash
  BY DEF Types, Download
<1>1. BootsWhole'
  BY <1>0 DEF BootsWhole, Boots
<1>2. /\ update' \in UpdateType /\ job' \in [Writers -> JobType]
      /\ job["usb"].what = "none"
      /\ Len(Before(first)) \in Nat /\ Len(Before(first)) + n <= Units + 1
      /\ ~first => update.started /\ ~update.failed
  BY DownloadFacts
<1>3. CASE /\ job' = job /\ update'.failed /\ update'.got = Before(first)
           /\ update'.valid => ~first /\ update.valid
           /\ update'.started => ~first
  <2>1. Len(update'.got) <= Units + 1
    <3>1. update'.got = Before(first)
      BY <1>3
    <3>2. PICK l \in Nat : l = Len(Before(first)) /\ l + n <= Units + 1
      BY <1>2
    <3>3. l <= Units + 1
      BY <3>2, SizesType
    <3>4. QED
      BY <3>1, <3>2, <3>3
  <2>2. ~first => Before(first) = update.got
    BY DEF Before
  <2>3. update'.started => Len(update'.got) >= 1
    BY <1>2, <1>3, <2>2 DEF BootInv
  <2>4. update'.valid => Len(update'.got) = Units + 1 /\ ImageValid(update'.got)
    BY <1>3, <2>2 DEF BootInv
  <2>5. job'["usb"].what = "none" /\ update'.failed
    BY <1>2, <1>3
  <2>6. BootInv'
    BY <2>1, <2>3, <2>4, <2>5 DEF BootInv
  <2>7. QED
    BY <1>1, <2>6
<1>4. CASE /\ job'["usb"].what = "download" /\ update'.started
           /\ update'.got = After(first, n, image)
           /\ Len(update'.got) = Len(Before(first)) + n
           /\ \A i \in 1 .. n : update'.got[Len(Before(first)) + i] = image
           /\ \A i \in 1 .. Len(Before(first)) : update'.got[i] = Before(first)[i]
           /\ update'.valid => Len(update'.got) = Units + 1 /\ ImageValid(update'.got)
           /\ Chunk(job'["usb"].ops, ErasesOf(first), FirstOf(Len(Before(first))),
                    ProgramsOf(Len(Before(first)), n), image)
  <2>1. PICK got \in Seq(Images) : got = Before(first)
    <3>1. <<>> \in Seq(Images) /\ update.got \in Seq(Images)
      BY <1>0 DEF UpdateType
    <3>2. QED
      BY <3>1 DEF Before
  <2>2. PICK more \in Seq(Images) : more = update'.got
    BY <1>2 DEF UpdateType
  <2>3. PICK ops \in Seq(AllOps) : ops = job'["usb"].ops
    BY <1>2 DEF JobType, Writers
  <2>e. PICK e \in {0, Len(Sectors)} : e = ErasesOf(first) /\ (e = 0 <=> ~first)
    BY SizesType DEF ErasesOf
  <2>4. e = 0 => Withheld(flash.boot, got)
    <3>1. SUFFICES ASSUME ~first
                   PROVE  Withheld(flash.boot, got)
      BY <2>e
    <3>2. got = update.got
      BY <2>1, <3>1 DEF Before
    <3>3. /\ Behind(flash.boot, update.got, 0)
          /\ flash.boot[1] # "erased" => update.valid
      BY <1>2, <3>1 DEF BootInv
    <3>4. ~update.valid
      <4>1. Len(update.got) # Units + 1
        BY <1>2, <2>1, <3>2, SizesType
      <4>2. QED
        BY <4>1 DEF BootInv
    <3>5. QED
      BY <3>2, <3>3, <3>4 DEF Withheld
  <2>5. e # 0 => Len(got) = 0
    BY <2>1, <2>e DEF Before
  <2>6. /\ Len(got) + n <= Units + 1
        /\ Follows(more, got, n, image)
        /\ Chunk(ops, e, FirstOf(Len(got)), ProgramsOf(Len(got), n), image)
    BY <1>2, <1>4, <2>1, <2>2, <2>3, <2>e DEF Follows
  <2>7. PICK boot \in [1 .. Units -> BootCells] : boot = flash.boot
    BY DEF Types, FlashType
  <2>8. PICK r \in 0 .. Units : Remains(ops, more, e, r) /\ Holds(boot, more, e, r)
    <3>1. e = 0 => Withheld(boot, got)
      BY <2>4, <2>7
    <3>2. QED
      BY <2>5, <2>6, <3>1, ChunkBegins
  <2>9. \E d \in 0 .. Len(Sectors), q \in 0 .. Units :
          /\ Remains(job'["usb"].ops, update'.got, d, q)
          /\ Holds(flash'.boot, update'.got, d, q)
    <3>1. e \in 0 .. Len(Sectors)
      BY SizesType
    <3>2. QED
      BY <1>0, <2>2, <2>3, <2>7, <2>8, <3>1
  <2>10. Len(update'.got) >= 1 /\ Len(update'.got) <= Units + 1
    BY <2>2, <2>6 DEF Follows
  <2>11. BootInv'
    BY <1>4, <2>9, <2>10 DEF BootInv
  <2>12. QED
    BY <1>1, <2>11
<1>5. QED
  BY <1>3, <1>4, DownloadFacts

(* An erase or program of a download keeps it, and so it does when it is   *)
(* cut off.                                                                *)
LEMMA BootGoesOn ==
  ASSUME Types, WriterInv, BootInv, job["usb"].what = "download", job["usb"].ops # <<>>
  PROVE  LET ops == job["usb"].ops IN
         /\ ops[1] \in BootOps
         /\ Done(flash, ops[1]).boot[1] = "erased"
         /\ CutOff(flash, ops[1]).boot[1] \in {"erased", "torn"}
         /\ flash.boot[1] \in {"erased", "torn"} \/ ops[1].does = "erase"
         /\ \E e \in 0 .. Len(Sectors), r \in 0 .. Units :
              /\ Remains(Tail(ops), update.got, e, r)
              /\ Holds(Done(flash, ops[1]).boot, update.got, e, r)
<1>1. PICK ops \in Seq(AllOps) : ops = job["usb"].ops
  BY DEF Types, JobType, Writers
<1>2. PICK got \in Seq(Images) : got = update.got /\ Len(got) <= Units + 1
  BY DEF Types, UpdateType, BootInv
<1>3. PICK f \in FlashType : f = flash
  BY DEF Types
<1>4. PICK e \in 0 .. Len(Sectors), r \in 0 .. Units :
        Remains(ops, got, e, r) /\ Holds(f.boot, got, e, r)
  BY <1>1, <1>2, <1>3 DEF BootInv
<1>5. ops[1] \in BootOps /\ ops # <<>>
  <2>1. 1 \in DOMAIN ops
    BY <1>1, TailFacts
  <2>2. QED
    BY <1>1, <2>1 DEF WriterInv, OwnPlace, Writers
<1>6. /\ Len(Sectors) \in Nat /\ Units \in Nat
  BY SizesType
<1>7. /\ Done(f, ops[1]).boot[1] = "erased"
      /\ CutOff(f, ops[1]).boot[1] \in {"erased", "torn"}
      /\ f.boot[1] \in {"erased", "torn"} \/ ops[1].does = "erase"
      /\ \E d \in 0 .. Len(Sectors), q \in 0 .. Units :
           /\ Remains(Tail(ops), got, d, q)
           /\ Holds(Done(f, ops[1]).boot, got, d, q)
  <2>1. CASE e # 0
    <3>1. e \in 1 .. Len(Sectors) /\ e - 1 \in 0 .. Len(Sectors)
      BY <1>6, <2>1
    <3>2. /\ Remains(Tail(ops), got, e - 1, r)
          /\ Holds(Done(f, ops[1]).boot, got, e - 1, r)
          /\ Done(f, ops[1]).boot[1] = "erased"
          /\ CutOff(f, ops[1]).boot[1] \in {"erased", "torn"}
      BY <1>4, <1>5, <3>1, EraseGoesOn
    <3>3. ops[1].does = "erase"
      <4>1. ops[1] = ToErase("boot", Len(Sectors) - e + 1)
        BY <1>4, <3>1 DEF Remains
      <4>2. QED
        BY <4>1 DEF ToErase
    <3>4. QED
      BY <3>1, <3>2, <3>3
  <2>2. CASE e = 0
    <3>1. r # 0
      <4>1. Len(ops) = e + r /\ Len(ops) # 0
        BY <1>4, <1>5, EmptyIsShort DEF Remains
      <4>2. QED
        BY <1>6, <2>2, <4>1
    <3>2. r \in 1 .. Units /\ r - 1 \in 0 .. Units /\ 0 \in 0 .. Len(Sectors)
      BY <1>6, <3>1
    <3>3. Remains(ops, got, 0, r) /\ Holds(f.boot, got, 0, r)
      BY <1>4, <2>2
    <3>4. /\ Remains(Tail(ops), got, 0, r - 1)
          /\ Holds(Done(f, ops[1]).boot, got, 0, r - 1)
          /\ Done(f, ops[1]).boot[1] = "erased"
          /\ CutOff(f, ops[1]).boot[1] \in {"erased", "torn"}
      BY <1>2, <1>5, <3>2, <3>3, ProgramGoesOn
    <3>5. f.boot[1] = "erased"
      BY <3>3, SizesType DEF Holds
    <3>6. QED
      BY <3>2, <3>4, <3>5
  <2>3. QED
    BY <2>1, <2>2
<1>8. QED
  BY <1>1, <1>2, <1>3, <1>5, <1>7

(* What an activation's one operation does, and does when it is cut off.   *)
LEMMA ActivateGoesOn ==
  ASSUME Types, WriterInv, BootInv, job["usb"].what = "activate", job["usb"].ops # <<>>
  PROVE  LET ops == job["usb"].ops IN
         /\ ops[1] \in BootOps /\ Tail(ops) = <<>>
         /\ update.got[2] \in {Compatible, Custom}
         /\ \A u \in 1 .. Units : Done(flash, ops[1]).boot[u] = update.got[2]
         /\ CutOff(flash, ops[1]).boot[1] = "torn"
<1>1. PICK got \in Seq(Images) : got = update.got
  BY DEF Types, UpdateType
<1>2. PICK f \in FlashType : f = flash
  BY DEF Types
<1>3. /\ update.started /\ ~update.failed /\ update.valid
      /\ Len(got) = Units + 1 /\ ImageValid(got)
      /\ Behind(f.boot, got, 0) /\ (f.boot[1] # "erased" => f.boot[1] = got[2])
  BY <1>1, <1>2 DEF BootInv
<1>4. /\ got[2] \in {Compatible, Custom} /\ \A n \in 1 .. Units + 1 : got[n] = got[2]
  BY <1>3, ValidImages
<1>5. got[2] \in Images
  BY <1>3, SizesType
<1>6. PICK op : op = ToProgram("boot", 1, got[2])
  OBVIOUS
<1>7. job["usb"].ops = rdx_program_flash(1, 1, got[2])
  BY <1>1 DEF BootInv
<1>8. job["usb"].ops[1] = op /\ op \in BootOps /\ Tail(job["usb"].ops) = <<>>
  BY <1>5, <1>6, <1>7, ActivateFacts
<1>9. op.does = "program" /\ op.n = 1 /\ op.value = got[2]
  BY <1>6 DEF ToProgram
<1>10. \A u \in 1 .. Units :
         Done(f, op).boot[u] = IF u = 1 THEN Programmed(f.boot[u], got[2]) ELSE f.boot[u]
  BY <1>8, <1>9, DoneBoot
<1>11. \A u \in 1 .. Units : Done(f, op).boot[u] = got[2]
  <2>1. TAKE u \in 1 .. Units
  <2>2. CASE u = 1
    <3>1. Programmed(f.boot[1], got[2]) = got[2]
      BY <1>3 DEF Programmed
    <3>2. QED
      BY <1>10, <2>2, <3>1
  <2>3. CASE u # 1
    <3>1. u \in 2 .. Units /\ u + 1 \in 1 .. Units + 1 /\ u < Len(got) - 0
      BY <1>3, <2>3, SizesType
    <3>2. f.boot[u] = got[u + 1]
      BY <1>3, <3>1 DEF Behind
    <3>3. QED
      BY <1>4, <1>10, <2>3, <3>1, <3>2
  <2>4. QED
    BY <2>2, <2>3
<1>12. CutOff(f, op).boot[1] = "torn"
  BY <1>8, <1>9, CutOffBoot, SizesType
<1>13. QED
  BY <1>1, <1>2, <1>4, <1>8, <1>11, <1>12

(* An erase or program of any writer keeps it.                             *)
LEMMA BootFlashStep ==
  ASSUME Types, WriterInv, BootsWhole, BootInv, NEW who \in Writers, FlashStep(who)
  PROVE  BootsWhole' /\ BootInv'
<1>0. flash \in FlashType /\ job \in [Writers -> JobType] /\ "usb" \in Writers
  BY DEF Types, Writers
<1>1. /\ UNCHANGED update /\ flash' = Done(flash, Head(job[who].ops))
      /\ job[who].what # "none"
  BY DEF FlashStep, Runs, Busy
<1>2. /\ Head(job[who].ops) \in AllOps /\ job[who].ops # <<>>
      /\ Head(job[who].ops) = job[who].ops[1] /\ 1 \in DOMAIN job[who].ops
      /\ job'[who].what = job[who].what /\ job[who] \in JobType
      /\ job'[who].ops = Tail(job[who].ops)
      /\ \A w \in Writers : w # who => job'[w] = job[w]
  BY <1>0, FlashStepFacts
<1>3. OwnPlace(job[who])
  BY DEF WriterInv
<1>4. CASE job[who].what \notin {"download", "activate"}
  <2>1. Head(job[who].ops) \in StateOps \cup MfgOps
    BY <1>1, <1>2, <1>3, <1>4 DEF OwnPlace, JobType
  <2>2. flash'.boot = flash.boot
    BY <1>0, <1>1, <2>1, DoneState, DoneMfg
  <2>3. \/ job'["usb"] = job["usb"]
        \/ job["usb"].what # "download" /\ job'["usb"].what \notin {"download", "activate"}
    BY <1>0, <1>2, <1>4
  <2>4. QED
    BY <1>1, <2>2, <2>3, BootFrame
<1>5. CASE job[who].what = "download"
  <2>1. who = "usb"
    BY <1>5 DEF WriterInv, Writers
  <2>2. /\ flash'.boot[1] = "erased"
        /\ \E e \in 0 .. Len(Sectors), r \in 0 .. Units :
             /\ Remains(job'["usb"].ops, update'.got, e, r)
             /\ Holds(flash'.boot, update'.got, e, r)
    BY <1>1, <1>2, <1>5, <2>1, BootGoesOn
  <2>3. BootsWhole'
    BY <2>2, NotBooting
  <2>4. job'["usb"].what = "download"
    BY <1>2, <1>5, <2>1
  <2>5. BootInv'
    BY <1>1, <2>2, <2>4 DEF BootInv
  <2>6. QED
    BY <2>3, <2>5
<1>6. CASE job[who].what = "activate"
  <2>1. who = "usb"
    BY <1>6 DEF WriterInv, Writers
  <2>2. /\ update.got[2] \in {Compatible, Custom}
        /\ \A u \in 1 .. Units : flash'.boot[u] = update.got[2]
        /\ job'["usb"].ops = <<>>
    BY <1>1, <1>2, <1>6, <2>1, ActivateGoesOn
  <2>3. flash'.boot[1] = update.got[2]
    BY <2>2, SizesType
  <2>4. BootsWhole'
    BY <2>2, <2>3 DEF BootsWhole
  <2>5. /\ update.started /\ ~update.failed /\ update.valid
        /\ Len(update.got) = Units + 1 /\ ImageValid(update.got)
    BY <1>6, <2>1 DEF BootInv
  <2>6. Behind(flash'.boot, update.got, 0)
    <3>1. SUFFICES ASSUME NEW u \in 2 .. Units
                   PROVE  flash'.boot[u] = IF u < Len(update.got) - 0 THEN update.got[u + 1]
                                           ELSE "erased"
      BY DEF Behind
    <3>2. u \in 1 .. Units /\ u + 1 \in 1 .. Units + 1 /\ u < Len(update.got) - 0
      BY <2>5, SizesType
    <3>3. update.got \in Seq(Images)
      BY DEF Types, UpdateType
    <3>4. update.got[u + 1] = update.got[2]
      BY <2>5, <3>2, <3>3, ValidImages
    <3>5. QED
      BY <2>2, <3>2, <3>4
  <2>7. job'["usb"].what = "activate"
    BY <1>2, <1>6, <2>1
  <2>8. BootInv'
    BY <1>1, <2>2, <2>3, <2>5, <2>6, <2>7 DEF BootInv
  <2>9. QED
    BY <2>4, <2>8
<1>7. QED
  BY <1>4, <1>5, <1>6

(* A start keeps it, wherever the write was that the start has cut off.    *)
LEMMA BootRestart ==
  ASSUME Types, WriterInv, BootsWhole, BootInv, Restart
  PROVE  BootsWhole' /\ BootInv'
<1> DEFINE who == IF Busy("usb") THEN "usb" ELSE "fg"
<1>0. who \in Writers
  BY DEF Writers
<1>1. /\ flash' \in Half(who) /\ update' = NoUpdate
      /\ job' = [w \in {"fg", "usb"} |-> NoJob]
  BY RestartFacts
<1>2. BootInv'
  <2>1. job'["usb"].what = "none"
    BY <1>1, NoJobType
  <2>2. ~update'.started /\ ~update'.valid /\ update'.got = <<>>
    BY <1>1 DEF NoUpdate
  <2>3. Len(<<>>) <= Units + 1
    BY SizesType
  <2>4. QED
    BY <2>1, <2>2, <2>3 DEF BootInv
<1>3. BootsWhole'
  <2>1. CASE flash' = flash
    BY <2>1 DEF BootsWhole, Boots
  <2>2. CASE /\ job[who].ops # <<>> /\ Head(job[who].ops) \in AllOps
             /\ Head(job[who].ops) = job[who].ops[1] /\ 1 \in DOMAIN job[who].ops
             /\ flash' = CutOff(flash, Head(job[who].ops))
    <3>1. OwnPlace(job[who]) /\ job[who] \in JobType
      BY <1>0 DEF WriterInv, Types
    <3>2. CASE job[who].what \in {"download", "activate"}
      <4>1. who = "usb"
        BY <3>2 DEF WriterInv
      <4>2. CutOff(flash, job["usb"].ops[1]).boot[1] \in {"erased", "torn"}
        BY <2>2, <3>2, <4>1, BootGoesOn, ActivateGoesOn
      <4>3. flash'.boot[1] \in {"erased", "torn"}
        BY <2>2, <4>1, <4>2
      <4>4. QED
        BY <4>3, NotBooting
    <3>3. CASE job[who].what \notin {"download", "activate"}
      <4>1. Head(job[who].ops) \in StateOps \cup MfgOps
        BY <2>2, <3>1, <3>3 DEF OwnPlace, JobType
      <4>2. Head(job[who].ops) \notin BootOps
        BY <4>1 DEF MfgOps, BootOps, StateOps
      <4>3. flash'.boot = flash.boot
        BY <2>2, <4>2, CutOffType DEF Types
      <4>4. QED
        BY <4>3 DEF BootsWhole, Boots
    <3>4. QED
      BY <3>2, <3>3
  <2>3. QED
    BY <1>0, <1>1, <2>1, <2>2, HalfFacts
<1>4. QED
  BY <1>2, <1>3

(* Every step keeps the image whole, and the invariant of the download.    *)
LEMMA BootStep ==
  ASSUME Types, WriterInv, BootsWhole, BootInv, [Next]_vars
  PROVE  BootsWhole' /\ BootInv'
<1>0. /\ job \in [Writers -> JobType] /\ "fg" \in Writers /\ "usb" \in Writers
      /\ flash \in FlashType /\ update \in UpdateType
  BY DEF Types, Writers
<1>f. ASSUME flash'.boot = flash.boot, UNCHANGED update,
             \/ job'["usb"] = job["usb"]
             \/ job["usb"].what # "download" /\ job'["usb"].what \notin {"download", "activate"}
      PROVE  BootsWhole' /\ BootInv'
  BY <1>f, BootFrame
<1>1. CASE rdx_mcp3008_read_channel
  BY <1>1, <1>f DEF rdx_mcp3008_read_channel
<1>2. CASE rdx_manager_increment_drive_load_count
  <2>1. CountSaves
    BY <1>2, CountFacts
  <2>2. job'["usb"] = job["usb"]
    BY <1>0, <2>1 DEF CountSaves
  <2>3. QED
    BY <1>f, <2>1, <2>2 DEF CountSaves
<1>3. ASSUME NEW who \in Writers, NEW m \in 1 .. 3, ModeSaves(who, m)
      PROVE  BootsWhole' /\ BootInv'
  <2>1. job["usb"].what = "none" /\ job'["usb"].what \in {"none", "mode"}
    BY <1>0, <1>3 DEF ModeSaves, AtRest, Busy, SaveOfRecord, Writers
  <2>2. QED
    BY <1>3, <1>f, <2>1 DEF ModeSaves
<1>4. CASE \E first \in BOOLEAN, n \in 1 .. 2, image \in Images : Download(first, n, image)
  BY <1>4, BootDownload
<1>5. CASE Activate
  <2>1. /\ UNCHANGED <<flash, update>> /\ ~Busy("usb")
        /\ update.started /\ update.valid /\ ~update.failed
        /\ job' = [job EXCEPT !["usb"] = [ops |-> rdx_program_flash(1, 1, update.got[2]),
                                          what |-> "activate", want |-> <<>>]]
    BY <1>5 DEF Activate, UsbRuns
  <2>2. /\ job'["usb"].what = "activate"
        /\ job'["usb"].ops = rdx_program_flash(1, 1, update.got[2])
    BY <1>0, <2>1
  <2>3. job["usb"].what = "none"
    BY <2>1 DEF Busy
  <2>4. BootsWhole'
    BY <2>1 DEF BootsWhole, Boots
  <2>5. /\ Behind(flash.boot, update.got, 0)
        /\ flash.boot[1] # "erased" => update.valid /\ flash.boot[1] = update.got[2]
        /\ Len(update.got) <= Units + 1 /\ Len(update.got) >= 1
        /\ Len(update.got) = Units + 1 /\ ImageValid(update.got)
    BY <2>1, <2>3 DEF BootInv
  <2>6. BootInv'
    BY <2>1, <2>2, <2>5 DEF BootInv
  <2>7. QED
    BY <2>4, <2>6
<1>6. CASE SectorWrites
  <2>1. UNCHANGED <<flash, update>> /\ ~Busy("usb")
    BY <1>6 DEF SectorWrites, AtRest
  <2>2. CASE UNCHANGED job
    BY <1>f, <2>1, <2>2
  <2>3. CASE \E sector \in [1 .. Pages -> MfgCells], erase \in BOOLEAN, pages \in 1 .. Pages,
                what \in {"serial", "restore"} :
               job' = [job EXCEPT !["usb"] = Writing(sector, erase, pages, what)]
    <3>1. PICK sector \in [1 .. Pages -> MfgCells], erase \in BOOLEAN, pages \in 1 .. Pages,
               what \in {"serial", "restore"} :
            job' = [job EXCEPT !["usb"] = Writing(sector, erase, pages, what)]
      BY <2>3
    <3>2. Writing(sector, erase, pages, what).what = what
      BY WritingFacts
    <3>3. job'["usb"].what \in {"serial", "restore"} /\ job["usb"].what = "none"
      BY <1>0, <2>1, <3>1, <3>2 DEF Busy
    <3>4. QED
      BY <1>f, <2>1, <3>3
  <2>4. QED
    BY <1>6, <2>2, <2>3 DEF SectorWrites
<1>7. CASE \E who \in Writers : FlashStep(who)
  BY <1>7, BootFlashStep
<1>8. CASE \E who \in Writers : JobEnds(who)
  <2>1. PICK who \in Writers : JobEnds(who)
    BY <1>8
  <2>2. /\ job' = [job EXCEPT ![who] = NoJob] /\ flash' = flash
        /\ job[who].what # "none" /\ job[who] \in JobType /\ job[who].ops = <<>>
    BY <1>0, <2>1 DEF JobEnds, Runs, Busy
  <2>3. /\ update'.started = update.started /\ update'.failed = update.failed
        /\ update'.valid = update.valid /\ update'.got = update.got
    <3>1. CASE job[who].what = "activate"
      <4>1. update' = [update EXCEPT !.ticks = ResetDelay]
        BY <2>1, <3>1 DEF JobEnds, Reported
      <4>2. QED
        BY <1>0, <4>1 DEF UpdateType
    <3>2. CASE job[who].what # "activate"
      <4>1. UNCHANGED update
        BY <2>1, <2>2, <3>2 DEF JobEnds, Reported, JobType
      <4>2. QED
        BY <4>1
    <3>3. QED
      BY <3>1, <3>2
  <2>4. job'[who] = NoJob /\ \A w \in Writers : w # who => job'[w] = job[w]
    BY <1>0, <2>2
  <2>5. CASE job[who].what = "download"
    <3>1. who = "usb"
      BY <2>5 DEF WriterInv, Writers
    <3>2. PICK got \in Seq(Images) : got = update.got
      BY <1>0 DEF UpdateType
    <3>3. PICK e \in 0 .. Len(Sectors), r \in 0 .. Units :
            Remains(<<>>, got, e, r) /\ Holds(flash.boot, got, e, r)
      BY <2>2, <2>5, <3>1, <3>2 DEF BootInv
    <3>4. PICK boot : boot = flash.boot
      OBVIOUS
    <3>5. Withheld(boot, got)
      BY <3>3, <3>4, DownloadEnds
    <3>6. Behind(flash'.boot, update'.got, 0) /\ flash'.boot[1] = "erased"
      BY <2>2, <2>3, <3>2, <3>4, <3>5 DEF Withheld
    <3>7. BootsWhole'
      BY <3>6, NotBooting
    <3>8. job'["usb"].what = "none"
      BY <2>4, <3>1, NoJobType
    <3>9. BootInv'
      BY <2>3, <3>6, <3>8 DEF BootInv
    <3>10. QED
      BY <3>7, <3>9
  <2>6. CASE job[who].what # "download"
    <3>1. \/ job'["usb"] = job["usb"]
          \/ /\ job["usb"].what # "download"
             /\ job'["usb"].what \notin {"download", "activate"}
      BY <1>0, <2>4, <2>6, NoJobType
    <3>2. flash'.boot = flash.boot
      BY <2>2
    <3>3. QED
      BY <2>3, <3>1, <3>2, BootFrame
  <2>7. QED
    BY <2>5, <2>6
<1>9. CASE SpiOpsBounded
  <2>1. /\ UNCHANGED update
        /\ job["usb"].what = "restore" /\ job' = [job EXCEPT !["usb"] = NoJob]
        /\ job["usb"].ops \in Seq(AllOps)
    BY <1>0, <1>9 DEF SpiOpsBounded, JobType
  <2>2. \/ UNCHANGED flash
        \/ /\ job["usb"].ops # <<>>
           /\ flash' \in {flash, CutOff(flash, Head(job["usb"].ops)),
                          Done(flash, Head(job["usb"].ops))}
    BY <1>9 DEF SpiOpsBounded
  <2>3. flash'.boot = flash.boot
    <3>1. CASE UNCHANGED flash
      BY <3>1
    <3>2. CASE job["usb"].ops # <<>>
      <4>1. /\ Head(job["usb"].ops) = job["usb"].ops[1] /\ 1 \in DOMAIN job["usb"].ops
            /\ Head(job["usb"].ops) \in AllOps
        BY <2>1, <3>2, TailFacts
      <4>2. Head(job["usb"].ops) \in MfgOps
        BY <1>0, <2>1, <4>1 DEF WriterInv, OwnPlace
      <4>3. Head(job["usb"].ops) \notin BootOps
        BY <4>2 DEF MfgOps, BootOps
      <4>4. QED
        BY <1>0, <2>2, <4>1, <4>2, <4>3, DoneMfg, CutOffType
    <3>3. QED
      BY <2>2, <3>1, <3>2
  <2>4. job'["usb"] = NoJob
    BY <1>0, <2>1
  <2>5. QED
    BY <1>f, <2>1, <2>3, <2>4, NoJobType
<1>10. CASE Restart
  BY <1>10, BootRestart
<1>11. CASE rdx_manager_protocol_tick /\ ~Restart
  <2>1. UNCHANGED <<flash, job>> /\ update' = [update EXCEPT !.ticks = @ - 1]
    BY <1>11 DEF rdx_manager_protocol_tick
  <2>2. /\ update'.started = update.started /\ update'.failed = update.failed
        /\ update'.valid = update.valid /\ update'.got = update.got
    BY <1>0, <2>1 DEF UpdateType
  <2>3. flash'.boot = flash.boot /\ job'["usb"] = job["usb"]
    BY <2>1
  <2>4. QED
    BY <2>2, <2>3, BootFrame
<1>12. CASE UNCHANGED vars
  BY <1>12, <1>f DEF vars
<1>13. QED
  BY StepKinds, <1>1, <1>2, <1>3, <1>4, <1>5, <1>6, <1>7, <1>8, <1>9, <1>10, <1>11, <1>12

-----------------------------------------------------------------------------
(* The theorems.                                                           *)

(* The invariant holds at the first start.                                 *)
LEMMA InvInit ==
  ASSUME Init
  PROVE  IInv
<1>1. PICK page \in {"erased", "torn"} \cup Serials, m \in {0, 2} :
        flash = [boot |-> [u \in 1 .. Units |-> "factory"],
                 mfg |-> [n \in 1 .. Pages |-> IF n = 1 THEN page ELSE "calibration"],
                 state |-> IF m = 0 THEN NoRecord ELSE Record(1, m)]
  BY DEF Init
<1>2. flash.state \in Records /\ (flash.state.ok \/ flash.state = NoRecord)
  <2>1. CASE m = 0
    BY <1>1, <2>1, NoRecordType
  <2>2. CASE m = 2
    <3>1. 1 \in Nat /\ 2 \in 0 .. 3
      OBVIOUS
    <3>2. Record(1, 2) \in Records /\ Record(1, 2).ok
      BY <3>1, RecordType
    <3>3. QED
      BY <1>1, <2>2, <3>2
  <2>3. QED
    BY <2>1, <2>2
<1>3. flash \in FlashType
  <2>1. flash.boot \in [1 .. Units -> BootCells] /\ flash.mfg \in [1 .. Pages -> MfgCells]
    BY <1>1 DEF BootCells, MfgCells
  <2>2. flash = [boot |-> flash.boot, mfg |-> flash.mfg, state |-> flash.state]
    BY <1>1
  <2>3. QED
    BY <1>2, <2>1, <2>2 DEF FlashType
<1>4. /\ on = TRUE /\ control = rdx_manager_control_init(flash)
      /\ update = NoUpdate /\ started = [serial |-> FALSE, mfg |-> FALSE]
      /\ spi = [frame |-> FALSE, faulted |-> FALSE]
      /\ job = [who \in {"fg", "usb"} |-> NoJob] /\ masked = FALSE
      /\ kept = [state |-> flash.state, mfg |-> flash.mfg] /\ torn = {}
      /\ bound = [starts |-> 0, writes |-> 0]
  BY DEF Init
<1>5. /\ control \in ControlType /\ control.serial = rdx_manager_identity_init(flash)
      /\ control.saved = ModeOf(flash.state) /\ control.count = flash.state.count
  BY <1>2, <1>3, <1>4, ControlInit
<1>6. Types
  <2>1. control \in ControlType /\ update \in UpdateType /\ job \in [Writers -> JobType]
    BY <1>4, <1>5, NoUpdateType, NoJobType
  <2>2. /\ on \in BOOLEAN /\ masked \in BOOLEAN /\ torn \subseteq {"state", "mfg"}
        /\ started \in [serial : BOOLEAN, mfg : BOOLEAN]
        /\ spi \in [frame : BOOLEAN, faulted : BOOLEAN]
        /\ bound \in [starts : Nat, writes : Nat]
    BY <1>4
  <2>3. kept \in [state : Records, mfg : [1 .. Pages -> MfgCells]]
    BY <1>3, <1>4 DEF FlashType
  <2>4. QED
    BY <1>3, <2>1, <2>2, <2>3 DEF Types
<1>7. \A w \in Writers : job[w] = NoJob
  BY <1>4 DEF Writers
<1>8. WriterInv
  BY <1>7, NoJobType, PlacesOfJobs DEF WriterInv, Busy, Writers
<1>9. StateInv
  <2>1. flash.state.count <= flash.state.count
    BY <1>2 DEF Records
  <2>2. SavedInv
    BY <1>4, <1>5, <2>1 DEF SavedInv
  <2>3. QED
    BY <1>2, <1>7, <2>2, NoJobType DEF StateInv, Saves
<1>10. SectorInv
  <2>1. ~WritesSector
    BY <1>7, NoJobType DEF WritesSector, Writers
  <2>2. QED
    BY <1>4, <1>5, <2>1 DEF SectorInv
<1>11. BootsWhole
  <2>1. flash.boot[1] = "factory" /\ \A u \in 1 .. Units : flash.boot[u] = "factory"
    BY <1>1, SizesType
  <2>2. QED
    BY <2>1 DEF BootsWhole
<1>12. BootInv
  <2>1. job["usb"].what = "none"
    BY <1>7, NoJobType DEF Writers
  <2>2. ~update.started /\ ~update.valid /\ update.got = <<>>
    BY <1>4 DEF NoUpdate
  <2>3. Len(<<>>) <= Units + 1
    BY SizesType
  <2>4. QED
    BY <2>1, <2>2, <2>3 DEF BootInv
<1>13. QED
  BY <1>6, <1>8, <1>9, <1>10, <1>11, <1>12 DEF IInv

(* The inductive invariant holds in every reachable state.                 *)
THEOREM Invariant == Spec => []IInv
<1>1. Init => IInv
  BY InvInit
<1>2. IInv /\ [Next]_vars => IInv'
  BY TypesStep, WriterStep, StateStep, SectorStep, BootStep DEF IInv
<1>3. QED
  BY <1>1, <1>2, PTL DEF Spec

(* Every variable keeps to its range, whatever is sent and cut off.        *)
THEOREM TypeCorrect == Spec => []TypeOK
<1>1. IInv => TypeOK
  <2>1. ASSUME IInv PROVE TypeOK
    BY <2>1 DEF IInv, Types, FlashType, BootCells, MfgCells, ControlType, UpdateType,
       BootInv, TypeOK
  <2>2. QED
    BY <2>1
<1>2. QED
  BY <1>1, Invariant, PTL

(* The image behind the first vector word is always whole, of one piece    *)
(* and one that may be started (rdx_manager_protocol.c:378-463, 836-942).  *)
THEOREM ImageIsWhole == Spec => []BootsWhole
<1>1. IInv => BootsWhole
  BY DEF IInv
<1>2. QED
  BY <1>1, Invariant, PTL

(* Between two writes the flash holds what the last one that was reported  *)
(* good has left (rdx_manager_control.c:111-208,                           *)
(* rdx_manager_serial.c:177-300).                                          *)
THEOREM RecordsAreKept == Spec => []RecordsKept
<1>1. IInv => RecordsKept
  <2>1. SUFFICES ASSUME IInv, ~Busy("fg"), ~Busy("usb")
                 PROVE  /\ "state" \notin torn =>
                             /\ flash.state = kept.state
                             /\ control.saved = ModeOf(kept.state)
                             /\ control.count >= kept.state.count
                        /\ "mfg" \notin torn =>
                             /\ flash.mfg = kept.mfg
                             /\ ~started.serial /\ ~started.mfg =>
                                  control.serial =
                                    rdx_manager_identity_init([mfg |-> kept.mfg])
    BY DEF RecordsKept, ModeOf
  <2>2. ~Saves("fg") /\ ~Saves("usb") /\ ~WritesSector
    BY <2>1 DEF Busy, Saves, WritesSector
  <2>3. SavedInv /\ SectorInv
    BY <2>1, <2>2 DEF IInv, StateInv
  <2>4. ASSUME "state" \notin torn
        PROVE  /\ flash.state = kept.state /\ control.saved = ModeOf(kept.state)
               /\ control.count >= kept.state.count
    <3>1. /\ flash.state = kept.state /\ control.saved = ModeOf(flash.state)
          /\ flash.state.count <= control.count
      BY <2>3, <2>4 DEF SavedInv
    <3>2. flash.state.count \in Nat /\ control.count \in Nat
      BY <2>1 DEF IInv, Types, FlashType, Records, ControlType
    <3>3. QED
      BY <3>1, <3>2
  <2>5. ASSUME "mfg" \notin torn
        PROVE  /\ flash.mfg = kept.mfg
               /\ ~started.serial /\ ~started.mfg =>
                    control.serial = rdx_manager_identity_init([mfg |-> kept.mfg])
    BY <2>2, <2>3, <2>5 DEF SectorInv, rdx_manager_identity_init
  <2>6. QED
    BY <2>4, <2>5
<1>2. QED
  BY <1>1, Invariant, PTL
=============================================================================
