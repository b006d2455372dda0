-------------------------------- MODULE Files --------------------------------
(***************************************************************************)
(* The configuration on the host's file system: reSaveConfig() and         *)
(* parseConfigOptions() (zcommand.ino) over File and FS (compat/FS.cpp),   *)
(* which are stdio.                                                        *)
(*                                                                         *)
(* A save removes the file of the first version of the firmware and its    *)
(* own, opens its own anew, prints the fields into stdio's buffer and      *)
(* closes; then it reads the file again and counts the commas.  A remove   *)
(* and an open may fail, stdio may write out at any time, the disk may be  *)
(* full, and the host program may be killed between any two steps.         *)
(*                                                                         *)
(* The text is a sequence of units, field, comma, field and so on; a unit  *)
(* is named by the settings it belongs to, a version of them and the time  *)
(* zone, the one field that is not read as it is printed.                  *)
(***************************************************************************)
EXTENDS Naturals, Sequences

CONSTANTS
    Fields,     \* fields of the file: CFG_LAST + 1
    Again,      \* retries of a save: 3, or 10 after a format
    MaxVersion, \* bound: versions of the settings
    Zones       \* bound: time zones that are set, below 243, or 999

ASSUME FilesAssumption ==
    /\ Fields \in Nat \ {0}
    /\ {Again, MaxVersion} \subseteq Nat
    /\ Zones \subseteq 0 .. 999

VARIABLES
    exists,     \* there is a file
    disk,       \* its units
    oldDisk,    \* those of the file of the first version, or none
    handle,     \* fp of the File that is written
    printed,    \* units printed
    flushed,    \* those that stdio has written out
    doing,      \* what the firmware does
    left,       \* retries left
    settings,   \* the settings in memory
    saved       \* the last save: its answer, whether its open had worked, of what

fileVars == <<exists, disk, oldDisk, handle, printed, flushed, doing, left, settings, saved>>

Units == 2 * Fields - 1

\* The time zone of a clock that is off.
Off == 999

Settings == [ver : 0 .. MaxVersion, zone : 0 .. Off]

\* The settings of a program that has just started.
Default == [ver |-> 0, zone |-> 0]

Nothing == [said |-> FALSE, opened |-> FALSE, what |-> Default]

Whole(s) == [u \in 1 .. Units |-> s]

FilesInit ==
    /\ exists = FALSE
    /\ disk = <<>>
    /\ \/ oldDisk = <<>>
       \/ MaxVersion > 0 /\ \E z \in Zones : oldDisk = Whole([ver |-> 1, zone |-> z])
    /\ handle = FALSE
    /\ printed = 0
    /\ flushed = 0
    /\ doing = "off"
    /\ left = 0
    /\ settings = Default
    /\ saved = Nothing

-----------------------------------------------------------------------------
(* File and FS over stdio.                                                 *)

\* remove(): one that fails leaves the file.
RemovesOld == oldDisk' \in {<<>>, oldDisk}

RemovesConfig ==
    \/ exists' = FALSE /\ disk' = <<>>
    \/ UNCHANGED <<exists, disk>>

\* Mutant: an open that does not truncate.
OpenToUpdate ==
    \/ handle' = TRUE /\ exists' = TRUE /\ UNCHANGED disk
    \/ handle' = FALSE /\ UNCHANGED <<exists, disk>>

\* open "w": what is there, because its remove failed, is empty from here on.  A
\* failed open leaves it, and the File takes every print for nothing.
OpenToWrite ==
    \/ handle' = TRUE /\ exists' = TRUE /\ disk' = <<>>
    \/ handle' = FALSE /\ UNCHANGED <<exists, disk>>

\* Units i+1 .. j of the settings reach the disk.
Put(i, j) ==
    [u \in 1 .. IF Len(disk) < j THEN j ELSE Len(disk) |->
        IF u \in i + 1 .. j THEN settings ELSE disk[u]]

\* The commas of a text; unit 2, 4, ... is one.
Commas(text) == Len(text) \div 2

-----------------------------------------------------------------------------
(* parseConfigOptions() and setOptionsFromSavedConfig().                   *)

\* A version that is nowhere.
Fresh ==
    1 .. MaxVersion \ ({settings.ver} \cup {disk[u].ver : u \in 1 .. Len(disk)}
                                     \cup {oldDisk[u].ver : u \in 1 .. Len(oldDisk)})

\* The time zone is printed in decimal and read as the hexadecimal of a text,
\* two digits to a character: one digit is no character, and leaves the time
\* zone; 30 to 39 are the digits; anything else is 0.
Restored(z, cur) ==
    LET first == IF z < 100 THEN z ELSE z \div 10
    IN  IF z < 10 THEN cur ELSE IF first \in 30 .. 39 THEN first - 30 ELSE 0

Text == IF exists THEN disk ELSE oldDisk

\* In the file of the first version nothing is hexadecimal.
Zone(cur) == IF exists THEN Restored(Text[1].zone, cur) ELSE Text[1].zone

\* What a load may come to: the defaults, if there is no text or no file can be
\* opened; the settings of a whole text; new ones, if the text is short or one
\* of the two reads fails.  Only a text sets the time zone.
Loaded(cur) ==
    {[ver |-> 0, zone |-> cur]}
        \cup (IF Len(Text) = Units THEN {[ver |-> Text[1].ver, zone |-> Zone(cur)]} ELSE {})
        \cup (IF Text = <<>> THEN {} ELSE [ver : Fresh, zone : {cur, Zone(cur)}])

\* zclock.reset(): time zone 0, but a clock that is off stays so.
Reset(s) == [s EXCEPT !.zone = IF @ = Off THEN Off ELSE 0]

-----------------------------------------------------------------------------
(* reSaveConfig().                                                         *)

Save(retries) ==
    /\ doing' = "old"
    /\ left' = retries
    /\ saved' = Nothing
    /\ UNCHANGED <<handle, printed, flushed, settings>>

AtSave ==
    /\ doing = "run"
    /\ Save(Again)
    /\ UNCHANGED <<exists, disk, oldDisk>>

RemoveOld ==
    /\ doing = "old"
    /\ RemovesOld
    /\ doing' = "config"
    /\ UNCHANGED <<exists, disk, handle, printed, flushed, left, settings, saved>>

RemoveConfig ==
    /\ doing = "config"
    /\ RemovesConfig
    /\ doing' = "open"
    /\ UNCHANGED <<oldDisk, handle, printed, flushed, left, settings, saved>>

Opens ==
    /\ doing = "open"
    /\ OpenToWrite
    /\ printed' = 0
    /\ flushed' = 0
    /\ doing' = "print"
    /\ UNCHANGED <<oldDisk, left, settings, saved>>

Prints ==
    /\ doing = "print"
    /\ printed < Units
    /\ printed' = printed + 1
    /\ UNCHANGED <<exists, disk, oldDisk, handle, flushed, doing, left, settings, saved>>

Flushes ==
    /\ handle
    /\ flushed < printed
    /\ disk' = Put(flushed, flushed + 1)
    /\ flushed' = flushed + 1
    /\ UNCHANGED <<exists, oldDisk, handle, printed, doing, left, settings, saved>>

\* close(): what a full disk does not take is lost without a word.
Closes ==
    /\ doing = "print"
    /\ printed = Units
    /\ \/ handle /\ \E n \in flushed .. printed : disk' = Put(flushed, n)
       \/ ~handle /\ UNCHANGED disk
    /\ saved' = [said |-> FALSE, opened |-> handle, what |-> settings]
    /\ handle' = FALSE
    /\ doing' = "verify"
    /\ UNCHANGED <<exists, oldDisk, printed, flushed, left, settings>>

\* Mutant: any text at all is a saved configuration.
AcceptsAny(text) == Len(text) > 0

Accepts(text) == Commas(text) = Fields - 1

\* exists(), read, count; then the answer or another try.
VerifyAccepts ==
    /\ doing = "verify"
    /\ exists
    /\ Accepts(disk)
    /\ saved' = [saved EXCEPT !.said = TRUE]
    /\ doing' = "run"
    /\ UNCHANGED <<exists, disk, oldDisk, handle, printed, flushed, left, settings>>

\* There is no file, it is short, or it cannot be opened for reading.
VerifyRefuses ==
    /\ doing = "verify"
    /\ left = 0
    /\ saved' = Nothing
    /\ doing' = "run"
    /\ UNCHANGED <<exists, disk, oldDisk, handle, printed, flushed, left, settings>>

VerifyRetries ==
    /\ doing = "verify"
    /\ left > 0
    /\ Save(left - 1)
    /\ UNCHANGED <<exists, disk, oldDisk>>

-----------------------------------------------------------------------------
(* The settings, the files, the host program.                              *)

Change ==
    /\ doing = "run"
    /\ settings' \in [ver : Fresh, zone : Zones]
    /\ UNCHANGED <<exists, disk, oldDisk, handle, printed, flushed, doing, left, saved>>

\* AT&F: both files are removed, the clock is reset, and what is there is
\* loaded.
Factory ==
    /\ doing = "run"
    /\ RemovesConfig
    /\ doing' = "factory"
    /\ saved' = Nothing
    /\ UNCHANGED <<oldDisk, handle, printed, flushed, left, settings>>

FactoryOld ==
    /\ doing = "factory"
    /\ RemovesOld
    /\ settings' = Reset(settings)
    /\ doing' = "reload"
    /\ UNCHANGED <<exists, disk, handle, printed, flushed, left, saved>>

\* The end of AT&F, and AT&L.
Loads ==
    /\ doing \in {"reload", "run"}
    /\ settings' \in Loaded(settings.zone)
    /\ doing' = "run"
    /\ UNCHANGED <<exists, disk, oldDisk, handle, printed, flushed, left, saved>>

\* AT&F86: a load, the clock, format(), which removes what it can, and a save.
FormatLoads ==
    /\ doing = "run"
    /\ \E s \in Loaded(settings.zone) : settings' = Reset(s)
    /\ doing' = "format"
    /\ UNCHANGED <<exists, disk, oldDisk, handle, printed, flushed, left, saved>>

Format ==
    /\ doing = "format"
    /\ RemovesConfig
    /\ RemovesOld
    /\ Save(Again)

\* The host program ends: what stdio has not written out is gone.
Killed ==
    /\ doing # "off"
    /\ doing' = "off"
    /\ handle' = FALSE
    /\ saved' = IF saved.said THEN saved ELSE Nothing
    /\ UNCHANGED <<exists, disk, oldDisk, printed, flushed, left, settings>>

Boots ==
    /\ doing = "off"
    /\ doing' = "run"
    /\ settings' \in Loaded(Default.zone)
    /\ UNCHANGED <<exists, disk, oldDisk, handle, printed, flushed, left, saved>>

-----------------------------------------------------------------------------
FilesNext ==
    \/ AtSave \/ RemoveOld \/ RemoveConfig \/ Opens \/ Prints \/ Flushes \/ Closes
    \/ VerifyAccepts \/ VerifyRefuses \/ VerifyRetries
    \/ Change \/ Factory \/ FactoryOld \/ Loads \/ FormatLoads \/ Format
    \/ Killed \/ Boots

FilesSpec == FilesInit /\ [][FilesNext]_fileVars

FilesTypeOK ==
    /\ exists \in BOOLEAN /\ handle \in BOOLEAN
    /\ {disk, oldDisk} \subseteq Seq(Settings)
    /\ Len(disk) <= Units
    /\ flushed \in 0 .. printed
    /\ printed \in 0 .. Units
    /\ doing \in {"off", "run", "old", "config", "open", "print", "verify", "factory",
                  "reload", "format"}
    /\ left \in 0 .. Again
    /\ settings \in Settings
    /\ saved \in [said : BOOLEAN, opened : BOOLEAN, what : Settings]

\* The file is one version of the settings, or the first part of one, wherever
\* a save was cut and whatever it could not remove: never the head of one and the
\* tail of another, which would parse as settings nobody made (FS.cpp:84-92,
\* zcommand.ino:370-408, 571-607).
NoMixture == \A i, j \in 1 .. Len(disk) : disk[i] = disk[j]

\* All of the settings, or all but the value of the last field, which the count of
\* commas does not see.
Stored(s) == Len(disk) >= Units - 1 /\ \A u \in 1 .. Len(disk) : disk[u] = s

\* What a save has called saved is in the file, and stays there until the next
\* save or AT&F, however often the program is killed and started, however many
\* tries were cut short by a full disk, and whatever could not be removed.
\* Excepted is a save whose open failed: nothing looks at what remove and open
\* returned, and where neither worked the file of an earlier save has as many
\* commas (zcommand.ino:370-426).
SavedIsStored == saved.said /\ saved.opened => Stored(saved.what)
=============================================================================
