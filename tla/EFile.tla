--------------------------------- MODULE EFile ---------------------------------
(***************************************************************************)
(* The file system of RTOS_Labs_common/eFile.c under the commands of       *)
(* Interpreter.c: a directory in RAM and on sector 0, a chain of sectors   *)
(* for every file and one for the free sectors.                            *)
(*                                                                         *)
(* A call is cut where it has written a sector, because power may be lost  *)
(* there; every access to the disk may fail.  A byte is the name of the    *)
(* file it was written to.  prev_sector is never read and left out.        *)
(***************************************************************************)
EXTENDS Integers, Sequences, FiniteSetsExt

CONSTANTS
  Names,            (* of files                                              *)
  NoName,           (* the empty string                                      *)
  NUM_FILES,        (* entries of the directory, the last one for free space *)
  NUM_SECTORS,      (* of the disk                                           *)
  MAX_SECTOR_DATA   (* bytes of a sector                                     *)

ASSUME EFileAssumption ==
  /\ NoName \notin Names
  /\ {NUM_FILES, NUM_SECTORS, MAX_SECTOR_DATA} \subseteq Nat \ {0, 1}

VARIABLES
  diskDirectory, sector,           (* the disk: sector 0 and the others      *)
  directory, current_file, current_sector, last_sector_open,
  file_position, ReaderCount, WriterCount,
  call,      (* the command and, inside a call, its next step                *)
  local,     (* a number the call keeps across steps                         *)
  saved,     (* bytes of each file that were accepted and not lost with the  *)
             (* power                                                        *)
  damaged    (* the disk failed in a call that writes, or had no free sector, *)
             (* or lost its power while Linking, or was formatted under an   *)
             (* open file                                                    *)

disk == <<diskDirectory, sector>>
open == <<current_file, current_sector, last_sector_open, ReaderCount, WriterCount>>
vars == <<disk, directory, open, file_position, call, local, saved, damaged>>

Free    == NUM_FILES - 1
Slots   == 0..NUM_FILES - 2
Sectors == 1..NUM_SECTORS - 1
NULL    == -1
OUTSIDE == NUM_SECTORS   (* any number that is no sector of the disk *)

NoEntry == [name |-> NoName, sector |-> 0, size |-> 0]
NoBytes == [next |-> 0, data |-> <<>>]

(* What eFile_Format leaves. *)
BlankDirectory ==
  [i \in 0..Free |-> IF i = Free THEN [NoEntry EXCEPT !.sector = 1, !.size = NUM_SECTORS - 1]
                                 ELSE NoEntry]

UnendedFreeSector(s) == [NoBytes EXCEPT !.next = s + 1]

FreeSector(s) == [NoBytes EXCEPT !.next = (s + 1) % NUM_SECTORS]

NothingOpen ==
  /\ current_file' = NULL
  /\ current_sector' = NoBytes
  /\ last_sector_open' = -1

Nothing == [n \in Names |-> 0]

(* A formatted disk, mounted. *)
Init ==
  /\ diskDirectory = BlankDirectory
  /\ sector = [s \in Sectors |-> FreeSector(s)]
  /\ directory = BlankDirectory
  /\ current_file = NULL
  /\ current_sector = NoBytes
  /\ last_sector_open = -1
  /\ file_position = 0
  /\ ReaderCount = 0
  /\ WriterCount = 0
  /\ call = "none"
  /\ local = 0
  /\ saved = Nothing
  /\ damaged = FALSE

Slot(n) == {i \in Slots : directory[i].name = n}

Goto(step) == call' = step /\ UNCHANGED <<local, damaged>>

(* The disk reports an error: the call returns 1 without undoing anything. *)
CutShort(back) ==
  /\ call' = back
  /\ damaged' = TRUE
  /\ UNCHANGED <<disk, local>>

(* No command is running.  A damaged disk is followed to the next format. *)
Prompt == call = "none" /\ ~damaged

-----------------------------------------------------------------------------
(* format: sector 0, then every other one.  On an error it returns without
   EndCritical: the interpreter waits for ever for its next character. *)
FormatDirectory ==
  /\ call = "none"
  /\ directory' = BlankDirectory
  /\ \/ /\ diskDirectory' = BlankDirectory
        /\ call' = "format"
        /\ local' = 1
        /\ UNCHANGED <<sector, damaged>>
     \/ CutShort("masked")
  /\ saved' = Nothing
  /\ UNCHANGED <<open, file_position>>

FormatSector ==
  /\ call = "format"
  /\ \/ /\ sector' = [sector EXCEPT ![local] = FreeSector(local)]
        /\ IF local = NUM_SECTORS - 1
           THEN /\ call' = "none"
                /\ local' = 0
                /\ damaged' = (WriterCount = 1)
           ELSE local' = local + 1 /\ UNCHANGED <<call, damaged>>
        /\ UNCHANGED diskDirectory
     \/ CutShort("masked")
  /\ UNCHANGED <<directory, open, file_position, saved>>

(* mount reads sector 0.  What is open stays open. *)
eFile_Mount ==
  /\ Prompt
  /\ directory' = diskDirectory
  /\ UNCHANGED <<disk, open, file_position, call, local, saved, damaged>>

-----------------------------------------------------------------------------
(* touch.  The first slot that is unused, the entry of the free chain if
   there is none (line 181). *)
FreeSlot ==
  LET unused == {i \in Slots : directory[i].name = NoName /\ directory[i].sector = 0}
  IN  IF unused = {} THEN Free ELSE Min(unused)

NewEntry(n) == [name |-> n, sector |-> directory[Free].sector, size |-> 0]

CreateEntry(n) ==
  /\ Prompt
  /\ Slot(n) = {}
  /\ directory' = [directory EXCEPT ![FreeSlot] = NewEntry(n)]
  /\ \/ /\ directory[Free].sector # 0
        /\ local' = sector[directory[Free].sector].next
        /\ call' = "create sector"
        /\ UNCHANGED <<disk, damaged>>
     \/ CutShort("none")
  /\ UNCHANGED <<open, file_position, saved>>

CreateSector ==
  /\ call = "create sector"
  /\ \/ /\ sector' = [sector EXCEPT ![directory[Free].sector] = NoBytes]
        /\ Goto("create directory")
        /\ UNCHANGED diskDirectory
     \/ CutShort("none")
  /\ UNCHANGED <<directory, open, file_position, saved>>

FreeKept(s) == [directory EXCEPT ![Free].size = @ - 1]

(* The slot of the new file, which is not on the disk yet. *)
Created == {i \in Slots : directory[i].sector = directory[Free].sector}

(* The free chain without its first sector. *)
FreeFrom(s) == [directory EXCEPT ![Free].sector = s, ![Free].size = @ - 1]

CreateDirectory ==
  /\ call = "create directory"
  /\ directory' = FreeFrom(local)
  /\ \/ /\ diskDirectory' = directory'
        /\ call' = "none"
        /\ local' = 0
        /\ saved' = [n \in Names |-> IF \E i \in Created : directory[i].name = n THEN 0
                                     ELSE saved[n]]
        /\ UNCHANGED <<sector, damaged>>
     \/ CutShort("none") /\ UNCHANGED saved
  /\ UNCHANGED <<open, file_position>>

-----------------------------------------------------------------------------
(* write: eFile_WOpen reads the chain to its last sector. *)
eFile_WOpen(n) ==
  /\ Prompt
  /\ WriterCount = 0 /\ ReaderCount = 0
  /\ \E i \in Slot(n) :
       /\ current_file' = i
       /\ \/ /\ current_sector' = sector[directory[i].sector]
             /\ last_sector_open' = directory[i].sector
             /\ Goto("walk")
          \/ Goto("none") /\ UNCHANGED <<current_sector, last_sector_open>>
  /\ UNCHANGED <<disk, directory, file_position, ReaderCount, WriterCount, saved>>

WOpenWalk ==
  /\ call = "walk"
  /\ IF current_sector.next = 0
     THEN /\ WriterCount' = 1
          /\ Goto("write")
          /\ UNCHANGED <<current_sector, last_sector_open>>
     ELSE /\ \/ /\ current_sector' = sector[current_sector.next]
                /\ last_sector_open' = current_sector.next
                /\ Goto("walk")
             \/ last_sector_open' = -1 /\ Goto("none") /\ UNCHANGED current_sector
          /\ UNCHANGED WriterCount
  /\ UNCHANGED <<disk, directory, current_file, file_position, ReaderCount, saved>>

Writer == directory[current_file].name

OneByteMore(dir) == [dir EXCEPT ![current_file].size = @ + 1]

(* eFile_Write in a sector with room: RAM only. *)
FullIsRoom == Len(current_sector.data) <= MAX_SECTOR_DATA

HasRoom == Len(current_sector.data) < MAX_SECTOR_DATA

WriteByte ==
  /\ call = "write" /\ ~damaged
  /\ HasRoom
  /\ current_sector' = [current_sector EXCEPT !.data = Append(@, Writer)]
  /\ directory' = OneByteMore(directory)
  /\ saved' = [saved EXCEPT ![Writer] = @ + 1]
  /\ UNCHANGED <<disk, current_file, last_sector_open, file_position, ReaderCount,
                 WriterCount, call, local, damaged>>

(* In a full one: link a free sector, take it off the free chain, write it. *)
WriteLink ==
  /\ call = "write" /\ ~damaged
  /\ ~HasRoom
  /\ current_sector' = [current_sector EXCEPT !.next = directory[Free].sector]
  /\ \/ /\ directory[Free].sector # 0
        /\ sector' = [sector EXCEPT ![last_sector_open] = current_sector']
        /\ Goto("write directory")
        /\ UNCHANGED diskDirectory
     \/ CutShort("write")
  /\ UNCHANGED <<directory, current_file, last_sector_open, file_position, ReaderCount,
                 WriterCount, saved>>

WriteDirectory ==
  /\ call = "write directory"
  /\ \/ /\ directory' = FreeFrom(sector[directory[Free].sector].next)
        /\ \/ /\ diskDirectory' = directory'
              /\ Goto("write sector")
              /\ UNCHANGED sector
           \/ CutShort("write")
     \/ CutShort("write") /\ UNCHANGED directory
  /\ UNCHANGED <<open, file_position, saved>>

WriteSector ==
  /\ call = "write sector"
  /\ last_sector_open' = current_sector.next
  /\ current_sector' = [next |-> 0, data |-> <<Writer>>]
  /\ directory' = OneByteMore(directory)
  /\ \/ /\ sector' = [sector EXCEPT ![last_sector_open'] = current_sector']
        /\ saved' = [saved EXCEPT ![Writer] = @ + 1]
        /\ Goto("write")
        /\ UNCHANGED diskDirectory
     \/ CutShort("write") /\ UNCHANGED saved
  /\ UNCHANGED <<current_file, file_position, ReaderCount, WriterCount>>

NotWritten == sector

Written == [sector EXCEPT ![last_sector_open] = current_sector]

(* At the end of the command write, or first thing in unmount. *)
eFile_WClose ==
  /\ call \in {"write", "none"}
  /\ WriterCount = 1
  /\ call' = "none"
  /\ \/ /\ sector' = Written
        /\ NothingOpen
        /\ WriterCount' = 0
        /\ UNCHANGED <<diskDirectory, local, damaged, ReaderCount>>
     \/ CutShort("none") /\ UNCHANGED open
  /\ UNCHANGED <<directory, file_position, saved>>

-----------------------------------------------------------------------------
(* read.  Reading goes on until the disk fails: no size is looked at. *)
eFile_ROpen(n) ==
  /\ Prompt
  /\ WriterCount = 0
  /\ \E i \in Slot(n) :
       /\ current_file' = i
       /\ last_sector_open' = directory[i].sector
       /\ \/ /\ current_sector' = sector[directory[i].sector]
             /\ ReaderCount' = 1
             /\ Goto("read")
          \/ Goto("none") /\ UNCHANGED <<current_sector, ReaderCount>>
  /\ UNCHANGED <<disk, directory, file_position, WriterCount, saved>>

(* The sector behind the last one is 0, the directory: as a file's sector it
   has a next_sector made of the first letters of a name. *)
NextBlock ==
  IF current_sector.next = 0 THEN {[next |-> s, data |-> <<>>] : s \in {0, OUTSIDE}}
  ELSE {sector[s] : s \in {current_sector.next} \ {OUTSIDE}}

ReadNext ==
  /\ call = "read"
  /\ IF file_position = MAX_SECTOR_DATA
     THEN \/ /\ current_sector' \in NextBlock
             /\ file_position' = 1
             /\ Goto("read")
          \/ /\ file_position' = 0
             /\ Goto("end of read")
             /\ UNCHANGED current_sector
     ELSE /\ file_position' = file_position + 1
          /\ UNCHANGED <<current_sector, call, local, damaged>>
  /\ UNCHANGED <<disk, directory, current_file, last_sector_open, ReaderCount,
                 WriterCount, saved>>

eFile_RClose ==
  /\ call = "end of read"
  /\ NothingOpen
  /\ ReaderCount' = 0
  /\ file_position' = 0
  /\ Goto("none")
  /\ UNCHANGED <<disk, directory, WriterCount, saved>>

-----------------------------------------------------------------------------
(* delete: in RAM only, and the sectors stay lost. *)
eFile_Delete(n) ==
  /\ Prompt
  /\ \E i \in Slot(n) : directory' = [directory EXCEPT ![i] = NoEntry]
  /\ UNCHANGED <<disk, open, file_position, call, local, saved, damaged>>

(* unmount, after eFile_WClose. *)
eFile_Unmount ==
  /\ Prompt
  /\ WriterCount = 0
  /\ \/ diskDirectory' = directory /\ UNCHANGED <<sector, call, local, damaged>>
     \/ CutShort("none")
  /\ UNCHANGED <<directory, open, file_position, saved>>

(* eFile_Write has linked the first free sector to the file (line 334).  Until it
   has written the directory (349) that sector is in both chains on the disk, and
   until it has written the sector (367) the file leads from it into the free
   chain.  A boot in between goes on with such a disk. *)
Linking == call \in {"write directory", "write sector"}

(* Bytes that are in current_sector only. *)
Unwritten == IF WriterCount = 1
             THEN Len(current_sector.data) - Len(sector[last_sector_open].data)
             ELSE 0

(* The next boot mounts the disk. *)
PowerLoss ==
  /\ directory' = diskDirectory
  /\ NothingOpen
  /\ ReaderCount' = 0
  /\ WriterCount' = 0
  /\ file_position' = 0
  /\ call' = "none"
  /\ local' = 0
  /\ damaged' = (damaged \/ Linking)
  /\ saved' = IF damaged' THEN Nothing
              ELSE [n \in Names |-> IF WriterCount = 1 /\ Writer = n
                                    THEN saved[n] - Unwritten ELSE saved[n]]
  /\ UNCHANGED disk

Calls ==
  \/ FormatDirectory \/ FormatSector \/ eFile_Mount
  \/ CreateSector \/ CreateDirectory
  \/ WOpenWalk \/ WriteByte \/ WriteLink \/ WriteDirectory \/ WriteSector \/ eFile_WClose
  \/ ReadNext \/ eFile_RClose \/ eFile_Unmount
  \/ \E n \in Names : CreateEntry(n) \/ eFile_WOpen(n) \/ eFile_ROpen(n) \/ eFile_Delete(n)

Next == Calls \/ PowerLoss

Spec == Init /\ [][Next]_vars

-----------------------------------------------------------------------------
TypeOK ==
  LET Entry == [name : Names \cup {NoName}, sector : 0..NUM_SECTORS - 1, size : Int]
      Block == [next : 0..OUTSIDE, data : Seq(Names)]
  IN  /\ {directory, diskDirectory} \subseteq [0..Free -> Entry]
      /\ sector \in [Sectors -> Block]
      /\ current_sector \in Block
      /\ current_file \in Slots \cup {NULL}
      /\ last_sector_open \in Sectors \cup {-1}
      /\ file_position \in 0..MAX_SECTOR_DATA
      /\ {ReaderCount, WriterCount} \subseteq {0, 1}
      /\ saved \in [Names -> Nat]
      /\ damaged \in BOOLEAN

(* The sectors as calls see them: the open one is in RAM. *)
View == IF WriterCount = 1 THEN [sector EXCEPT ![last_sector_open] = current_sector]
                           ELSE sector

(* The walk along the chain from s, which takes NUM_SECTORS steps at most. *)
Walk(sec, s) ==
  LET at[k \in 0..NUM_SECTORS] ==
        IF k = 0 THEN s ELSE IF at[k - 1] = 0 THEN 0 ELSE sec[at[k - 1]].next
  IN  at
Chain(sec, s) == {Walk(sec, s)[k] : k \in 0..NUM_SECTORS} \ {0}
Ends(sec, s)  == Walk(sec, s)[NUM_SECTORS] = 0

Named == {i \in Slots : directory[i].name # NoName}

(* The chain from s holds k bytes of n and no other, in sectors of which all
   but the last are full. *)
Holds(sec, s, n, k) ==
  LET chain == Chain(sec, s)
  IN  /\ Ends(sec, s)
      /\ \A t \in chain :
           /\ \A p \in DOMAIN sec[t].data : sec[t].data[p] = n
           /\ Len(sec[t].data) \in (IF sec[t].next = 0 THEN 0 ELSE MAX_SECTOR_DATA)..MAX_SECTOR_DATA
      /\ MapThenSumSet(LAMBDA t : Len(sec[t].data), chain) = k

(* Inside a call that changes what the chains are. *)
Allocating ==
  call \in {"format", "create sector", "create directory"} \/ Linking

Consistent == ~damaged /\ ~Allocating

(* Between calls the chains of files and free space end and share no sector,
   whatever was created, extended, deleted and mounted again in between, and at
   whatever sector write of touch, format or the closing of a file the power went.
   Nothing is said of a damaged disk, on which they do meet: when the power goes
   while Linking, the file leads to the sector that the next touch allocates. *)
ChainsApart ==
  Consistent =>
    /\ \A i \in Named \cup {Free} : Ends(View, directory[i].sector)
    /\ \A i, j \in Named \cup {Free} :
         i # j => Chain(View, directory[i].sector) \cap Chain(View, directory[j].sector) = {}

(* Between calls a file has all bytes that eFile_Write accepted for it, and no
   others: nothing is lost at a sector boundary, by closing or by the calls on
   other files.  Its size in RAM counts none that are not there. *)
BytesKept ==
  Consistent => \A i \in Named :
    LET e == directory[i]
    IN  Holds(View, e.sector, e.name, saved[e.name]) /\ e.size <= saved[e.name]

(* The file the call in progress works on. *)
AtRisk ==
  CASE Linking -> {current_file}
    [] call \in {"create sector", "create directory"} -> Created
    [] OTHER -> {}

(* At any moment, also between two sector writes of one call, the disk alone has
   every other file: its entry, and its bytes but those of the open sector.  The
   size on the disk is older, because eFile_WClose does not write it. *)
SurvivesPowerLoss ==
  ~damaged =>
    \A i \in Named \ AtRisk :
      LET e == directory[i]
          lost == IF i = current_file THEN Unwritten ELSE 0
      IN  /\ diskDirectory[i].name = e.name
          /\ diskDirectory[i].sector = e.sector
          /\ diskDirectory[i].size <= e.size
          /\ Holds(sector, e.sector, e.name, saved[e.name] - lost)
=============================================================================
