-------------------------------- MODULE Fat --------------------------------
(***************************************************************************)
(* fs::fat::read_bpb and fs::fat::list_root (src/fs/fat.rs) over a        *)
(* symbolic disk read through block::AtaDevice and ata::read_sector_lba28, *)
(* and a reference listing of a FAT16 root directory.                      *)
(*                                                                         *)
(* A disk keeps what the code reads of it: the boot sector signature and   *)
(* the BPB fields list_root uses, its size in sectors, the status the      *)
(* drive shows for each sector, and each sector seen as directory entries. *)
(* A sector is a sequence of entries (16 in the code, 2 here).  An entry *)
(* keeps its first name byte (0x00 "zero", 0xE5 "e5" or a name "char"),   *)
(* its attribute (0x0F "lfn", 0x08 "label", otherwise "file") and its      *)
(* 8.3 name as two sequences of characters (base and extension), shorter   *)
(* than the 8 and 3 bytes of the code.                                      *)
(***************************************************************************)
EXTENDS Naturals, Sequences, SequencesExt

CONSTANTS
  Disks,        \* the disks considered (the disk read is one of them)
  ScanSectors,  \* sectors list_root reads from the root (32 in the code)
  MaxNames,     \* capacity of the heapless::Vec of names (128 in the code)
  Panic,        \* model value: division by zero (kernel panic)
  Hang,         \* model value: read_sector_lba28 spins for ever
  NoBpb         \* model value: read_bpb returned None

VARIABLE disk

(* ata::read_sector_lba28, lines 24-28: poll the status until DRQ (0x08)  *)
(* or ERR (0x01).  A sector past the end of the disk fails with ERR; a    *)
(* drive showing neither bit keeps the loop spinning.  AtaDevice copies   *)
(* the 256 words into the buffer.                                         *)
SectorStatus(d, lba) == IF lba < d.size THEN d.status[lba] ELSE "err"

(* AtaDevice::read_sector: true when the drive raised DRQ. *)
ReadSectorOk(d, lba) == SectorStatus(d, lba) = "drq"

(* read_bpb, lines 15-33: None without the 0x55AA signature; the FAT size *)
(* from the 16-bit field or else the 32-bit one; root_dir_sectors divides *)
(* by bytes per sector, which panics when BPB_BytsPerSec is 0.  Fields    *)
(* list_root does not read (spc, total, first_data, fat_bits) are left    *)
(* out.                                                                   *)
ReadBpb(d) ==
  CASE SectorStatus(d, 0) = "busy" -> Hang
    [] ~ReadSectorOk(d, 0)         -> NoBpb
    [] ~d.sig                      -> NoBpb
    [] d.bps = 0                   -> Panic
    [] OTHER ->
         LET fatsz == IF d.fatsz16 # 0 THEN d.fatsz16 ELSE d.fatsz32
         IN [bps |-> d.bps, rsv |-> d.rsv, nfats |-> d.nfats, fatsz |-> fatsz,
             rootDirSectors |-> (d.rootEntries * 32 + (d.bps - 1)) \div d.bps]

RootLba(b) == b.rsv + b.nfats * b.fatsz

NotSpace(c) == c # " "

(* Lines 50-52: the name bytes without spaces, then a dot and the         *)
(* extension without spaces when its first byte is not a space.           *)
FormatName(e) ==
  SelectSeq(e.base, NotSpace)
    \o (IF e.ext[1] # " " THEN <<".">> \o SelectSeq(e.ext, NotSpace) ELSE <<>>)

SkippedDeletedOnly(e) == e.b0 = "e5"

(* Line 49: deleted and long-name entries are skipped. *)
Skipped(e) == e.b0 = "e5" \/ e.attr = "lfn"

(* Line 53: out.push(s) on a full Vec fails and is ignored. *)
PushName(out, s) == IF Len(out) < MaxNames THEN Append(out, s) ELSE out

(* Lines 45-54, one sector from entry i: a 0x00 first byte ends this      *)
(* sector only (the inner loop's break).                                  *)
RECURSIVE ListSector(_, _, _)
ListSector(es, i, out) ==
  CASE i > Len(es)       -> out
    [] es[i].b0 = "zero" -> out
    [] Skipped(es[i])    -> ListSector(es, i + 1, out)
    [] OTHER             -> ListSector(es, i + 1, PushName(out, FormatName(es[i])))

(* Lines 42-56: ScanSectors sectors from lba on, stopping at the first    *)
(* failed read; k sectors are done.                                       *)
RECURSIVE ScanRoot(_, _, _, _)
ScanRoot(d, lba, k, out) ==
  CASE k = ScanSectors                  -> out
    [] SectorStatus(d, lba) = "busy"    -> Hang
    [] ~ReadSectorOk(d, lba)            -> out
    [] OTHER -> ScanRoot(d, lba + 1, k + 1, ListSector(d.dir[lba], 1, out))

(* list_root, lines 35-59: the names, or the panic or hang of a read. *)
ListRoot(d) ==
  LET b == ReadBpb(d)
  IN CASE b \in {Panic, Hang} -> b
       [] b = NoBpb           -> <<>>
       [] OTHER               -> ScanRoot(d, RootLba(b), 0, <<>>)

----------------------------------------------------------------------------
(* Reference, from the FAT specification: the root directory of FAT16 is *)
(* root_dir_sectors sectors from rsv + nfats * fatsz; the first entry     *)
(* whose name starts with 0x00 ends the directory; free (0xE5), long-name *)
(* and volume-label entries are not files; a name is the base without    *)
(* its trailing spaces, then a dot and the extension without trailing     *)
(* spaces when the extension is not blank.                                *)
RECURSIVE TrimRight(_)
TrimRight(s) == IF s # <<>> /\ Last(s) = " " THEN TrimRight(Front(s)) ELSE s

RefName(e) ==
  TrimRight(e.base)
    \o (IF TrimRight(e.ext) # <<>> THEN <<".">> \o TrimRight(e.ext) ELSE <<>>)

RootEntries(d) ==
  LET b == ReadBpb(d)
  IN FlattenSeq([k \in 1 .. b.rootDirSectors |-> d.dir[RootLba(b) + k - 1]])

(* The entries before the end marker. *)
InUse(d) ==
  LET es == RootEntries(d)
      ends == {i \in DOMAIN es : es[i].b0 = "zero"}
  IN IF ends = {} THEN es ELSE SubSeq(es, 1, Min(ends) - 1)

IsFileEntry(e) == e.b0 # "e5" /\ e.attr \notin {"lfn", "label"}

RefList(d) ==
  LET files == SelectSeq(InUse(d), IsFileEntry)
  IN [i \in DOMAIN files |-> RefName(files[i])]

(* A volume as mkfs.fat -F 16 makes it without a label: 512-byte sectors, *)
(* a root of 32 sectors (512 entries), every entry after the end marker   *)
(* free, every sector readable.                                           *)
Standard(d) ==
  /\ ReadSectorOk(d, 0)
  /\ d.sig /\ d.bps = 512
  /\ ReadBpb(d).rootDirSectors = ScanSectors
  /\ \A k \in 0 .. ScanSectors - 1 : ReadSectorOk(d, RootLba(ReadBpb(d)) + k)
  /\ LET es == RootEntries(d)
     IN /\ \A i, j \in DOMAIN es : i < j /\ es[i].b0 = "zero" => es[j].b0 = "zero"
        /\ \A i \in DOMAIN es : es[i].attr = "label" => es[i].b0 # "char"

Init == disk \in Disks
Next == UNCHANGED disk
Spec == Init /\ [][Next]_disk

----------------------------------------------------------------------------
(* On every standard FAT16 volume list_root lists the files of the root  *)
(* directory, in order, under their 8.3 names, up to the capacity of its *)
(* Vec: its 32-sector scan, per-sector end marker, skip rule and name     *)
(* formatting agree with the FAT specification there, and a root with    *)
(* more files than the Vec holds loses exactly the ones past the cap.    *)
ListRootAgrees ==
  Standard(disk) =>
    ListRoot(disk) = SubSeq(RefList(disk), 1, Min({Len(RefList(disk)), MaxNames}))

=============================================================================
