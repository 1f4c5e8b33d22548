------------------------------ MODULE FatFile ------------------------------
(***************************************************************************)
(* fs::fat::read_file_root_8_3 and read_chain_fat16 (src/fs/fat.rs lines  *)
(* 61-118): find a file in the FAT16 root by its 8.3 name, then follow    *)
(* its cluster chain through the FAT and copy its data, and a reference   *)
(* file read from the FAT specification.  The disk is that of module Fat, *)
(* whose entries also keep their first cluster (clus) and size, and which *)
(* also keeps its FAT as the sequence of 16-bit entries (fat, indexed     *)
(* from cluster 0).                                                        *)
(*                                                                         *)
(* The data read is a sequence of pieces [lba, n]: the first n bytes of   *)
(* sector lba.  A copy of 0 bytes adds nothing.  A name is a sequence of  *)
(* characters, as in Fat.                                                  *)
(***************************************************************************)
EXTENDS Naturals, Sequences, SequencesExt

CONSTANTS
  Disks, ScanSectors, MaxNames, Panic, Hang, NoBpb,  \* as in module Fat
  Wanted,       \* the names read_file_root_8_3 is called with
  NoFile,       \* model value: the read returned None
  Unread        \* model value: no read has been made

VARIABLES
  disk,         \* the disk, as in Fat
  want,         \* the name83 argument
  got           \* what the read returned, or Unread

F == INSTANCE Fat

EOC == 65528    \* 0xFFF8: entries at or above it end a chain
SectorBytes == 512

Upper(ch) == CASE ch = "a" -> "A" [] ch = "b" -> "B" [] ch = "c" -> "C"
                  [] OTHER -> ch

(* Line 78: s.as_str().eq_ignore_ascii_case(name83). *)
EqIgnoreCase(s, t) ==
  Len(s) = Len(t) /\ \A i \in DOMAIN s : Upper(s[i]) = Upper(t[i])

(* Lines 28 and 30: fat_start and first_data of read_bpb. *)
FatStart(b) == b.rsv
FirstData(b) == b.rsv + b.nfats * b.fatsz + b.rootDirSectors

(* Lines 109-113: the FAT entry of cluster c, read from the sector and    *)
(* offset its two bytes lie at, or NoFile when that sector fails.         *)
FatEntry(d, b, c) ==
  LET sector == FatStart(b) + (c * 2) \div b.bps
      off    == (c * 2) % b.bps
  IN CASE F!SectorStatus(d, sector) = "busy" -> Hang
       [] ~F!ReadSectorOk(d, sector)        -> NoFile
       [] OTHER -> d.fat[((sector - FatStart(b)) * b.bps + off) \div 2 + 1]

(* Mutant: the data area taken to start with cluster 0. *)
DataLbaNoOffset(b, c) == FirstData(b) + c

(* Line 100: first_data + (cluster - 2) * spc, with spc fixed at 1. *)
DataLba(b, c) == FirstData(b) + c - 2

(* Line 103: min(512, remaining). *)
ToCopy(remaining) == IF remaining < SectorBytes THEN remaining ELSE SectorBytes

AddPiece(out, lba, n) == IF n = 0 THEN out ELSE Append(out, [lba |-> lba, n |-> n])

(* Lines 99-116, from cluster on with remaining bytes to copy.  Once      *)
(* remaining is 0 the loop keeps following the chain and reading its      *)
(* sectors; it spins for ever when it comes back to a cluster it has     *)
(* been at with nothing left to copy (seen), and it leaves only at a     *)
(* cluster below 2 or at or above 0xFFF8, or on a FAT entry at or above   *)
(* 0xFFF8.  Each step reads the cluster's sector before its FAT entry.   *)
RECURSIVE ReadChain(_, _, _, _, _, _)
ReadChain(d, b, cluster, remaining, out, seen) ==
  LET lba == DataLba(b, cluster)
      n   == ToCopy(remaining)
      next == FatEntry(d, b, cluster)
  IN CASE cluster < 2 \/ cluster >= EOC         -> out
       [] remaining = 0 /\ cluster \in seen     -> Hang
       [] F!SectorStatus(d, lba) = "busy"       -> Hang
       [] ~F!ReadSectorOk(d, lba)               -> NoFile
       [] next \in {Hang, NoFile}               -> next
       [] next >= EOC                           -> AddPiece(out, lba, n)
       [] OTHER -> ReadChain(d, b, next, remaining - n, AddPiece(out, lba, n),
                             IF remaining = 0 THEN seen \cup {cluster} ELSE seen)

(* read_chain_fat16, lines 91-118: read_bpb again, then the walk. *)
ReadChainFat16(d, cluster, size) ==
  LET b == F!ReadBpb(d)
  IN IF b \in {Panic, Hang} THEN b
     ELSE IF b = NoBpb THEN NoFile
     ELSE ReadChain(d, b, cluster, size, <<>>, {})

(* Lines 70-85, one sector from entry i: the first entry whose name      *)
(* matches, skipping deleted and long-name entries, as a sequence of    *)
(* one entry, or <<>> when the sector holds none.                          *)
RECURSIVE FindInSector(_, _, _)
FindInSector(es, i, name) ==
  CASE i > Len(es)                                 -> <<>>
    [] es[i].b0 = "zero"                           -> <<>>
    [] F!Skipped(es[i])                            -> FindInSector(es, i + 1, name)
    [] EqIgnoreCase(F!FormatName(es[i]), name)     -> <<es[i]>>
    [] OTHER                                       -> FindInSector(es, i + 1, name)

(* Lines 66-88: ScanSectors root sectors, stopping at a failed read. *)
RECURSIVE FindRoot(_, _, _, _)
FindRoot(d, lba, k, name) ==
  CASE k = ScanSectors                 -> NoFile
    [] F!SectorStatus(d, lba) = "busy" -> Hang
    [] ~F!ReadSectorOk(d, lba)         -> NoFile
    [] OTHER ->
         LET e == FindInSector(d.dir[lba], 1, name)
         IN IF e = <<>> THEN FindRoot(d, lba + 1, k + 1, name) ELSE e[1]

(* read_file_root_8_3, lines 61-89. *)
ReadFileRoot83(d, name) ==
  LET b == F!ReadBpb(d)
  IN CASE b \in {Panic, Hang} -> b
       [] b = NoBpb           -> NoFile
       [] OTHER ->
            LET e == FindRoot(d, F!RootLba(b), 0, name)
            IN IF e \in {NoFile, Hang} THEN e
               ELSE ReadChainFat16(d, e.clus, e.size)

Init == disk \in Disks /\ want \in Wanted /\ got = Unread

Read ==
  /\ got = Unread
  /\ got' = ReadFileRoot83(disk, want)
  /\ UNCHANGED <<disk, want>>

Done == got # Unread /\ UNCHANGED <<disk, want, got>>

Next == Read \/ Done

----------------------------------------------------------------------------
(* Reference, from the FAT specification: a file's data are the sectors *)
(* of its cluster chain (one sector per cluster here), from its first   *)
(* cluster through the FAT to the end-of-chain mark, cut to its size.    *)
RECURSIVE Chain(_, _, _)
Chain(d, c, fuel) ==
  IF c < 2 \/ c >= EOC \/ c + 1 > Len(d.fat) \/ fuel = 0 THEN <<>>
  ELSE <<c>> \o Chain(d, d.fat[c + 1], fuel - 1)

ChainOf(d, e) == Chain(d, e.clus, Len(d.fat))

RefData(d, e) ==
  LET b  == F!ReadBpb(d)
      cs == ChainOf(d, e)
  IN [k \in DOMAIN cs |->
        [lba |-> FirstData(b) + cs[k] - 2,
         n   |-> IF e.size - (k - 1) * SectorBytes < SectorBytes
                   THEN e.size - (k - 1) * SectorBytes ELSE SectorBytes]]

RefMatches(d, name) ==
  LET files == SelectSeq(F!InUse(d), F!IsFileEntry)
  IN {i \in DOMAIN files : EqIgnoreCase(F!RefName(files[i]), name)}

RefRead(d, name) ==
  LET files == SelectSeq(F!InUse(d), F!IsFileEntry)
      ms == RefMatches(d, name)
  IN IF ms = {} THEN NoFile ELSE RefData(d, files[Min(ms)])

(* A volume fsck.fat accepts, as Fat's Standard: besides, the chain of   *)
(* every file is free of cycles, ends in the end-of-chain mark after    *)
(* exactly one cluster per 512 bytes of its size, and has every sector   *)
(* readable, and an empty file has no cluster.                           *)
GoodChain(d, e) ==
  LET b == F!ReadBpb(d)
      cs == ChainOf(d, e)
  IN /\ Len(cs) * SectorBytes >= e.size
     /\ Len(cs) * SectorBytes < e.size + SectorBytes
     /\ e.size = 0 => e.clus = 0
     /\ \A k \in DOMAIN cs : d.fat[cs[k] + 1] >= EOC <=> k = Len(cs)
     /\ \A k \in DOMAIN cs : F!ReadSectorOk(d, FirstData(b) + cs[k] - 2)
     /\ F!ReadSectorOk(d, FatStart(b))

StandardFiles(d) ==
  /\ F!Standard(d)
  /\ \A i \in DOMAIN F!InUse(d) :
       F!IsFileEntry(F!InUse(d)[i]) => GoodChain(d, F!InUse(d)[i])

(* On every volume fsck accepts, read_file_root_8_3 returns the data of  *)
(* the first root file whose name matches, ignoring case, cut to its     *)
(* size, and None when none matches: its root scan, its chain walk that  *)
(* goes on past the last byte to the end mark, and its per-cluster copy  *)
(* agree with the FAT specification.                                     *)
FileReadAgrees ==
  got # Unread /\ StandardFiles(disk) => got = RefRead(disk, want)

=============================================================================
