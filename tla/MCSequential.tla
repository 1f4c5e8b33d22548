---------------------------- MODULE MCSequential ----------------------------
(* The components that run to completion without sharing state with      *)
(* another thread, checked side by side against their references:        *)
(* elfloader::parse_elf, fs::fat::list_root, settings::load_from_lock    *)
(* followed by kernel_main's ELF inspector window, the bump allocator   *)
(* the app manager, fs::fat::read_file_root_8_3 and mm::init's frame    *)
(* list; and the e1000 descriptor rings, whose other     *)
(* party is the NIC and no other thread.  A behaviour starts from one ELF *)
(* file, one disk, one disk and name to read, one memory map, one lock file with one /bin/hello, one placement of    *)
(* HEAP, an empty APPS, or the rings as init_rings leaves them; the other *)
(* variables hold a model value or their initial value and stay put.      *)
(*                                                                         *)
(* ELF files: lengths just under and at the 64-byte header, and at the     *)
(* ends of one and two 56-byte program headers placed right after it (120, *)
(* 176) or one byte before them; up to three headers so that a third one   *)
(* lies past the end; segments inside and past the end of short files; a   *)
(* segment cap of 1 (16 in the code) so that dropping is exercised.        *)
(*                                                                         *)
(* Disks: six sectors (boot, FAT, root, data), 2 entries per sector, a     *)
(* root scan of 2 sectors (32 in the code) and a name cap of 3 (128), so   *)
(* that a full root overflows the Vec.  Geometry: FAT size from either     *)
(* field (root at LBA 2 or 3), a root of 2 sectors (the scan length) or 1, *)
(* bps 512 or 0, with or without the signature; the second root sector     *)
(* readable, failing or busy.  Every pair of entries is tried in both root *)
(* sectors.                                                                *)
EXTENDS Naturals, Sequences, SequencesExt

CONSTANTS Panic, NoImage, NoBpb, Hang, NoFile, NoDisk, NoLock, Null, NoWin,
          NoFrame, Junk, Zero

VARIABLES f, disk, lock, settings, loaded, bump, heapAt, results, hello, win,
          apps, calls, screen,
          rx, rdh, rdt, tx, tdh, tdt, arrived, received, delivered, poll,
          lastStart, send, sent, wire, fdisk, want, got, regions, frames, inited,
          next, roots, pt, tbl, mem, pc, img, root, segI, reg, off, sframes,
          copied, tasks, nSpawns, cinput, coutput, cret, chist, cticks

(* ---- ELF ---- *)
MCLens == {63, 64, 100, 119, 120, 176, 240}
MCPhdrs == [type : {1, 2}, offset : {0, 64}, vaddr : {0}, filesz : {16, 160}]

MCFiles ==
  [len : MCLens, magic : {TRUE}, class : {1, 2}, entry : {0},
   phoff : {64}, phentsize : {56},
   ph : UNION {[1 .. n -> MCPhdrs] : n \in 0 .. 3}]
  \cup
  [len : {240}, magic : {FALSE}, class : {2}, entry : {0},
   phoff : {64}, phentsize : {56}, ph : {<<>>}]

Elf == INSTANCE ElfParse WITH Files <- MCFiles, MaxSegs <- 1

(* ---- FAT ---- *)
Ent(b0, attr, base, ext) == [b0 |-> b0, attr |-> attr, base |-> base, ext |-> ext]
EEnd   == Ent("zero", "file", <<" ", " ">>, <<" ">>)
EDel   == Ent("e5", "file", <<"A", " ">>, <<" ">>)
ELfn   == Ent("char", "lfn", <<"A", "B">>, <<"C">>)
ELabel == Ent("char", "label", <<"V", "L">>, <<" ">>)
EA     == Ent("char", "file", <<"A", " ">>, <<" ">>)      \* "A"
EB     == Ent("char", "file", <<"A", "B">>, <<"C">>)      \* "AB.C"
(* A data sector read as entries. *)
DataSector == <<Ent("char", "file", <<"G", "G">>, <<"G">>), EEnd>>

MCEntries == {EEnd, EDel, ELfn, ELabel, EA, EB}
MCSectors == [1 .. 2 -> MCEntries]

MCDisk(sig, bps, fatsz16, rootEntries, st2, r1, r2) ==
  LET rootLba == IF fatsz16 # 0 THEN 2 ELSE 3
  IN [sig |-> sig, bps |-> bps, rsv |-> 1, nfats |-> 1,
      fatsz16 |-> fatsz16, fatsz32 |-> 2, rootEntries |-> rootEntries,
      size |-> 6,
      status |-> [l \in 0 .. 5 |-> IF l = rootLba + 1 THEN st2 ELSE "drq"],
      dir |-> [l \in 0 .. 5 |-> CASE l = rootLba     -> r1
                                 [] l = rootLba + 1 -> r2
                                 [] OTHER        -> DataSector]]

MCDisks ==
  {MCDisk(TRUE, 512, fz, re, "drq", r1, r2) :
      fz \in {0, 1}, re \in {16, 32}, r1 \in MCSectors, r2 \in MCSectors}
  \cup {MCDisk(sig, bps, 1, 32, st2, <<EA, EB>>, <<EB, EEnd>>) :
          sig \in BOOLEAN, bps \in {0, 512}, st2 \in {"drq", "err", "busy"}}

FatM == INSTANCE Fat WITH Disks <- MCDisks, ScanSectors <- 2, MaxNames <- 3

(* Files: the FAT layout of the disks above with one FAT sector and a   *)
(* 2-sector root; file "A" at cluster 0 or 2 with 0, 300 or 700 bytes or *)
(* deleted, "AB.C" at cluster 3 with 512 bytes, a second "A" in the next *)
(* root sector or none; every FAT entry of clusters 2-4 a link to one of *)
(* them (cycles included), the bad-cluster mark 0xFFF7 or end of chain;  *)
(* the FAT sector and cluster 3's sector readable or failing.  The names *)
(* read: "A", "ab.c" (case differs) and the absent "Z".                  *)
(* ---- FAT file read ---- *)
FEnt(b0, attr, base, ext, clus, size) ==
  [b0 |-> b0, attr |-> attr, base |-> base, ext |-> ext, clus |-> clus, size |-> size]
FEnd == FEnt("zero", "file", <<" ">>, <<" ">>, 0, 0)
FB == FEnt("char", "file", <<"A", "B">>, <<"C">>, 3, 512)
FA(clus, size) == FEnt("char", "file", <<"A", " ">>, <<" ">>, clus, size)
FDelA == FEnt("e5", "file", <<"A", " ">>, <<" ">>, 4, 512)

FileDisk(fat, stFat, stData, r1, r2) ==
  [sig |-> TRUE, bps |-> 512, rsv |-> 1, nfats |-> 1, fatsz16 |-> 1, fatsz32 |-> 0,
   rootEntries |-> 32, size |-> 7, fat |-> fat,
   status |-> [l \in 0 .. 6 |-> CASE l = 1 -> stFat [] l = 5 -> stData [] OTHER -> "drq"],
   dir |-> [l \in 0 .. 6 |-> CASE l = 2 -> r1 [] l = 3 -> r2 [] OTHER -> <<FEnd, FEnd>>]]

Links == {2, 3, 4, 65527, 65535}

MCFileDisks ==
  {FileDisk(<<65528, 65535, x, y, z>>, sf, sd, r1, r2) :
     x \in Links, y \in Links, z \in Links, sf \in {"drq", "err"}, sd \in {"drq", "err"},
     r1 \in {<<FA(c, n), FB>> : c \in {0, 2}, n \in {0, 300, 700}} \cup {<<FDelA, FB>>},
     r2 \in {<<FEnd, FEnd>>, <<FA(4, 512), FEnd>>}}

FatF == INSTANCE FatFile WITH disk <- fdisk, Disks <- MCFileDisks, ScanSectors <- 2,
          MaxNames <- 3, Wanted <- {<<"A">>, <<"a", "b", ".", "c">>, <<"Z">>},
          Unread <- Null

NoRead == fdisk = Null /\ want = Null /\ got = Null

(* Memory maps: one or two regions, usable or reserved, starting at 0, 2 *)
(* or 4 (aligned or not) and 3, 4, 8 or 9 bytes long, with frames of 4   *)
(* bytes (4096) and a Vec of 3 frames (4096), so that regions shorter   *)
(* than a frame, ending on a frame boundary or past it, and maps with   *)
(* more frames than the Vec holds all occur.                             *)
(* ---- boot memory map ---- *)
Rgn == {[kind |-> k, start |-> s, end |-> s + l] :
          k \in {"usable", "reserved"}, s \in {0, 2, 4}, l \in {3, 4, 8, 9}}

Boot == INSTANCE BootFrames WITH Maps <- UNION {[1 .. n -> Rgn] : n \in 1 .. 2},
          Page <- 4, Cap <- 3

NoBoot == regions = Null /\ frames = Null /\ inited = Null

(* ---- lock file ---- *)
H1 == <<"[", "elf", "]">>
H2 == <<" ", "[", "ui", "]">>
K1 == <<"enabled", " ", "=", " ", "no">>
K2 == <<"max_bytes", "=", "16">>
K3 == <<"max_bytes", "=", "x">>
K4 == <<"font_scale", "=", "2", "=", "3">>
K5 == <<"language", "=", "quote", "de", "quote">>
K6 == <<"#", "enabled", "=", "TRUE">>
K7 == <<"enabled", "=", "TRUE">>
Blank == <<" ">>
NoEq == <<"icons">>
MCLines == {H1, H2, K1, K2, K3, K4, K5, K6, K7, Blank, NoEq}

JoinLines(ls) == FoldLeft(LAMBDA acc, l : acc \o l \o <<"nl">>, <<>>, ls)

MCLocks ==
  {JoinLines(ls) : ls \in UNION {[1 .. n -> MCLines] : n \in 1 .. 3}}
  \cup {<<"enabled", "=", "TRUE">>, H1 \o <<"nl">> \o K1}

Cfg == INSTANCE Settings WITH Locks <- MCLocks, NumVal <- ("2" :> 2 @@ "16" :> 16)

(* /bin/hello: prefixes of a header (40 bytes), exactly a header (64)   *)
(* and a whole file (200); ELF64 and ELF32, with and without the magic,   *)
(* each OS ABI line.  The lock files cap elf_max_bytes at 16 or 2 or keep *)
(* 4096, and may turn the inspector off.                                  *)
(* ---- /bin/hello ---- *)
Hello(len, magic, class, osabi) ==
  [len |-> len, magic |-> magic, class |-> class, osabi |-> osabi,
   etype |-> 2, machine |-> 62, entry |-> 4096, phoff |-> 64,
   phentsize |-> 56, phnum |-> 1]

MCHellos ==
  {Hello(n, TRUE, c, 3) : n \in {40, 64, 200}, c \in {1, 2}}
  \cup {Hello(200, FALSE, 2, 3), Hello(200, TRUE, 2, 0), Hello(200, TRUE, 2, 9)}

Insp == INSTANCE Inspector WITH Hellos <- MCHellos

(* Heap: HEAP at an odd and an aligned address, 16 bytes (512 KiB in the *)
(* code), requests of 0, 3 and 8 bytes at alignments 1, 4 and 8, three   *)
(* allocations, so that padding, exact fits and failures all happen.      *)
(* ---- heap ---- *)
HeapM == INSTANCE Heap WITH HeapStarts <- {3, 8}, HeapLen <- 16,
           Layouts <- [size : {0, 3, 8}, align : {1, 4, 8}], MaxAllocs <- 3

(* Apps: two spawns under two names, three set_state calls with the ids  *)
(* spawn can return and the unknown ids 0 and 3, every state.             *)
(* ---- app manager ---- *)
AppM == INSTANCE AppMgr WITH Names <- {"Notes", "Files"}, Ids <- 0 .. 3,
          MaxApps <- 2, MaxCalls <- 3

NoApps == apps = <<>> /\ calls = <<>> /\ screen = <<>>

(* NIC: rings of 4 descriptors (32 in the code), six packets from the   *)
(* wire and five send calls, so that the RX ring fills and drops, both   *)
(* rings wrap, and poll_rx runs while the NIC stores more.               *)
(* ---- e1000 ---- *)
Nic == INSTANCE E1000 WITH RingSize <- 4, MaxRx <- 6, MaxTx <- 5

nicVars == <<rx, rdh, rdt, tx, tdh, tdt, arrived, received, delivered, poll,
             lastStart, send, sent, wire>>

(* NIC is None: E1000::init has not run in this behaviour. *)
NoNic ==
  /\ rx = Null /\ rdh = Null /\ rdt = Null /\ tx = Null /\ tdh = Null
  /\ tdt = Null /\ arrived = Null /\ received = Null /\ delivered = Null
  /\ poll = Null /\ lastStart = Null /\ send = Null /\ sent = Null
  /\ wire = Null

(* Spawns: three run commands over nine frames, pages of 4 bytes (4096), *)
(* a region of 8 pages per page-table frame, a one-page stack, and the   *)
(* executables of SpawnFiles, so that the second spawn runs out of       *)
(* frames and the third finds none for its root.                         *)
(* ---- spawn_user_elf ---- *)
SF == INSTANCE SpawnFiles

Sp == INSTANCE SpawnUser WITH frames <- sframes, Files <- SF!MCFilesAll,
        NumFrames <- 9, PageSize <- 4, NumPages <- 16, TableSpan <- 8,
        MaxSegs <- 2, StackTop <- 64, StackPages <- 1, MaxSpawns <- 3

spVars == <<next, roots, pt, tbl, mem, pc, img, root, segI, reg, off, sframes,
            copied, tasks, nSpawns>>

NoSpawn ==
  /\ next = Null /\ roots = Null /\ pt = Null /\ tbl = Null /\ mem = Null
  /\ pc = Null /\ img = Null /\ root = Null /\ segI = Null /\ reg = Null
  /\ off = Null /\ sframes = Null /\ copied = Null /\ tasks = Null
  /\ nSpawns = Null

(* The shell has issued its last run command, or parse_elf panicked and  *)
(* halted the kernel.                                                    *)
SpawnsOver == pc = "panic" \/ (pc = "idle" /\ nSpawns = 3)

(* Console: the keys h (standing for "hello"), x ("clear"), u ("uptime") *)
(* and space; TICKS one tick before 01:00:00 at HZ 100; a                *)
(* 2-key input (128 bytes in the code) and a 20-byte output (512), so    *)
(* that a full input drops keys and an "Unknown command" reply overflows  *)
(* the output; writes of a 3-byte text and of bytes that are not UTF-8,   *)
(* to fd 1 and 2; one call number of each kind; four events in all.     *)
(* ---- console::on_char and handle_syscall ---- *)
Cio == INSTANCE ConsoleIO WITH input <- cinput, output <- coutput, ret <- cret,
         hist <- chist, ticks <- cticks, Chars <- {"h", "x", "u", " "}, NL <- "nl", CR <- "cr",
         BS <- "bs", Space <- " ", HelloLine <- <<"h">>, ClearLine <- <<"x">>,
         UptimeLine <- <<"u">>, Hz <- 100, StartTicks <- {359999},
         InCap <- 2, OutCap <- 20, Nrs <- {0, 2, 3, 5}, Fds <- {1, 2},
         U64Max <- "u64::MAX", MaxEvents <- 4,
         Texts <- {[id |-> "w", n |-> 3, utf8 |-> TRUE],
                   [id |-> "z", n |-> 2, utf8 |-> FALSE]}

cioVars == <<cinput, coutput, cret, chist, cticks>>

NoConsole == cinput = Null /\ coutput = Null /\ cret = Null /\ chist = Null /\ cticks = Null

(* ---- all six ---- *)
Idle(elf, dsk, lck) ==
  /\ f = elf /\ disk = dsk /\ lock = lck
  /\ settings = Cfg!Default /\ loaded = TRUE
  /\ hello = NoFile /\ win = NoWin

NoHeap == bump = [start |-> 0, next |-> 0, end |-> 0, inited |-> FALSE]
          /\ heapAt = 0 /\ results = <<>>

Init ==
  \/ Elf!Init /\ disk = NoDisk /\ lock = NoLock /\ settings = Cfg!Default
     /\ loaded = TRUE /\ NoHeap /\ hello = NoFile /\ win = NoWin /\ NoApps /\ NoNic /\ NoRead /\ NoBoot /\ NoSpawn /\ NoConsole
  \/ f = NoFile /\ FatM!Init /\ lock = NoLock /\ settings = Cfg!Default
     /\ loaded = TRUE /\ NoHeap /\ hello = NoFile /\ win = NoWin /\ NoApps /\ NoNic /\ NoRead /\ NoBoot /\ NoSpawn /\ NoConsole
  \/ f = NoFile /\ disk = NoDisk /\ Cfg!Init /\ Insp!Init /\ NoHeap /\ NoApps /\ NoNic /\ NoRead /\ NoBoot /\ NoSpawn /\ NoConsole
  \/ Idle(NoFile, NoDisk, NoLock) /\ HeapM!Init /\ NoApps /\ NoNic /\ NoRead /\ NoBoot /\ NoSpawn /\ NoConsole
  \/ Idle(NoFile, NoDisk, NoLock) /\ NoHeap /\ AppM!Init /\ NoNic /\ NoRead /\ NoBoot /\ NoSpawn /\ NoConsole
  \/ Idle(NoFile, NoDisk, NoLock) /\ NoHeap /\ NoApps /\ Nic!Init /\ NoRead /\ NoBoot /\ NoSpawn /\ NoConsole
  \/ Idle(NoFile, NoDisk, NoLock) /\ NoHeap /\ NoApps /\ NoNic /\ FatF!Init /\ NoBoot /\ NoSpawn /\ NoConsole
  \/ Idle(NoFile, NoDisk, NoLock) /\ NoHeap /\ NoApps /\ NoNic /\ NoRead /\ Boot!Init /\ NoSpawn /\ NoConsole
  \/ Idle(NoFile, NoDisk, NoLock) /\ NoHeap /\ NoApps /\ NoNic /\ NoRead /\ NoBoot
     /\ Sp!Init /\ NoConsole
  \/ Idle(NoFile, NoDisk, NoLock) /\ NoHeap /\ NoApps /\ NoNic /\ NoRead /\ NoBoot
     /\ NoSpawn /\ Cio!Init

vars == <<f, disk, lock, settings, loaded, bump, heapAt, results, hello, win,
          apps, calls, screen, rx, rdh, rdt, tx, tdh, tdt, arrived, received,
          delivered, poll, lastStart, send, sent, wire, fdisk, want, got, regions,
          frames, inited, next, roots, pt, tbl, mem, pc, img, root, segI,
          reg, off, sframes, copied, tasks, nSpawns, cinput, coutput, cret, chist, cticks>>

(* The heap's, the app manager's, the NIC's, the file read's, mm::init's *)
(* and spawn_user_elf's steps run in their own behaviours only.          *)
Next ==
  \/ Elf!Next /\ FatM!Next /\ Cfg!Next /\ Insp!Next
     /\ UNCHANGED <<bump, heapAt, results, apps, calls, screen>>
     /\ UNCHANGED nicVars /\ UNCHANGED <<fdisk, want, got>>
     /\ UNCHANGED <<regions, frames, inited>> /\ UNCHANGED spVars /\ UNCHANGED cioVars
  \/ Idle(NoFile, NoDisk, NoLock) /\ heapAt # 0 /\ HeapM!Next
     /\ UNCHANGED <<f, disk, lock, settings, loaded, hello, win, apps, calls, screen>>
     /\ UNCHANGED nicVars /\ UNCHANGED <<fdisk, want, got>>
     /\ UNCHANGED <<regions, frames, inited>> /\ UNCHANGED spVars /\ UNCHANGED cioVars
  \/ Idle(NoFile, NoDisk, NoLock) /\ NoHeap /\ NoNic /\ NoRead /\ NoBoot /\ NoSpawn /\ NoConsole /\ AppM!Next
     /\ UNCHANGED <<f, disk, lock, settings, loaded, hello, win, bump, heapAt, results>>
     /\ UNCHANGED nicVars /\ UNCHANGED <<fdisk, want, got>>
     /\ UNCHANGED <<regions, frames, inited>> /\ UNCHANGED spVars /\ UNCHANGED cioVars
  \/ rx # Null /\ Nic!Next
     /\ UNCHANGED <<f, disk, lock, settings, loaded, hello, win, bump, heapAt, results,
                    apps, calls, screen, fdisk, want, got, regions, frames, inited>> /\ UNCHANGED spVars /\ UNCHANGED cioVars
  \/ fdisk # Null /\ FatF!Next
     /\ UNCHANGED <<f, disk, lock, settings, loaded, hello, win, bump, heapAt, results,
                    apps, calls, screen, regions, frames, inited>> /\ UNCHANGED nicVars
     /\ UNCHANGED spVars /\ UNCHANGED cioVars
  \/ regions # Null /\ Boot!Next
     /\ UNCHANGED <<f, disk, lock, settings, loaded, hello, win, bump, heapAt, results,
                    apps, calls, screen, fdisk, want, got>> /\ UNCHANGED nicVars
     /\ UNCHANGED spVars /\ UNCHANGED cioVars
  \/ pc # Null /\ (Sp!Next \/ (SpawnsOver /\ UNCHANGED spVars))
     /\ UNCHANGED <<f, disk, lock, settings, loaded, hello, win, bump, heapAt, results,
                    apps, calls, screen, fdisk, want, got, regions, frames, inited>>
     /\ UNCHANGED nicVars /\ UNCHANGED cioVars
  \/ chist # Null /\ Cio!Next
     /\ UNCHANGED <<f, disk, lock, settings, loaded, hello, win, bump, heapAt, results,
                    apps, calls, screen, fdisk, want, got, regions, frames, inited>>
     /\ UNCHANGED nicVars /\ UNCHANGED spVars

Spec == Init /\ [][Next]_vars

(* On every well-formed ELF file parse_elf returns the reference image. *)
ParseAgrees == f # NoFile => Elf!ParseAgrees

(* On every standard FAT16 volume list_root returns the root's files. *)
ListRootAgrees == disk # NoDisk => FatM!ListRootAgrees

(* After boot, SETTINGS is the INI reading of /waemon.lock. *)
LoadAgrees == lock # NoLock => Cfg!LoadAgrees

(* Every block the bump allocator hands out is aligned, inside HEAP and  *)
(* after the earlier ones, and it fails only when the request does not   *)
(* fit.                                                                  *)
AllocSound == HeapM!AllocSound

(* Under a byte cap that admits a header, kernel_main's inspector window *)
(* gives /bin/hello's own ELF64 verdict and entry point.                 *)
ElfWindowAgrees == Insp!ElfWindowAgrees

(* set_state changes exactly the app whose spawn returned the id passed. *)
SetStateByIdAgrees == AppM!SetStateByIdAgrees

(* poll_rx hands every packet the NIC stored to its callback once and in *)
(* order, and a finished poll leaves none behind that was there when it  *)
(* began.                                                                *)
RxDeliveredOnceInOrder == rx # Null => Nic!RxDeliveredOnceInOrder

(* On every volume fsck accepts, read_file_root_8_3 returns the data of *)
(* the first root file named, ignoring case, cut to its size.           *)
FileReadAgrees == fdisk # Null => FatF!FileReadAgrees

(* After mm::init, the frame allocator holds the first frames the memory *)
(* map offers for use, in map order.                                    *)
FramesFromMap == regions # Null => Boot!FramesFromMap

(* Across every spawn_user_elf, including those that run out of frames  *)
(* half-way, allocate_frame's cursor hands each frame out once: no frame *)
(* serves as two roots, tables or pages.                                *)
FramesUsedOnce == pc # Null => Sp!FramesUsedOnce

(* The pages map_into_cr3 maps for a spawned task's image hold segment   *)
(* bytes or zeros only, never what the RAM held before.                  *)
ImagePagesClean == pc # Null => Sp!ImagePagesClean

(* Typed keys and write system calls share CONSOLE.output: the console  *)
(* shows the transcript of commands echoed and answered by on_char's     *)
(* handle_command and of texts sys_write printed, since the last clear,  *)
(* with texts that did not fit left out whole, and the input is the line *)
(* being typed.                                                           *)
ConsoleShowsTranscript == chist # Null => Cio!ConsoleShowsTranscript

=============================================================================
