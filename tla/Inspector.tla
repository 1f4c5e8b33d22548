----------------------------- MODULE Inspector -----------------------------
(***************************************************************************)
(* The ELF64 inspector window of kernel_main (src/main.rs lines 108-117)  *)
(* and elf::inspect_elf64 (src/elf.rs lines 1-28), which it runs on the   *)
(* first elf_max_bytes bytes of /bin/hello once SETTINGS is loaded.       *)
(*                                                                         *)
(* A file keeps what inspect_elf64 reads of it: its length, whether bytes *)
(* 0-3 are the magic, byte 4 (class), byte 7 (OS ABI) and the header     *)
(* fields it prints.  A report is the sequence of its lines, each line a  *)
(* record of the values it formats (the hex and decimal text is left     *)
(* out).  A prefix of a file keeps a field only when the field's bytes   *)
(* lie inside the prefix; inspect_elf64 reads none past byte 58 once the  *)
(* length is at least 64.                                                 *)
(***************************************************************************)
EXTENDS Naturals, Sequences

CONSTANTS
  Hellos,     \* the contents of /bin/hello considered
  NoFile,     \* model value: fs::read("/bin/hello") failed
  NoWin       \* model value: no inspector window opened yet

VARIABLES
  settings,   \* SETTINGS (module Settings)
  loaded,     \* kernel_main has passed the settings load
  hello,      \* /bin/hello, or NoFile
  win         \* the window kernel_main opens: [title, body], or NoWin

EhdrSize == 64

(* bytes[..bytes.len().min(cfg.elf_max_bytes)]: the prefix's length. *)
SliceLen(file, max) == IF file.len < max THEN file.len ELSE max

(* Mutant: the length check of line 4 lets a 64-byte prefix through only *)
(* when it is longer.                                                     *)
TooSmallOffByOne(n) == n <= EhdrSize

(* Line 4: bytes.len() < 64. *)
TooSmall(n) == n < EhdrSize

(* Lines 10-17: the OS ABI line. *)
OsAbiLine(v) ==
  CASE v = 0 -> [line |-> "osabi", abi |-> "sysv"]
    [] v = 3 -> [line |-> "osabi", abi |-> "linux"]
    [] OTHER -> [line |-> "osabi", abi |-> v]

(* inspect_elf64, lines 1-28, on a prefix of n bytes of file. *)
InspectElf64(file, n) ==
  CASE TooSmall(n)       -> <<[line |-> "too small"]>>
    [] ~file.magic       -> <<[line |-> "not magic"]>>
    [] file.class # 2    -> <<[line |-> "not 64"]>>
    [] OTHER ->
         <<[line |-> "detected"], OsAbiLine(file.osabi),
           [line |-> "type", etype |-> file.etype, machine |-> file.machine],
           [line |-> "entry", entry |-> file.entry],
           [line |-> "ph", phnum |-> file.phnum, phentsize |-> file.phentsize,
                           phoff |-> file.phoff]>>

(* main.rs lines 108-117: with cfg.elf_enabled, an "ELF64 Inspector"     *)
(* window on the report, or a "Linux Support" window when /bin/hello      *)
(* cannot be read.  open_window_icon_animated only paints.                *)
ShowElf ==
  /\ loaded /\ win = NoWin
  /\ settings.elf_enabled
  /\ win' = IF hello = NoFile
              THEN [title |-> "Linux Support", body |-> <<[line |-> "ready"]>>]
              ELSE [title |-> "ELF64 Inspector",
                    body |-> InspectElf64(hello, SliceLen(hello, settings.elf_max_bytes))]
  /\ UNCHANGED hello

(* kernel_main goes on without the window when the setting is off, and  *)
(* after it only paints.                                                  *)
Done ==
  /\ loaded /\ (win # NoWin \/ ~settings.elf_enabled)
  /\ UNCHANGED <<hello, win>>

Init == hello \in Hellos \cup {NoFile} /\ win = NoWin

(* The steps of kernel_main before the load are those of module Settings. *)
Wait == ~loaded /\ UNCHANGED <<hello, win>>

Next == ShowElf \/ Done \/ Wait

----------------------------------------------------------------------------
(* Reference, from the ELF specification: a file is an ELF64 object when  *)
(* it holds a whole 64-byte header that starts with the magic and has    *)
(* EI_CLASS = ELFCLASS64; its header then gives the OS ABI, type,        *)
(* machine, entry point and program header table.                        *)
IsElf64(file) == file.len >= EhdrSize /\ file.magic /\ file.class = 2

RefVerdict(file) ==
  IF IsElf64(file) THEN "detected"
  ELSE IF file.len >= EhdrSize /\ file.magic THEN "not 64"
  ELSE IF file.len >= EhdrSize THEN "not magic"
  ELSE "too small"

(* When kernel_main inspects /bin/hello under a byte cap that admits an  *)
(* ELF header, the window's verdict is the file's own: cutting the file  *)
(* to cfg.elf_max_bytes bytes and the length, magic and class checks of   *)
(* inspect_elf64 never change what the whole file is, and a detected     *)
(* file's report carries its header's entry point.                       *)
ElfWindowAgrees ==
  win # NoWin /\ hello # NoFile /\ settings.elf_max_bytes >= EhdrSize =>
    /\ win.body[1].line = RefVerdict(hello)
    /\ IsElf64(hello) => win.body[4].entry = hello.entry

=============================================================================
