------------------------------ MODULE Settings ------------------------------
(***************************************************************************)
(* settings::load_from_lock (src/settings.rs), run once by kernel_main on  *)
(* the contents of /waemon.lock, and a reference reading of the same file. *)
(*                                                                         *)
(* Text is a sequence of tokens: " " (whitespace), "nl" ('\n'), the        *)
(* punctuation "#", "[", "]", "=" and "quote" ('"'), and words, each word *)
(* one token standing for its letters (so "elf", "TRUE" or "4096").  The   *)
(* string operations of the code are applied to these tokens: trim drops   *)
(* " " at both ends, find('=') is the first "=", and so on.               *)
(***************************************************************************)
EXTENDS Naturals, Sequences, SequencesExt

CONSTANTS
  Locks,      \* the lock files considered
  NumVal,     \* the words that parse as usize, with their values
  NoLock      \* model value: fs::read failed

VARIABLES
  lock,       \* the bytes of /waemon.lock, or NoLock
  settings,   \* SETTINGS
  loaded      \* kernel_main has passed the load

(* Settings::default(), lines 19-33. *)
Default ==
  [elf_enabled |-> TRUE, elf_max_bytes |-> 4096, linux_mode |-> TRUE,
   web_enabled |-> TRUE, language |-> <<"en-US">>, font_scale |-> 1,
   icons_enabled |-> TRUE, animations_enabled |-> TRUE,
   loading_animations |-> TRUE]

(* str::lines: split at "nl", without an empty last piece. *)
Lines(s) ==
  LET ps == FoldLeft(LAMBDA acc, c : IF c = "nl" THEN Append(acc, <<>>)
                                     ELSE [acc EXCEPT ![Len(acc)] = Append(@, c)],
                     <<<<>>>>, s)
  IN IF Last(ps) = <<>> THEN Front(ps) ELSE ps

(* trim_matches(cs): drop tokens of cs at both ends. *)
RECURSIVE TrimMatches(_, _)
TrimMatches(s, cs) ==
  CASE s # <<>> /\ Head(s) \in cs -> TrimMatches(Tail(s), cs)
    [] s # <<>> /\ Last(s) \in cs -> TrimMatches(Front(s), cs)
    [] OTHER                      -> s

Trim(s) == TrimMatches(s, {" "})

(* str::to_ascii_lowercase on the words the files use. *)
Lower(w) == IF w = "TRUE" THEN "true" ELSE IF w = "Off" THEN "off" ELSE w

(* parse_bool, lines 69-75. *)
ParseBool(v, default) ==
  IF Len(v) = 1 /\ Lower(v[1]) \in {"true", "1", "yes", "on"} THEN TRUE
  ELSE IF Len(v) = 1 /\ Lower(v[1]) \in {"false", "0", "no", "off"} THEN FALSE
  ELSE default

ParseNumZero(v, default) ==
  IF Len(v) = 1 /\ v[1] \in DOMAIN NumVal THEN NumVal[v[1]] ELSE 0

(* val.parse::<usize>().unwrap_or(default). *)
ParseNum(v, default) ==
  IF Len(v) = 1 /\ v[1] \in DOMAIN NumVal THEN NumVal[v[1]] ELSE default

(* The match arms of lines 52-63: section, key, field and how the value   *)
(* is read.                                                               *)
Arms ==
  { [sec |-> "elf", key |-> "enabled", field |-> "elf_enabled", kind |-> "bool"],
    [sec |-> "elf", key |-> "max_bytes", field |-> "elf_max_bytes", kind |-> "num"],
    [sec |-> "linux", key |-> "mode", field |-> "linux_mode", kind |-> "bool"],
    [sec |-> "web", key |-> "enabled", field |-> "web_enabled", kind |-> "bool"],
    [sec |-> "ui", key |-> "language", field |-> "language", kind |-> "str"],
    [sec |-> "ui", key |-> "font_scale", field |-> "font_scale", kind |-> "num"],
    [sec |-> "ui", key |-> "icons", field |-> "icons_enabled", kind |-> "bool"],
    [sec |-> "ui", key |-> "animations", field |-> "animations_enabled", kind |-> "bool"],
    [sec |-> "ui", key |-> "loading_animations", field |-> "loading_animations", kind |-> "bool"] }

ReadValue(a, val, old) ==
  CASE a.kind = "bool" -> ParseBool(val, old)
    [] a.kind = "num"  -> ParseNum(val, old)
    [] OTHER           -> TrimMatches(val, {"quote"})

IsComment(l) == l = <<>> \/ Head(l) = "#"
IsHeader(l) == Head(l) = "[" /\ Last(l) = "]"
HasEq(l) == \E i \in DOMAIN l : l[i] = "="
EqAt(l) == CHOOSE i \in DOMAIN l : l[i] = "=" /\ \A j \in 1 .. i - 1 : l[j] # "="

(* One key = value line under section curr, lines 49-64.  A section or a *)
(* key is a single word; anything else matches no arm.                   *)
Assign(s, curr, l) ==
  LET key == Trim(SubSeq(l, 1, EqAt(l) - 1))
      val == Trim(SubSeq(l, EqAt(l) + 1, Len(l)))
      hit == {a \in Arms : <<a.sec>> = curr /\ <<a.key>> = key}
  IN IF hit = {} THEN s
     ELSE LET a == CHOOSE a \in hit : TRUE
          IN [s EXCEPT ![a.field] = ReadValue(a, val, s[a.field])]

(* The loop of lines 42-65 over the trimmed lines, carrying curr and s. *)
Step(acc, raw) ==
  LET l == Trim(raw)
  IN CASE IsComment(l) -> acc
       [] IsHeader(l)  -> [acc EXCEPT !.curr = TrimMatches(l, {"[", "]"})]
       [] HasEq(l)     -> [acc EXCEPT !.s = Assign(acc.s, acc.curr, l)]
       [] OTHER        -> acc

(* load_from_lock, lines 39-67: start from a copy of SETTINGS, store the  *)
(* result back.                                                          *)
LoadFromLock(contents, start) ==
  FoldLeft(Step, [curr |-> <<>>, s |-> start], Lines(contents)).s

(* kernel_main, main.rs lines 73-76: when fs::read finds the file, load   *)
(* it (the files considered are valid UTF-8).                             *)
BootLoad ==
  /\ ~loaded
  /\ loaded' = TRUE
  /\ settings' = IF lock = NoLock THEN settings ELSE LoadFromLock(lock, settings)
  /\ UNCHANGED lock

(* After the load SETTINGS is only read (settings::current). *)
Booted == loaded /\ UNCHANGED <<lock, settings, loaded>>

Init == lock \in Locks /\ settings = Default /\ loaded = FALSE
Next == BootLoad \/ Booted
Spec == Init /\ [][Next]_<<lock, settings, loaded>>

----------------------------------------------------------------------------
(* Reference: the INI reading the lock file is written for.  A line's    *)
(* section is the name in the last header line before it (none at the    *)
(* top).  A field takes the value of the last line of its section that   *)
(* names its key and holds a value of its type, and keeps its default    *)
(* when there is none.                                                   *)
RefLines(c) == [i \in DOMAIN Lines(c) |-> Trim(Lines(c)[i])]

SectionOf(ls, i) ==
  LET hs == {j \in 1 .. i - 1 : ls[j] # <<>> /\ ~IsComment(ls[j]) /\ IsHeader(ls[j])}
  IN IF hs = {} THEN <<>> ELSE TrimMatches(ls[Max(hs)], {"[", "]"})

Valid(a, v) ==
  CASE a.kind = "bool" -> Len(v) = 1 /\ Lower(v[1]) \in
                            {"true", "1", "yes", "on", "false", "0", "no", "off"}
    [] a.kind = "num"  -> Len(v) = 1 /\ v[1] \in DOMAIN NumVal
    [] OTHER           -> TRUE

RefLoad(c) ==
  LET ls == RefLines(c)
      asg(i) == ~IsComment(ls[i]) /\ ~IsHeader(ls[i]) /\ HasEq(ls[i])
      keyOf(i) == Trim(SubSeq(ls[i], 1, EqAt(ls[i]) - 1))
      valOf(i) == Trim(SubSeq(ls[i], EqAt(ls[i]) + 1, Len(ls[i])))
      sets(a) == {i \in DOMAIN ls : asg(i) /\ SectionOf(ls, i) = <<a.sec>>
                                    /\ keyOf(i) = <<a.key>> /\ Valid(a, valOf(i))}
      value(a) == LET v == valOf(Max(sets(a))) IN ReadValue(a, v, Default[a.field])
  IN [fld \in DOMAIN Default |->
        LET a == CHOOSE a \in Arms : a.field = fld
        IN IF sets(a) = {} THEN Default[fld] ELSE value(a)]

----------------------------------------------------------------------------
(* After kernel_main's load, SETTINGS holds for every field what the INI *)
(* reading of /waemon.lock gives: load_from_lock's running section, its  *)
(* first-'=' split, trims and fallbacks to the previous value agree with *)
(* last-valid-assignment-wins.                                           *)
LoadAgrees == loaded /\ lock # NoLock => settings = RefLoad(lock)

=============================================================================
