------------------------------- MODULE MemFs -------------------------------
(***************************************************************************)
(* The RAM file system: MemFs of src/fs/memfs.rs behind the FS mutex of   *)
(* src/fs/mod.rs.  The tree is a store of nodes: t.kind[i], t.name[i],     *)
(* t.data[i] and t.kids[i] (the child Vec, in order) of node i; node 0 is  *)
(* the root and t.n the next free index (a Box::new).  A path is the       *)
(* sequence of its non-empty '/'-separated parts, as path.split('/')       *)
(* .filter(..) yields them.  Every call holds the FS lock for its whole   *)
(* run, so a call is one step; out is what the last call returned.        *)
(***************************************************************************)
EXTENDS Naturals, Sequences, SequencesExt

CONSTANTS
  InitFiles,   \* the add_file calls of fs::init: a sequence of [path, data]
  Paths,       \* paths callers read and list, closed under prefixes
  WritePaths,  \* paths callers write, a subset of Paths
  Datas,       \* contents callers write
  Queries,     \* strings passed to Broom::search_google, as character classes
  MaxSearches, \* bound: searches the broom makes
  MaxNodes,    \* bound: nodes the model's store holds
  NoNode,      \* model value: find returned None
  NoData,      \* model value: a directory has no data
  Absent,      \* model value: View's mark of a missing path
  Dir,         \* model value: View's mark of a directory
  Err          \* model value: Err(())

Node == 0 .. MaxNodes - 1

VARIABLES
  t,       \* the MemFs tree in Some(fs)
  out,     \* what the last call returned
  view,    \* auxiliary: View(t), what find shows at each path
  broom    \* the Broom of apps/broom.rs: [on, history, bookmarks, pc]

fsVars == <<t, out, view>>
vars == <<t, out, view, broom>>

(* MemFs::new_dir("/"). *)
NewDir == [kind |-> [i \in Node |-> "dir"], name |-> [i \in Node |-> "/"],
           data |-> [i \in Node |-> NoData], kids |-> [i \in Node |-> <<>>],
           n |-> 1]

(* The loops over children.iter(): the first child of d named part. *)
FirstChild(s, d, part) ==
  LET m == SelectSeq(s.kids[d], LAMBDA c : s.name[c] = part)
  IN IF m = <<>> THEN NoNode ELSE Head(m)

(* Mutant: the new node takes a slot without advancing the store. *)
PushNoBump(s, d, nm, k, dat) ==
  [s EXCEPT !.kind[s.n] = k, !.name[s.n] = nm, !.data[s.n] = dat,
            !.kids[s.n] = <<>>, !.kids[d] = Append(@, s.n)]

(* children.push(Box::new(Node { name, kind })). *)
Push(s, d, nm, k, dat) ==
  [s EXCEPT !.kind[s.n] = k, !.name[s.n] = nm, !.data[s.n] = dat,
            !.kids[s.n] = <<>>, !.kids[d] = Append(@, s.n), !.n = @ + 1]

(* add_file: the last part is pushed as a new file, whether or not a     *)
(* child of that name exists; an intermediate part descends into the    *)
(* first child of that name if it is a directory and otherwise pushes a *)
(* new directory.  cur is always a directory here.                      *)
RECURSIVE AddFile(_, _, _, _)
AddFile(s, cur, parts, dat) ==
  IF parts = <<>> \/ s.kind[cur] # "dir" THEN s
  ELSE IF Len(parts) = 1 THEN Push(s, cur, Head(parts), "file", dat)
  ELSE LET f == FirstChild(s, cur, Head(parts))
       IN IF f # NoNode /\ s.kind[f] = "dir"
            THEN AddFile(s, f, Tail(parts), dat)
            ELSE AddFile(Push(s, cur, Head(parts), "dir", NoData), s.n,
                         Tail(parts), dat)

(* Mutant: the last part is always pushed, as add_file does. *)
WriteLastNoSearch(s, cur, part, dat) ==
  [tree |-> Push(s, cur, part, "file", dat), res |-> "ok"]

(* Mutant: the existing child gets the data but keeps its kind. *)
WriteLastKeepKind(s, cur, part, dat) ==
  LET f == FirstChild(s, cur, part)
  IN [tree |-> IF f = NoNode THEN Push(s, cur, part, "file", dat)
               ELSE [s EXCEPT !.data[f] = dat],
      res |-> "ok"]

(* write, last part (lines 81-90): the first child of that name becomes  *)
(* File(data), even a directory, whose children are dropped; otherwise a *)
(* new file is pushed.                                                    *)
WriteLast(s, cur, part, dat) ==
  LET f == FirstChild(s, cur, part)
  IN [tree |-> IF f = NoNode THEN Push(s, cur, part, "file", dat)
               ELSE [s EXCEPT !.kind[f] = "file", !.data[f] = dat,
                              !.kids[f] = <<>>],
      res |-> "ok"]

(* write: an intermediate part descends into the first child of that     *)
(* name, file or not, or pushes a new directory; a file met where a      *)
(* directory is needed gives Err; an empty path is Ok.  Returns the tree *)
(* and the result.                                                        *)
RECURSIVE Write(_, _, _, _)
Write(s, cur, parts, dat) ==
  IF parts = <<>> THEN [tree |-> s, res |-> "ok"]
  ELSE IF s.kind[cur] # "dir" THEN [tree |-> s, res |-> Err]
  ELSE IF Len(parts) = 1 THEN WriteLast(s, cur, Head(parts), dat)
  ELSE LET f == FirstChild(s, cur, Head(parts))
       IN IF f # NoNode THEN Write(s, f, Tail(parts), dat)
          ELSE Write(Push(s, cur, Head(parts), "dir", NoData), s.n,
                     Tail(parts), dat)

(* find / find_ref: follow the first child of each name; None when a     *)
(* part is missing or the way passes through a file.                     *)
RECURSIVE Find(_, _, _)
Find(s, cur, parts) ==
  IF parts = <<>> THEN cur
  ELSE IF s.kind[cur] # "dir" THEN NoNode
  ELSE LET f == FirstChild(s, cur, Head(parts))
       IN IF f = NoNode THEN NoNode ELSE Find(s, f, Tail(parts))

RECURSIVE AddAll(_, _)
AddAll(s, fs) ==
  IF fs = <<>> THEN s
  ELSE AddAll(AddFile(s, 0, Head(fs).path, Head(fs).data), Tail(fs))

(* What each path holds, seen through find: absent, a directory or the  *)
(* data of a file.  Kept in view so the refinement check computes it     *)
(* once per state.                                                        *)
View(s) ==
  [p \in Paths |-> LET i == Find(s, 0, p)
                  IN CASE i = NoNode          -> Absent
                       [] s.kind[i] = "dir"   -> Dir
                       [] OTHER               -> s.data[i]]

(* The nodes a write of path p can add: one per part at most. *)
Room(p) == t.n + Len(p) <= MaxNodes

(* fs::read's result: the file's data cloned, else Err. *)
ReadResult(p) ==
  LET i == Find(t, 0, p)
  IN IF i # NoNode /\ t.kind[i] = "file" THEN t.data[i] ELSE Err

----------------------------------------------------------------------------
(***************************************************************************)
(* Text in the broom's files.  A character is one of the classes          *)
(* url_encode tells apart: "safe" (kept as is), "space", "nl" and         *)
(* "other".  The prefix https://www.google.com/search?q= is the one       *)
(* token "q=", and "%XX" the three characters "%", "hex", "hex".          *)
(***************************************************************************)
HistoryPath   == <<"home", "broom", "history.txt">>
BookmarksPath == <<"home", "broom", "bookmarks.txt">>

(* Mutant: a newline is let through as it is. *)
EncodeCharKeepNl(c) ==
  CASE c = "safe"  -> <<"safe">>
    [] c = "space" -> <<"+">>
    [] c = "nl"    -> <<"nl">>
    [] OTHER       -> <<"%", "hex", "hex">>

(* url_encode's match on one byte. *)
EncodeChar(c) ==
  CASE c = "safe"  -> <<"safe">>
    [] c = "space" -> <<"+">>
    [] OTHER       -> <<"%", "hex", "hex">>

UrlEncode(q) == FlattenSeq([i \in DOMAIN q |-> EncodeChar(q[i])])

SearchUrl(q) == <<"q=">> \o UrlEncode(q)

(* Vec<String>::join("\n"). *)
JoinNl(h) ==
  IF h = <<>> THEN <<>>
  ELSE FoldLeft(LAMBDA acc, u : acc \o <<"nl">> \o u, Head(h), Tail(h))

(* str::lines: the pieces between newlines, less an empty last piece. *)
Lines(s) ==
  LET ps == FoldLeft(LAMBDA acc, c :
                       IF c = "nl" THEN Append(acc, <<>>)
                       ELSE [acc EXCEPT ![Len(acc)] = Append(@, c)],
                     <<<<>>>>, s)
  IN IF Last(ps) = <<>> THEN Front(ps) ELSE ps

(* read_lines: the lines of the file, or an empty Vec when read fails. *)
ReadLines(p) == IF ReadResult(p) = Err THEN <<>> ELSE Lines(ReadResult(p))

(* Every text the broom can save. *)
BroomTexts ==
  {JoinNl(h) : h \in BoundedSeq({SearchUrl(q) : q \in Queries}, MaxSearches)}

----------------------------------------------------------------------------
(* fs::init, run by kernel_main before any caller of the FS: new_dir("/"), *)
(* the add_file calls, then FS = Some(fs).  No Broom exists yet.           *)
Init ==
  /\ t = AddAll(NewDir, InitFiles)
  /\ out = [op |-> "write", path |-> <<>>, v |-> "ok"]
  /\ view = View(t)
  /\ broom = [on |-> FALSE, history |-> <<>>, bookmarks |-> <<>>, pc |-> "idle"]

(* fs::write: MemFs::write under the lock. *)
FsWrite(p, d) ==
  /\ Room(p)
  /\ LET r == Write(t, 0, p, d)
     IN t' = r.tree /\ out' = [op |-> "write", path |-> p, v |-> r.res] /\ view' = View(r.tree)

(* fs::read. *)
FsRead(p) ==
  /\ out' = [op |-> "read", path |-> p, v |-> ReadResult(p)]
  /\ UNCHANGED <<t, view>>

(* fs::list: the names of a directory's children, in order, else Err. *)
FsList(p) ==
  /\ LET i == Find(t, 0, p)
     IN out' = [op |-> "list", path |-> p,
                v |-> IF i # NoNode /\ t.kind[i] = "dir"
                        THEN [k \in 1 .. Len(t.kids[i]) |-> t.name[t.kids[i][k]]]
                        ELSE Err]
  /\ UNCHANGED <<t, view>>

(* Broom::load (launch_demo's first call): history and bookmarks through *)
(* read_lines; out is the second fs::read.  A new Broom replaces the old. *)
BroomLoad ==
  /\ broom.pc = "idle"
  /\ broom' = [on |-> TRUE, history |-> ReadLines(HistoryPath),
               bookmarks |-> ReadLines(BookmarksPath), pc |-> "idle"]
  /\ FsRead(BookmarksPath)

(* search_google: the URL is pushed to the history and save writes the   *)
(* history file, its Err ignored.  The FS lock is dropped before save's  *)
(* second write, so that write is a step of its own.                     *)
BroomSearch(q) ==
  /\ broom.on /\ broom.pc = "idle" /\ Len(broom.history) < MaxSearches
  /\ LET h == Append(broom.history, SearchUrl(q))
     IN /\ FsWrite(HistoryPath, JoinNl(h))
        /\ broom' = [broom EXCEPT !.history = h, !.pc = "saveBm"]

(* save, second line: the bookmarks file. *)
BroomSaveBookmarks ==
  /\ broom.pc = "saveBm"
  /\ FsWrite(BookmarksPath, JoinNl(broom.bookmarks))
  /\ broom' = [broom EXCEPT !.pc = "idle"]

Next ==
  \/ \E p \in WritePaths, d \in Datas : FsWrite(p, d) /\ UNCHANGED broom
  \/ \E p \in Paths : (FsRead(p) \/ FsList(p)) /\ UNCHANGED broom
  \/ BroomLoad
  \/ \E q \in Queries : BroomSearch(q)
  \/ BroomSaveBookmarks

Spec == Init /\ [][Next]_vars

----------------------------------------------------------------------------
(* list returns a Vec in child order; the abstract store a set of names. *)
AbsOut ==
  IF out.op = "list" /\ out.v # Err
    THEN [out EXCEPT !.v = {out.v[k] : k \in DOMAIN out.v}]
    ELSE out

FS == INSTANCE FileStore WITH node <- view, out <- AbsOut,
                              Datas <- Datas \cup BroomTexts

TypeOK ==
  /\ t.n \in 1 .. MaxNodes
  /\ \A i \in 0 .. t.n - 1 :
       /\ t.kind[i] \in {"dir", "file"}
       /\ t.kids[i] \in Seq(1 .. t.n - 1)
  /\ out.op \in {"write", "read", "list"}
  /\ broom.pc \in {"idle", "saveBm"} /\ Len(broom.history) <= MaxSearches

(* No directory has two children of one name.  add_file pushes the last  *)
(* part without looking, and pushes a directory beside a file of the     *)
(* same name; write looks for the name first.  A duplicate would make    *)
(* the second node unreachable to find, read and write.                  *)
NamesUnique ==
  \A i \in 0 .. t.n - 1 :
    \A j, k \in 1 .. Len(t.kids[i]) :
      j # k => t.name[t.kids[i][j]] # t.name[t.kids[i][k]]

(* The code implements the file store of FileStore: every sequence of    *)
(* write, read and list calls changes and answers as that contract says  *)
(* (write over a directory replaces it, write through a file fails).      *)
Refines == FS!Spec

(* What the broom saves it loads back: while a Broom exists, read_lines   *)
(* of the history file gives its history, entry for entry.  save joins   *)
(* the entries with newlines and load splits at newlines and drops an    *)
(* empty last line, so this needs every URL to be non-empty and free of  *)
(* newlines, which the search prefix and url_encode's escaping give.     *)
HistoryRoundTrip == broom.on => ReadLines(HistoryPath) = broom.history

=============================================================================
