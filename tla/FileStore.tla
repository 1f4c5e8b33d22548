----------------------------- MODULE FileStore -----------------------------
(***************************************************************************)
(* What the RAM file system of src/fs promises its callers, with paths as *)
(* sequences of names: a path is absent, a directory or a file holding    *)
(* its data.  write makes a path a file, creating missing directories on *)
(* the way, and fails when the way passes through a file; a directory    *)
(* written over becomes a file and its contents are gone.  read returns  *)
(* a file's data, list the names in a directory.                         *)
(***************************************************************************)
EXTENDS Sequences, SequencesExt

CONSTANTS
  InitFiles,  \* the files present at start: a sequence of [path, data]
  Paths,      \* the paths considered, closed under prefixes
  Datas,      \* file contents
  Absent,     \* model value: no such path
  Dir,        \* model value: a directory
  Err         \* model value: Err(())

VARIABLES
  node,       \* node[p]: Absent, Dir or the data of the file at p
  out         \* result of the last call

fsVars == <<node, out>>

IsFile(v) == v \notin {Absent, Dir}

(* p lies below q. *)
Below(p, q) == Len(p) > Len(q) /\ IsPrefix(q, p)

(* Some directory on the way to p is a file in nd. *)
ThroughFile(nd, p) == \E q \in Paths : Below(p, q) /\ q # <<>> /\ IsFile(nd[q])

(* Each action reads node once, as nd. *)
AbsWrite(p, d) ==
  LET nd == node
  IN IF p = <<>> \/ ThroughFile(nd, p)
       THEN /\ out' = [op |-> "write", path |-> p, v |-> IF p = <<>> THEN "ok" ELSE Err]
            /\ UNCHANGED node
       ELSE /\ out' = [op |-> "write", path |-> p, v |-> "ok"]
            /\ node' = [q \in Paths |->
                          CASE q = p                        -> d
                            [] Below(p, q) /\ nd[q] = Absent -> Dir
                            [] Below(q, p)                  -> Absent
                            [] OTHER                        -> nd[q]]

AbsRead(p) ==
  LET nd == node
  IN /\ out' = [op |-> "read", path |-> p, v |-> IF IsFile(nd[p]) THEN nd[p] ELSE Err]
     /\ UNCHANGED node

AbsList(p) ==
  LET nd == node
  IN /\ out' = [op |-> "list", path |-> p,
                v |-> IF nd[p] = Dir
                        THEN {q[Len(q)] : q \in {q \in Paths : Len(q) = Len(p) + 1
                                                  /\ Below(q, p) /\ nd[q] # Absent}}
                        ELSE Err]
     /\ UNCHANGED node

(* At start the files of InitFiles exist, with the directories above them. *)
Init ==
  /\ node = [p \in Paths |->
               IF \E i \in 1 .. Len(InitFiles) : InitFiles[i].path = p
                 THEN InitFiles[CHOOSE i \in 1 .. Len(InitFiles) : InitFiles[i].path = p].data
                 ELSE IF p = <<>> \/ \E i \in 1 .. Len(InitFiles) : Below(InitFiles[i].path, p)
                        THEN Dir ELSE Absent]
  /\ out = [op |-> "write", path |-> <<>>, v |-> "ok"]

Next ==
  \E p \in Paths :
    \/ \E d \in Datas : AbsWrite(p, d)
    \/ AbsRead(p)
    \/ AbsList(p)

Spec == Init /\ [][Next]_fsVars

=============================================================================
