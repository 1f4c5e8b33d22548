---------------------------- MODULE MCSpawnUser ----------------------------
(* spawn_user_elf over the executables of SpawnFiles. *)
EXTENDS SpawnUser, SpawnFiles
====
