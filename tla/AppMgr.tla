------------------------------ MODULE AppMgr ------------------------------
(***************************************************************************)
(* The app manager of src/appmgr.rs: the APPS list behind a spin lock,   *)
(* spawn, set_state and list, and window::render_registered_apps, which  *)
(* refresh_desktop runs to paint the registered windows.  kernel_main is  *)
(* their only caller (main.rs lines 140-145, then every animated window  *)
(* it opens), so each call is one step.  An app keeps its id, its name    *)
(* and its state; position, size, icon and body are fixed by the call    *)
(* and left out.                                                          *)
(***************************************************************************)
EXTENDS Naturals, Sequences

CONSTANTS
  Names,      \* the names apps are spawned with
  Ids,        \* the ids set_state is called with
  MaxApps,    \* bound: spawn calls
  MaxCalls    \* bound: set_state calls

VARIABLES
  apps,       \* APPS: a sequence of [id, name, state]
  calls,      \* history: each set_state call's id and state, and the length
              \* of APPS when it was made
  screen      \* the windows the last render_registered_apps painted

WindowState == {"Normal", "Minimized", "Maximized", "Closed"}

(* spawn, lines 27-32: id = apps.len() + 1, pushed in state Normal. *)
Spawn(name) ==
  /\ Len(apps) < MaxApps
  /\ apps' = Append(apps, [id |-> Len(apps) + 1, name |-> name, state |-> "Normal"])
  /\ UNCHANGED <<calls, screen>>

(* Mutant: the app at index id is changed, not the one with that id. *)
SetStateByIndex(id, st) ==
  IF id + 1 \in DOMAIN apps THEN [apps EXCEPT ![id + 1].state = st] ELSE apps

(* set_state, lines 34-37: the first app whose id matches, if any. *)
FindSet(id, st) ==
  LET hits == {i \in DOMAIN apps : apps[i].id = id}
  IN IF hits = {} THEN apps
     ELSE LET i == CHOOSE i \in hits : \A j \in hits : i <= j
          IN [apps EXCEPT ![i].state = st]

SetState(id, st) ==
  /\ Len(calls) < MaxCalls
  /\ apps' = FindSet(id, st)
  /\ calls' = Append(calls, [id |-> id, state |-> st, napps |-> Len(apps)])
  /\ UNCHANGED screen

(* render_registered_apps, window.rs lines 139-148, over list() (line 39, *)
(* a copy of APPS): Normal windows at their place, Maximized ones in the *)
(* maximize area, Minimized and Closed ones not at all.                   *)
Shown(a) == a.state \in {"Normal", "Maximized"}

Render ==
  /\ screen' = LET vis == SelectSeq(apps, Shown)
               IN [i \in DOMAIN vis |-> [name |-> vis[i].name,
                                         max |-> vis[i].state = "Maximized"]]
  /\ UNCHANGED <<apps, calls>>

Init == apps = <<>> /\ calls = <<>> /\ screen = <<>>

Next ==
  \/ \E n \in Names : Spawn(n)
  \/ \E id \in Ids, st \in WindowState : SetState(id, st)
  \/ Render

vars == <<apps, calls, screen>>
Spec == Init /\ [][Next]_vars

----------------------------------------------------------------------------
(* Every app's state is the state of the last set_state call that named  *)
(* the id spawn returned for it, made after it was spawned, and Normal    *)
(* when there is none: spawn's ids never collide, and set_state's search *)
(* changes the app the caller holds the id of and no other, whatever ids *)
(* (unknown ones included) the calls pass.                               *)
SetStateByIdAgrees ==
  \A k \in DOMAIN apps :
    LET mine == {c \in DOMAIN calls : calls[c].id = apps[k].id /\ calls[c].napps >= k}
    IN apps[k].state = IF mine = {} THEN "Normal"
                       ELSE calls[CHOOSE c \in mine : \A d \in mine : d <= c].state

=============================================================================
