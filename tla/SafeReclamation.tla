-------------------------- MODULE SafeReclamation --------------------------
(***************************************************************************)
(* What a memory manager promises to the readers of shared pointers: a     *)
(* reader that got hold of a reference while it was linked keeps what the  *)
(* reference counts until the reader lets go, however early the reference  *)
(* is unlinked.  An entry is one counted reference; ejecting it applies    *)
(* the decrement that its unlinking deferred.                              *)
(***************************************************************************)
CONSTANTS Threads, Entries

VARIABLES
  linked,    \* entries that shared pointers hold
  retired,   \* entries that are unlinked and not ejected yet
  held       \* the entries that each thread may be reading

vars == <<linked, retired, held>>

Init ==
  /\ linked = {}
  /\ retired = {}
  /\ held = [t \in Threads |-> {}]

Link(x) ==
  /\ x \notin linked \cup retired
  /\ linked' = linked \cup {x}
  /\ UNCHANGED <<retired, held>>

Hold(t, x) ==
  /\ x \in linked
  /\ held' = [held EXCEPT ![t] = @ \cup {x}]
  /\ UNCHANGED <<linked, retired>>

LetGo(t) ==
  /\ held' = [held EXCEPT ![t] = {}]
  /\ UNCHANGED <<linked, retired>>

Unlink(x) ==
  /\ x \in linked
  /\ linked' = linked \ {x}
  /\ retired' = retired \cup {x}
  /\ UNCHANGED held

Eject(x) ==
  /\ x \in retired
  /\ \A t \in Threads : x \notin held[t]
  /\ retired' = retired \ {x}
  /\ UNCHANGED <<linked, held>>

Next ==
  \/ \E x \in Entries : Link(x) \/ Unlink(x) \/ Eject(x)
  \/ \E t \in Threads : LetGo(t) \/ \E x \in Entries : Hold(t, x)

Spec == Init /\ [][Next]_vars
=============================================================================
