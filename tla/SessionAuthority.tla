-------------------------- MODULE SessionAuthority --------------------------
(***************************************************************************)
(* What the session store promises its callers, without files or locks:    *)
(* one authoritative revision per session, savers that never overwrite a   *)
(* revision they have not read, leases that pin the revision that was      *)
(* current when they were opened, and a folder that is moved or deleted    *)
(* only while nobody reads it.  SessionStore implements it.                *)
(***************************************************************************)
EXTENDS Integers

CONSTANTS Proc,      \* callers
          MaxGen     \* bound on the revision

VARIABLES state,     \* "active", "trash" or "deleted"
          revision,  \* the authoritative revision
          pinned,    \* the revision each caller's lease shows, 0 without one
          known      \* the revision each caller will expect, 0 for none

vars == <<state, revision, pinned, known>>

Init ==
  /\ state = "active" /\ revision = 1
  /\ pinned = [p \in Proc |-> 0]
  /\ known = [p \in Proc |-> 0]

Unread == \A p \in Proc : pinned[p] = 0

\* A lease opens on the authoritative revision.
Pin(p) ==
  /\ state # "deleted" /\ pinned[p] = 0
  /\ pinned' = [pinned EXCEPT ![p] = revision]
  /\ known' = [known EXCEPT ![p] = revision]
  /\ UNCHANGED <<state, revision>>

Unpin(p) ==
  /\ pinned' = [pinned EXCEPT ![p] = 0]
  /\ UNCHANGED <<state, revision, known>>

\* A save takes effect only over the revision its caller knows.
Save(p) ==
  /\ state = "active" /\ known[p] = revision /\ revision < MaxGen
  /\ revision' = revision + 1
  /\ known' = [known EXCEPT ![p] = revision + 1]
  /\ UNCHANGED <<state, pinned>>

Relocate ==
  /\ Unread
  /\ \/ state = "active" /\ state' = "trash"
     \/ state = "trash"  /\ state' \in {"active", "deleted"}
  /\ UNCHANGED <<revision, pinned, known>>

\* A caller disappears and forgets.
Leave(p) ==
  /\ pinned' = [pinned EXCEPT ![p] = 0]
  /\ known' = [known EXCEPT ![p] = 0]
  /\ UNCHANGED <<state, revision>>

Next == Relocate \/ \E p \in Proc : Pin(p) \/ Unpin(p) \/ Save(p) \/ Leave(p)

Spec == Init /\ [][Next]_vars
=============================================================================
