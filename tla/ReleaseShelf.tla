---------------------------- MODULE ReleaseShelf ----------------------------
(***************************************************************************)
(* What firmware publication promises to devices, whatever happens between *)
(* the database and the object store: a version is pinned to one artifact  *)
(* and one manifest when its release is recorded, and from then on each of *)
(* them is either handed out as pinned or not handed out.                  *)
(***************************************************************************)
CONSTANTS Versions, Contents, Nothing

VARIABLES
    pinned,     \* pinned[v]: what version v was recorded with, or Nothing
    shelf       \* shelf[v]: what a request for version v is given

Items == [artifact: Contents, manifest: Contents]
NoItem == [artifact |-> Nothing, manifest |-> Nothing]

Init ==
    /\ pinned = [v \in Versions |-> Nothing]
    /\ shelf = [v \in Versions |-> NoItem]

\* A version is pinned once, before anything is handed out for it.
Pin(v) ==
    /\ pinned[v] = Nothing
    /\ \E item \in Items : pinned' = [pinned EXCEPT ![v] = item]
    /\ UNCHANGED shelf

\* Each of the two parts appears on the shelf as pinned, or disappears.
Arrange(v) ==
    /\ pinned[v] # Nothing
    /\ \E a \in {pinned[v].artifact, Nothing}, m \in {pinned[v].manifest, Nothing} :
          shelf' = [shelf EXCEPT ![v] = [artifact |-> a, manifest |-> m]]
    /\ UNCHANGED pinned

Next == \E v \in Versions : Pin(v) \/ Arrange(v)

Spec == Init /\ [][Next]_<<pinned, shelf>>
=============================================================================
