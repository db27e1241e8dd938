---------------------------- MODULE ReplicaFeed ----------------------------
(***************************************************************************)
(* What item synchronisation promises its clients, without queue, cache,   *)
(* database calls or restarts: rows change under the version that is next  *)
(* to be announced, versions are announced one after another, and a client *)
(* is moved on to an announced version, with a copy that is right about    *)
(* every row last changed under that version or before. About later        *)
(* changes the copy may be right or wrong, so the client has to ask again. *)
(*                                                                         *)
(* ItemSync implements this module. What the code says of it: "what changed *)
(* since N" is a single query, and clients only ever track one number      *)
(* (version.service.ts:4-6).                                               *)
(***************************************************************************)
EXTENDS Integers

CONSTANTS
  Items, Clients,
  Contents   \* what a reader can find under an item, "nothing" included

NoVersion == -1   \* a client that holds no copy

VARIABLES
  announced,  \* the version clients can be told of
  rows,       \* rows[i]: content, and the version of the last change
  label,      \* label[c]: the version client c holds
  replica     \* replica[c]: the copy client c holds

vars == <<announced, rows, label, replica>>

Copies == [Items -> Contents]

Init ==
  /\ announced = 0
  /\ rows \in [Items -> [version : {0}, content : Contents]]
  /\ label = [c \in Clients |-> NoVersion]
  /\ replica \in [Clients -> Copies]

\* A client with this copy misses nothing if it asks for what is newer.
Agrees(copy, version) ==
  \A i \in Items : rows[i].version <= version => copy[i] = rows[i].content

Change(i) ==
  /\ \E content \in Contents :
       rows' = [rows EXCEPT ![i] = [version |-> announced + 1,
                                    content |-> content]]
  /\ UNCHANGED <<announced, label, replica>>

Announce ==
  /\ announced' = announced + 1
  /\ UNCHANGED <<rows, label, replica>>

\* One query may answer several clients, each at the version it asked at.
Told(c) ==
  /\ label'[c] \in label[c]..announced
  /\ Agrees(replica'[c], label'[c])

Skipped(c) == label'[c] = label[c] /\ replica'[c] = replica[c]

Answer ==
  /\ label' \in [Clients -> NoVersion..announced]
  /\ replica' \in [Clients -> Copies]
  /\ \A c \in Clients : Told(c) \/ Skipped(c)
  /\ UNCHANGED <<announced, rows>>

Next == (\E i \in Items : Change(i)) \/ Announce \/ Answer

Spec == Init /\ [][Next]_vars

----------------------------------------------------------------------------
(* What follows from these steps alone. *)

\* No client is ahead of what was announced, and each one's copy agrees with
\* the rows up to its version: what it must be sent is what is newer.
Followed ==
  \A c \in Clients : label[c] <= announced /\ Agrees(replica[c], label[c])
============================================================================
