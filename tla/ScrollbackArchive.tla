-------------------------- MODULE ScrollbackArchive --------------------------
(***************************************************************************)
(* What the scrollback store promises to the rest of the program: texts    *)
(* are kept, filed under a pane of a snapshot, and can be read back for as *)
(* long as that snapshot lives.  No lock, no refcount, no garbage list: a  *)
(* text is forgotten only when no entry files it.  SnapshotStore is shown  *)
(* to implement this.                                                      *)
(***************************************************************************)
EXTENDS Integers

CONSTANTS Pane, Content,
          Event      \* event ids: natural numbers

VARIABLES archive,   \* entries [event, pane, sha]
          texts      \* the contents that can be read back

avars == <<archive, texts>>

ArchiveInit == archive = {} /\ texts = {}

Write(s) == texts' = texts \cup {s} /\ UNCHANGED archive

\* An entry is added once, for the newest snapshot, and only for a text that
\* can be read.
File(l) ==
  /\ l.sha \in texts
  /\ \A k \in archive : k.event < l.event \/ (k.event = l.event /\ k.pane # l.pane)
  /\ archive' = archive \cup {l}
  /\ UNCHANGED texts

\* Snapshots expire whole.
Expire ==
  /\ \E gone \in SUBSET {l.event : l \in archive} :
        archive' = {l \in archive : l.event \notin gone}
  /\ UNCHANGED texts

Forget(s) ==
  /\ \A l \in archive : l.sha # s
  /\ texts' = texts \ {s}
  /\ UNCHANGED archive

ArchiveNext ==
  \/ \E s \in Content : Write(s) \/ Forget(s)
  \/ \E l \in [event : Event, pane : Pane, sha : Content] : File(l)
  \/ Expire

ArchiveSpec == ArchiveInit /\ [][ArchiveNext]_avars
=============================================================================
