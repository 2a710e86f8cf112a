------------------------------- MODULE MCPicker -------------------------------
(* Model-checking instance of Picker.                                       *)
EXTENDS Picker, TLC

Pane(id, cmd, text) == [id |-> id, cmd |-> cmd, kids |-> 0, relaunch |-> "", text |-> text]
Win(i, panes) == [index |-> i, panes |-> panes, deco |-> "", layout |-> "own"]
Sess(n, windows) == [name |-> n, attached |-> 0, windows |-> windows]
Snap(id, man) == [id |-> id, ok |-> TRUE, man |-> man]

\* The scrollbacks, by their lines.
MCLines == [t1 |-> 7, t2 |-> 3]

\* The preview beside the lists in snapshot mode and under the list in close
\* mode, and the least panel of all.
MCSizes == {[width |-> 130, height |-> 18], [width |-> 100, height |-> 6]}

\* A running session with two panes, and one that is gone.
Rich == <<Sess("a", <<Win(0, <<Pane("%1", "vim", "t1"), Pane("%2", "zsh", "t2")>>)>>),
          Sess("b", <<Win(1, <<Pane("%3", "zsh", "")>>)>>)>>
RunningOne == <<Sess("a", <<Win(2, <<Pane("%4", "zsh", "t1")>>)>>)>>
GoneOne    == <<Sess("b", <<Win(1, <<Pane("%3", "vim", "t1")>>)>>)>>

Snapshots(events) == [mode |-> "snapshot", events |-> events, closes |-> <<>>, current |-> ""]

\* Closes: panes and windows of the current session, a session, one that
\* cannot be recovered, one of a session of another name.
Close(ts, scope, session, window, pane, lost) ==
  [ts |-> ts, scope |-> scope, session |-> session, window |-> window, pane |-> pane, lost |-> lost]
Two == <<Pane("%1", "vim", "t1"), Pane("%2", "zsh", "t2"), Pane("%3", "zsh", "")>>
Kinds(ts) ==
  {Close(ts, "pane", "a", 0, "%2", <<Sess("a", <<Win(0, Two)>>)>>),
   Close(ts, "window", "a", 0, "", <<Sess("a", <<Win(0, Two)>>)>>),
   Close(ts, "session", "a", 0, "", <<Sess("a", <<Win(0, Two), Win(1, <<Pane("%9", "vim", "t2")>>)>>)>>),
   Close(ts, "window", "b", 1, "", <<Sess("old", <<Win(1, <<Pane("%7", "zsh", "t1")>>)>>)>>),
   Close(ts, "window", "", 3, "", <<>>)}
Unattributed == Close(1, "pane", "", 3, "%8", <<Sess("old", <<Win(3, <<Pane("%8", "vim", "")>>)>>)>>)

Numbered(closes) ==
  [i \in DOMAIN closes |->
     [id |-> i, ts |-> closes[i].ts, scope |-> closes[i].scope, session |-> closes[i].session,
      window |-> closes[i].window, pane |-> closes[i].pane, lost |-> closes[i].lost]]

From(current, closes) ==
  [mode |-> "close", events |-> <<>>, closes |-> Numbered(closes), current |-> current]
Closes(closes) == From("a", closes)

MCSnapshotInputs ==
  {Snapshots(<<>>), Snapshots(<<Snap(1, Rich)>>),
   Snapshots(<<Snap(1, RunningOne), [id |-> 2, ok |-> FALSE, man |-> <<>>], Snap(3, GoneOne)>>)}

\* Any two closes, newest first or at once; two of a kind around another; a
\* list longer than its frame; closes of nobody's, or seen from no session.
MCCloseInputs ==
  {Closes(<<>>), Closes(SetToSeq(Kinds(1)) \o SetToSeq(Kinds(2)))}
  \cup {Closes(<<x, y>>) : x \in Kinds(2), y \in Kinds(1) \cup Kinds(2)}
  \cup {Closes(<<x, y, [x EXCEPT !.ts = 3]>>) : x, y \in Kinds(2)}
  \cup {From(current, <<x, Unattributed>>) : current \in {"", "a"}, x \in Kinds(2)}

MCInputs == MCSnapshotInputs \cup MCCloseInputs
=============================================================================
