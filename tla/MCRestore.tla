------------------------------ MODULE MCRestore ------------------------------
(* Model-checking instance of Restore.                                      *)
EXTENDS Restore, TLC

P(c, k, r, t) == [cmd |-> c, kids |-> k, relaunch |-> r, text |-> t]
W(panes, deco) == [panes |-> panes, deco |-> deco, layout |-> <<"own", Len(panes)>>]

\* A decorated window with a listed command, an idle shell and an agent that
\* left its own relaunch; a window of one idle shell.
MCShapes ==
  {W(<<P("vim", 0, "", "t1"), P("zsh", 0, "", ""), P("claude", 1, "resume", "")>>, "blue"),
   W(<<P("zsh", 0, "", "t2")>>, "")}

\* The same of one pane each: what comes back matters less than whether.
MCSmallShapes == {W(<<P("vim", 0, "", "t1")>>, "blue"), W(<<P("zsh", 0, "", "t2")>>, "")}

MCFilter == [age |-> 4, idleShells |-> TRUE, idleWindows |-> TRUE, skipRunning |-> TRUE]

\* The defaults, and everything switched off.
MCToggles == {<<TRUE, TRUE>>, <<FALSE, FALSE>>}
=============================================================================
