----------------------------- MODULE EventStore -----------------------------
(***************************************************************************)
(* The events table of internal/store: what its queries return and what    *)
(* its retention statements delete.  A table is a finite set of rows       *)
(*     [id |-> primary key, ts |-> time, kind |-> event kind, ...]         *)
(* (AUTOINCREMENT: a later insert has a larger id).  The modules that      *)
(* store rows here add the columns they need.                              *)
(*                                                                         *)
(* Time is counted in ticks.  DayLen and Week stand for the UTC calendar   *)
(* day of date(ts/1000, 'unixepoch') and for the 7*24h of PruneSnapshots.  *)
(***************************************************************************)
EXTENDS Integers, FiniteSets

CONSTANTS DayLen, Week

ASSUME DaysAssumption == DayLen \in Nat \ {0} /\ Week \in Nat

Snapshots(E) == {e \in E : e.kind = "snapshot"}
Closes(E)    == {e \in E : e.kind # "snapshot"}

Ids(E) == {e.id : e \in E}

\* ORDER BY ts DESC, id DESC: e comes before f.
Newer(e, f) == e.ts > f.ts \/ (e.ts = f.ts /\ e.id > f.id)

\* The row a query with that order and LIMIT 1 returns, as a set: empty when
\* the query has no rows.
First(S) == {e \in S : \A f \in S \ {e} : Newer(e, f)}

LatestSnapshot(E)           == First(Snapshots(E))
LatestSnapshotBefore(E, ts) == First({e \in Snapshots(E) : e.ts < ts})

\* ORDER BY ts DESC, id DESC LIMIT n.
Newest(S, n) == {e \in S : Cardinality({f \in S : Newer(f, e)}) < n}

\* ORDER BY ts DESC LIMIT n: rows of equal ts come in an order SQL does not
\* fix, so there is one result for each way to break the ties.
NewestByTs(S, n) ==
  {K \in SUBSET S :
     /\ Cardinality(K) = IF n < Cardinality(S) THEN n ELSE Cardinality(S)
     /\ \A k \in K, s \in S \ K : s.ts <= k.ts}

Day(ts) == ts \div DayLen

\* The snapshots of the last week whose ts is the maximum of its UTC day.
DayFloor(S, now) ==
  {e \in S : /\ now - Week <= e.ts
             /\ \A f \in S : Day(f.ts) = Day(e.ts) => f.ts <= e.ts}

\* Mutant: no day floor.
PruneNoFloor(E, keep, now) == {Closes(E) \cup K : K \in NewestByTs(Snapshots(E), keep)}

\* The tables PruneSnapshots(keep, now) can leave.
PruneSnapshots(E, keep, now) ==
  LET S == Snapshots(E)
  IN  {Closes(E) \cup K \cup DayFloor(S, now) : K \in NewestByTs(S, keep)}

\* Mutant: ts <= MAX(snapshot ts).
PruneUnresolvableMax(E) ==
  E \ {c \in Closes(E) : \E s \in Snapshots(E) : c.ts <= s.ts}

\* ts <= MIN(snapshot ts); MIN over no row is NULL and deletes nothing.
PruneUnresolvable(E) ==
  IF Snapshots(E) = {} THEN E
  ELSE E \ {c \in Closes(E) : \A s \in Snapshots(E) : c.ts <= s.ts}

\* Two statements: the keep newest close events, then the unresolvable ones.
PruneCloses(E, keep) ==
  {PruneUnresolvable(Snapshots(E) \cup K) : K \in NewestByTs(Closes(E), keep)}
=============================================================================
