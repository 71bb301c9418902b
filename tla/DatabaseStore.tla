--------------------------- MODULE DatabaseStore ---------------------------
(***************************************************************************)
(* Each table of the database implements the durable store that its pager  *)
(* is shown to be (module PagerStore): the refinement mapping, for one     *)
(* table, whichever it is.  The mapping looks at the table's own cache,    *)
(* file and log only, so no statement about other tables, kill or full     *)
(* disk elsewhere is anything but a stutter or a crash for it.             *)
(***************************************************************************)
EXTENDS Database

CONSTANT Watched

ASSUME WatchedAssumption == Watched \in Tables

\* Pager::commit of the table lasts from its first record to the truncation.
Status ==
  IF Watched \notin catalog THEN "down" ELSE IF at = Watched THEN "committing" ELSE "open"

\* The file, as long as no log with a marker is to be applied to it.
Stable == IF log[Watched] = NoLog THEN db[Watched] ELSE acked[Watched]

Working == IF Status = "down" THEN Empty ELSE mem[Watched]

Store ==
  INSTANCE DurableStore WITH
    Blank <- Empty,
    status <- Status, stable <- Stable, pending <- Opening(Watched),
    work <- Working, trusted <- Watched \notin failed

\* Whatever transactions span several tables, COMMIT errors cut them short and
\* crashes interrupt them, one table goes through the steps of a store with
\* atomic commits: Pager::commit makes durable just what the cache holds, in one
\* step for whoever opens the file; no statement about another table, BEGIN or
\* ROLLBACK changes what is durable; and open_table after a crash finds the last
\* commit or the one under way.  After a commit of this table met a full disk,
\* nothing is claimed of it.
ImplementsStore == Store!SpecWithErrors
=============================================================================
