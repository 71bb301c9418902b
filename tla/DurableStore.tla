---------------------------- MODULE DurableStore ----------------------------
(***************************************************************************)
(* What a pager with its write-ahead log promises the table above it: a    *)
(* store with one stable value, in which a transaction changes a working   *)
(* copy and a commit makes that copy the stable value, all of it or none,  *)
(* whenever the process may stop.  There are no pages, logs or fsyncs here.*)
(*                                                                         *)
(* The promise has one gap, which is part of it: after some crashes the    *)
(* store is not trusted, and opening it then may give any contents.  A     *)
(* commit or a rollback that returns makes it trusted again.               *)
(***************************************************************************)
CONSTANTS Contents, Blank

VARIABLES
  status,    \* "down", "open" or "committing"
  stable,    \* the value of the last commit, or opening, that returned
  pending,   \* the value that a commit or a recovery is to make stable
  work,      \* what a reader in the live process sees
  trusted    \* the next opening will find stable or pending

vars == <<status, stable, pending, work, trusted>>

Init ==
  /\ status = "down" /\ trusted = TRUE
  /\ stable = Blank /\ pending = Blank /\ work = Blank

\* The values that an opening may find.
Openings == IF trusted THEN {stable, pending} ELSE Contents

\* A recovery settles which value it will open the store with.
Resolve ==
  /\ status = "down"
  /\ pending' \in Openings
  /\ UNCHANGED <<status, stable, work, trusted>>

Opened ==
  /\ status = "down"
  /\ status' = "open"
  /\ stable' \in Openings /\ pending' = stable' /\ work' = stable'
  /\ trusted' \in {trusted, TRUE}

Write ==
  /\ status = "open"
  /\ work' \in Contents
  /\ UNCHANGED <<status, stable, pending, trusted>>

Rollback ==
  /\ status = "open"
  /\ work' = stable
  /\ trusted' = TRUE
  /\ UNCHANGED <<status, stable, pending>>

CommitStart ==
  /\ status = "open"
  /\ status' = "committing"
  /\ pending' = work
  /\ UNCHANGED <<stable, work, trusted>>

\* Preparing a commit may make the store untrusted until the commit is over.
Prepare ==
  /\ status = "committing"
  /\ trusted' \in BOOLEAN
  /\ UNCHANGED <<status, stable, pending, work>>

Committed ==
  /\ status = "committing"
  /\ status' = "open"
  /\ stable' = pending
  /\ trusted' = TRUE
  /\ UNCHANGED <<pending, work>>

Crash ==
  /\ status' = "down"
  /\ work' = Blank
  /\ trusted' \in BOOLEAN
  /\ UNCHANGED <<stable, pending>>

Next ==
  \/ Resolve \/ Opened \/ Write \/ Rollback
  \/ CommitStart \/ Prepare \/ Committed \/ Crash

Spec == Init /\ [][Next]_vars

-----------------------------------------------------------------------------
\* A store below which the file system may report errors: from the first one on,
\* nothing is promised.
CommitError == trusted' = FALSE

SpecWithErrors == Init /\ [][Next \/ CommitError]_vars
=============================================================================
