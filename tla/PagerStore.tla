----------------------------- MODULE PagerStore -----------------------------
(***************************************************************************)
(* The pager implements the durable store: the refinement mapping.         *)
(***************************************************************************)
EXTENDS Pager

\* A file as a reader sees it: a hole below its end reads as zeros.
Shows(f) == [p \in Page |-> IF p < Length(f) THEN Shown(f[p]) ELSE NoPage]

Status ==
  IF phase \in {"down", "replay", "replayTruncate"} THEN "down"
  ELSE IF phase \in {"idle", "stmt"} THEN "open" ELSE "committing"

\* The table as the live process reads it: its pages, through the cache.
Working ==
  IF Status = "down" THEN EmptyFile
  ELSE [p \in Page |-> IF p < file_length THEN Fetch(p) ELSE NoPage]

Store ==
  INSTANCE DurableStore WITH
    Contents <- File, Blank <- EmptyFile,
    status <- Status, stable <- Shows(acked), pending <- Shows(attempt),
    work <- Working, trusted <- Clean(wal)

\* The page cache, the `.db` file and the log together behave as one store with
\* atomic commits: what `commit` makes stable is exactly what the statements
\* saw through the cache, and an opening after a crash gives the last commit or
\* the one under way.
ImplementsStore == Store!Spec
=============================================================================
