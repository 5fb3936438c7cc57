------------------------------- MODULE Files --------------------------------
(***************************************************************************)
(* How store.py publishes a file derived from the database: write_profile()*)
(* and write_dns_staging() write a temporary file beside the target and    *)
(* rename it over the target.  The temporary name depends on the target    *)
(* only, so two writers of one target share it.                            *)
(*                                                                         *)
(* A target is a record: the contents under the temporary and the final    *)
(* name, and for each writer which file its open descriptor leads to.  A   *)
(* rename moves the file and takes the descriptors with it.                *)
(***************************************************************************)
CONSTANTS
  Absent,   \* there is no file of that name
  Empty,    \* a file that has been opened for writing and is still empty
  Torn      \* a file that two writers have written over each other

Fresh(writers, content) ==
  [temp |-> Absent, final |-> content, at |-> [w \in writers |-> "closed"]]

\* What becomes of the descriptors when the file at one place goes to another.
Moved(at, from, to) == [w \in DOMAIN at |-> IF at[w] = from THEN to ELSE at[w]]

\* open(temp, "w"): created, or emptied when another writer has left it there.
Opened(f, w) == [f EXCEPT !.temp = Empty, !.at[w] = "temp"]

\* write and close: the contents go wherever the opened file is by now.  What
\* another writer of the same file has put there shows where it was longer.
Outcomes(there, content) == IF there \in {Empty, content} THEN {content} ELSE {content, Torn}

Written(f, w, content) ==
  LET closed == [f EXCEPT !.at[w] = "closed"]
  IN  CASE f.at[w] = "temp"  -> {[closed EXCEPT !.temp = c] : c \in Outcomes(f.temp, content)}
        [] f.at[w] = "final" -> {[closed EXCEPT !.final = c] : c \in Outcomes(f.final, content)}
        [] OTHER             -> {closed}

\* chmod and rename work on the name: they fail when the file has been renamed.
CanPublish(f) == f.temp # Absent

\* Deliberate fault: the final file is written in place, not renamed over.
PublishedInPlace(f, w) == [f EXCEPT !.final = Empty]

Published(f, w) ==
  [temp |-> Absent, final |-> f.temp, at |-> Moved(Moved(f.at, "final", "lost"), "temp", "final")]

\* except OSError: unlink(temp).  It removes another writer's file as well.
Abandoned(f, w) ==
  [f EXCEPT !.temp = Absent, !.at = Moved([f.at EXCEPT ![w] = "closed"], "temp", "lost")]

Unlinked(f) == [f EXCEPT !.final = Absent, !.at = Moved(f.at, "final", "lost")]

\* The process ends: its descriptors are closed, what it left on disk stays.
Orphaned(f) == [f EXCEPT !.at = [w \in DOMAIN f.at |-> "closed"]]
=============================================================================
