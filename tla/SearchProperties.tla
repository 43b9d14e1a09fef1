--------------------------- MODULE SearchProperties ---------------------------
(***************************************************************************)
(* What module SearchIndex is checked against.                             *)
(***************************************************************************)
EXTENDS SearchIndex

(* A product's newest event is not lost by rebuilds, on any instance: what *)
(* a handler returned for is in the index that is searched, or something   *)
(* newer is.  Two windows are excepted (raced): the event was applied      *)
(* between the export of the product and the write of that page, or the    *)
(* alias moved between the handler's two writes.  So is a deleted product: *)
(* a rebuild exports none, and its tombstone is lost with the old index.   *)
AppliedIsKept ==
  live # None =>
    \A p \in Products \ raced :
      ~product[p].deleted => docs[live][p].version >= applied[p]

(* As long as an index exists, a document in it only moves to a newer      *)
(* version, and a tombstone stays (VERSION_GUARD, and the order of a       *)
(* rebuild's first page and the building alias); raced products excepted.  *)
IndexNeverGoesBack ==
  [][\A x \in exists \cap exists', p \in Products \ raced' :
       /\ docs'[x][p].version >= docs[x][p].version
       /\ docs[x][p].deleted => docs'[x][p].deleted]_vars

(* Handlers can tell which index a rebuild fills: never two of them carry  *)
(* the building alias, through crashes and takeovers, unless a lease       *)
(* expires under its holder or an unwanted index could not be deleted.     *)
OneBuilding ==
  mishaps \cap {"slow", "outage"} = {} => Cardinality(building) <= 1

(* Once there is something to search there always is: a failing rebuild    *)
(* leaves the live index alone.  Not true of a crash or a slow holder,     *)
(* whose lease may record the index that is live by now and have it        *)
(* dropped by a takeover, nor of a failure after the alias moved (or an    *)
(* answer to that call that is lost): the catch then deletes a live index. *)
AliasStays ==
  [][mishaps' \subseteq {"error", "outage"} /\ live # None => live' # None]_vars

(* Every instance gets ready in the end, however the first rebuild fails   *)
(* and whoever left the lease behind.                                      *)
BootSettles == \A i \in Instances : <>[](i \in ready)

-----------------------------------------------------------------------------
(* What a comment says, and the code does not keep *)

(* sync/lock.ts: "Sync batches and reindexes never interleave, so a        *)
(* swapped-in index cannot miss a change."                                 *)
SwapMissesNothing ==
  live # None =>
    \A p \in Products : ~product[p].deleted => docs[live][p].version >= applied[p]

=============================================================================
