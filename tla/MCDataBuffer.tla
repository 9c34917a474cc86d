---------------------------- MODULE MCDataBuffer ----------------------------
(***************************************************************************)
(* Small instances of DataBuffer: two sizes of value (one byte fits the    *)
(* memory, two bytes do not and go straight to disk), and what clients ask *)
(* for in each run.                                                        *)
(***************************************************************************)
EXTENDS DataBufferProperties

CONSTANTS k1, k2, k3, small, large, huge

MCSize == (small :> 1) @@ (large :> 2) @@ (huge :> 4)

Store(ks, v) == [op : {"Store"}, key : ks, value : {v}]
Ask(ops, ks) == [op : ops, key : ks]
DeleteIf(ks) == [op : {"DeleteIf"}, keys : {ks}]
SetLimit(ops, ls) == [op : ops, limit : ls]

\* Three keys compete for a memory of one byte and a disk of two.
Competing ==
  Store({k1, k2, k3}, small) \cup Store({k1}, large)
    \cup Ask({"Get", "Delete"}, {k1, k2})

\* Stores that wait for memory or for disk, and what ends the wait: a copy, a Delete, a
\* higher limit or the destructor.
Blocking ==
  Store({k1}, large) \cup Store({k2, k3}, small)
    \cup Ask({"Get"}, {k2}) \cup Ask({"Delete"}, {k1}) \cup DeleteIf({k2})
    \cup SetLimit({"SetMaxMemoryUsage"}, {2}) \cup SetLimit({"SetMaxDiskUsage"}, {3})

\* The same key stored over and over.
Restoring == Store({k1, k2}, small) \cup Ask({"Get"}, {k1})

\* A value too large for the disk stops the buffer.
TooLarge == Store({k1, k2}, small) \cup Store({k3}, huge)
=============================================================================
