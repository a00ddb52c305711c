----------------------------- MODULE CacheStore -----------------------------
(***************************************************************************)
(* The violation cache of src/cache.rs as operators on an immutable value. *)
(*                                                                         *)
(* A Cache object is the record of the fields of `struct Cache` that take  *)
(* part in control: the package loaded from disk (files), the staged       *)
(* results (pending), the keys hit through get (touched) and the dirty     *)
(* flag.  A HashMap from path strings is a total function on Keys whose    *)
(* value is NoEntry where the map has no such key.                         *)
(*                                                                         *)
(* What is abstracted: the SeaHash of (mtime, permissions) is the stamp    *)
(* itself; the list of violations is a value of Results; the encoded size  *)
(* of a package is its number of entries, so MAX_CACHE_BYTES is            *)
(* MaxEntries; milliseconds are the ticks of an integer clock.             *)
(***************************************************************************)
EXTENDS Integers, FiniteSets

CONSTANTS
  Files,         \* Python files
  Keys,          \* path strings the package maps to entries
  Unread,        \* the result of a file that could not be read
  NoEntry,       \* "absent from the map"
  RefreshAfter,  \* REFRESH_AFTER_MS
  EvictAfter,    \* EVICT_DAYS
  MaxEntries     \* MAX_CACHE_BYTES

ASSUME KeysAssumption    == IsFiniteSet(Keys) /\ IsFiniteSet(Files)
ASSUME RefreshAssumption == RefreshAfter \in Nat
ASSUME EvictAssumption   == EvictAfter \in Nat /\ RefreshAfter < EvictAfter
ASSUME SizeAssumption    == MaxEntries \in Nat

(* The violations of a file: linting is a function of the file, the        *)
(* version of its text and whether `# noqa` is ignored.  A file that could *)
(* not be read has the result Unread, an empty list.                       *)
Lint(f, v, raw) == [file |-> f, ver |-> v, raw |-> raw]
Linted  == [file : Files, ver : Nat, raw : BOOLEAN]
Results == Linted \cup {Unread}

(* struct FileCache: the stamp it was computed for, the time it was last   *)
(* used, and the violations.                                               *)
Entry == [key : Nat, seen : Nat, viols : Results]

(* An element of the `pending` vector; a later push for the same path      *)
(* overwrites an earlier one when persist_at inserts them in order.        *)
StagedEntry == [key : Nat, viols : Results]

ASSUME NoEntryAssumption ==
  NoEntry \notin Entry \cup StagedEntry \cup Results \cup Nat
ASSUME UnreadAssumption  == Unread \notin Linted

Package == [Keys -> Entry \cup {NoEntry}]

Cache == [files   : Package,
          pending : [Keys -> StagedEntry \cup {NoEntry}],
          touched : SUBSET Keys,
          dirty   : BOOLEAN]

NoFiles == [k \in Keys |-> NoEntry]

Live(files) == {k \in Keys : files[k] # NoEntry}

(* A package file on disk: nothing usable and nothing to report (missing,  *)
(* foreign or other format version), damaged, or a valid package.          *)
DiskFile == [kind : {"ignored", "corrupt"}] \cup
            [kind : {"loaded"}, files : Package]

Loaded(files) == [kind |-> "loaded", files |-> files]

-----------------------------------------------------------------------------
(* A slip: a damaged file opens as an empty cache that looks unchanged.    *)
OpenClean(disk) ==
  [files   |-> IF disk.kind = "loaded" THEN disk.files ELSE NoFiles,
   pending |-> NoFiles,
   touched |-> {},
   dirty   |-> FALSE]

(* Cache::open: a damaged file gives an empty cache that is already dirty, *)
(* so that the next persist replaces the file.                             *)
Open(disk) ==
  [files   |-> IF disk.kind = "loaded" THEN disk.files ELSE NoFiles,
   pending |-> NoFiles,
   touched |-> {},
   dirty   |-> disk.kind = "corrupt"]

(* Cache::get returns the entry's violations exactly when the key matches. *)
Hits(c, k, key) == c.files[k] # NoEntry /\ c.files[k].key = key

Touch(c, k) == [c EXCEPT !.touched = @ \cup {k}]

SetLinted(c, k, key, viols) ==
  [c EXCEPT !.pending[k] = [key |-> key, viols |-> viols]]

Invalidate(c, k) ==
  [c EXCEPT !.files[k]   = NoEntry,
            !.pending[k] = NoEntry,
            !.dirty      = @ \/ c.files[k] # NoEntry]

-----------------------------------------------------------------------------
(* Cache::persist_at.                                                      *)

(* A hit entry whose stored last_seen is too old makes the run write.      *)
StaleHit(c, now) ==
  \E k \in c.touched : c.files[k] # NoEntry /\ now - c.files[k].seen > RefreshAfter

NeedsWrite(c, now) ==
  c.dirty \/ Live(c.pending) # {} \/ StaleHit(c, now)

(* Slips: the package is replaced by the pending entries; hits are not     *)
(* refreshed.                                                              *)
MergedPendingOnly(c, now) ==
  [k \in Keys |->
    IF c.pending[k] # NoEntry
    THEN [key |-> c.pending[k].key, seen |-> now, viols |-> c.pending[k].viols]
    ELSE NoEntry]

MergedWithoutRefresh(c, now) ==
  [k \in Keys |->
    IF c.pending[k] # NoEntry
    THEN [key |-> c.pending[k].key, seen |-> now, viols |-> c.pending[k].viols]
    ELSE c.files[k]]

(* Insert the pending entries, then refresh the entries that were hit.     *)
Merged(c, now) ==
  [k \in Keys |->
    IF c.pending[k] # NoEntry
    THEN [key |-> c.pending[k].key, seen |-> now, viols |-> c.pending[k].viols]
    ELSE IF k \in c.touched /\ c.files[k] # NoEntry
         THEN [c.files[k] EXCEPT !.seen = now]
         ELSE c.files[k]]

Restricted(files, K) == [k \in Keys |-> IF k \in K THEN files[k] ELSE NoEntry]

Evicted(files, now) ==
  Restricted(files, {k \in Live(files) : files[k].seen >= now - EvictAfter})

(* How many of n entries are left when the oldest half is dropped, again   *)
(* and again, until the file fits.                                         *)
Fitting(n) ==
  IF n <= MaxEntries THEN n
  ELSE LET sizes == {n \div 2^i : i \in 1..n}
       IN  CHOOSE m \in sizes : m <= MaxEntries /\ \A o \in sizes : o <= MaxEntries => o <= m

(* The packages the trimming loop can end with: the newest entries, ties   *)
(* broken by path, which the model leaves open.                            *)
Trimmed(files) ==
  {Restricted(files, K) : K \in
    {S \in SUBSET Live(files) :
      /\ Cardinality(S) = Fitting(Cardinality(Live(files)))
      /\ \A k \in S, d \in Live(files) \ S : files[d].seen <= files[k].seen}}

(* The package persist_at encodes, for every way the ties can fall.        *)
Packages(c, now) == Trimmed(Evicted(Merged(c, now), now))

(* The memory persist_at leaves when it has encoded `files`: pending and   *)
(* touched are taken before the write is tried, dirty is cleared after it. *)
Merge(c, files) ==
  [files |-> files, pending |-> NoFiles, touched |-> {}, dirty |-> c.dirty]

(* With nothing to write the hits are forgotten all the same.              *)
Untouched(c) == [c EXCEPT !.touched = {}]

Written(c) == [c EXCEPT !.dirty = FALSE]

=============================================================================
