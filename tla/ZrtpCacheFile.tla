--------------------------- MODULE ZrtpCacheFile ---------------------------
(***************************************************************************)
(* The file cache of retained secrets of libzrtp (src/zrtp_cache_file.c),  *)
(* with the crashes and the failed writes its file has to survive, those   *)
(* the code notices and those it does not.                                 *)
(*                                                                         *)
(* The cache keeps two lists in memory, of regular and of MitM (PBX)       *)
(* secrets, and updates a file in place: only dirty entries are written,   *)
(* each at the place its index gives, between two writes of the counter    *)
(* of its list (0 first, the length at the end).  All operations hold      *)
(* cache_protector from their first to their last step, so they do not     *)
(* interleave; a crash may come between any two steps of a store.  A step  *)
(* is what is written between two calls of fseek: fwrite fills a buffer    *)
(* that reaches the file with the next fseek or fclose, whose results      *)
(* nobody looks at.  What becomes of a file that misses such a write is    *)
(* only followed cell by cell (a failed fseek also leaves the position     *)
(* behind, part of a cell may be written, and a hole reads as zeros):      *)
(* `lost' marks it, until a store writes the file anew, and nothing is     *)
(* claimed of it in between.                                               *)
(*                                                                         *)
(* Entries are never removed and are appended to their list, so _index is  *)
(* the place in the list (from 1 here) and the element counters are the    *)
(* lengths.  The file is a sequence of cells, one for each field a reader  *)
(* takes at once: version, #mitm, mitm entries, #rs, regular entries.      *)
(***************************************************************************)
EXTENDS Integers, Sequences

CONSTANTS
    Peers,      \* ZIDs of the peers
    MaxPuts,    \* bound on the secrets put in a behaviour
    Faults,     \* what may go wrong: a crash of the process, a "write" or an
                \* fopen that returns its failure, a "flush" that fails unnoticed
    NONE        \* an empty secret, an absent file

ASSUME CacheAssumption ==
    /\ Peers # {} /\ NONE \notin Peers
    /\ MaxPuts \in Nat
    /\ Faults \subseteq {"crash", "write", "flush"}

VARIABLES
    auto_store,       \* config.cache_auto_store
    up,               \* the library: "down", "up", or "failed": zrtp_init failed
    cache_head,       \* list of regular entries
    mitmcache_head,   \* list of MitM entries
    dirty,            \* [list name -> indices of entries with _is_dirty]
    needs_rewriting,
    file,             \* cells of the cache file, or NONE when there is none
    pc,               \* next step of zrtp_cache_store_to_file, or "idle"
    elem,             \* the entry its loops look at
    closing,          \* the store was called by zrtp_cache_file_destroy
    puts,             \* secrets put so far; names the next one
    content,          \* history: what the memory last held
    outcome,          \* history: "ok" when `content' has been stored or loaded
    recent,           \* history: entries held since the last completed store
    lost              \* history: a write was lost since the file was last emptied

memory == <<cache_head, mitmcache_head, dirty, needs_rewriting>>
history == <<content, outcome, recent>>
vars == <<auto_store, up, memory, file, pc, elem, closing, puts, history, lost>>

Secrets == 1..MaxPuts
Entries == [id : Peers, curr : Secrets, prev : Secrets \cup {NONE},
            verified : BOOLEAN]
Content == [rs : Seq(Entries), mitm : Seq(Entries)]
Members(list) == {list[i] : i \in DOMAIN list}
Empty == [rs |-> <<>>, mitm |-> <<>>]

Version == [kind |-> "version"]
Count(n) == [kind |-> "count", n |-> n]
Entry(e) == [kind |-> "entry", entry |-> e]

Cells == {Version} \cup [kind : {"count"}, n : Nat] \cup [kind : {"entry"}, entry : Entries]

\* No file is not a file with cells.
ASSUME NoFileAssumption == NONE \notin Seq(Cells)

(***************************************************************************)
(* Reading the file                                                        *)
(***************************************************************************)

\* The counter in cell k and as many entries after it.
BlockReadable(k) ==
    /\ k <= Len(file)
    /\ file[k].kind = "count"
    /\ k + file[k].n <= Len(file)
    /\ \A i \in 1..file[k].n : file[k + i].kind = "entry"

Block(k) == [i \in 1..file[k].n |-> file[k + i].entry]

RsBlock == 3 + file[2].n

\* A file that is missing, too short for its version string or of another
\* version is an empty cache.
Blank == \/ file = NONE
         \/ file = <<>>
         \/ file[1] # Version

Readable == Blank \/ (BlockReadable(2) /\ BlockReadable(RsBlock))

Loaded == IF Blank THEN Empty
                   ELSE [rs |-> Block(RsBlock), mitm |-> Block(2)]

(***************************************************************************)
(* Writing cells                                                           *)
(***************************************************************************)

\* A write at cell k.  One beyond the end leaves zeros before it, which read
\* as a count of 0.
WriteAt(k, cell) == [i \in 1..(IF k > Len(file) THEN k ELSE Len(file)) |->
                        CASE i = k -> cell
                          [] i # k /\ i > Len(file) -> Count(0)
                          [] OTHER -> file[i]]

\* What a step writes is in the buffer of the file, where the program is done
\* with it.  It reaches the file when the next fseek or fclose flushes it, or
\* it is lost, and no status tells.
Reaches(new) ==
    \/ file' = new /\ lost' = lost
    \/ "flush" \in Faults /\ file' = file /\ lost' = TRUE

MitmPosition(i) == 2 + i

\* The regular block begins after all the MitM entries memory has.
RsCountPosition == 3 + Len(mitmcache_head)

RsPosition(i) == RsCountPosition + i

(***************************************************************************)
(* Initial state                                                           *)
(***************************************************************************)

Init ==
    /\ auto_store \in BOOLEAN
    /\ up = "down"
    /\ cache_head = <<>> /\ mitmcache_head = <<>>
    /\ dirty = [l \in {"rs", "mitm"} |-> {}]
    /\ needs_rewriting = FALSE
    /\ file = NONE
    /\ pc = "idle" /\ elem = 1 /\ closing = FALSE
    /\ puts = 0
    /\ content = Empty /\ outcome = "ok" /\ recent = {} /\ lost = FALSE

(***************************************************************************)
(* Operations                                                              *)
(***************************************************************************)

\* zrtp_cache_file_create: reads the file, or fails and zrtp_init with it.
Create ==
    /\ up \in {"down", "failed"}
    /\ dirty' = [l \in {"rs", "mitm"} |-> {}]
    /\ needs_rewriting' = FALSE
    /\ IF Readable
         THEN /\ up' = "up"
              /\ cache_head' = Loaded.rs /\ mitmcache_head' = Loaded.mitm
              /\ content' = Loaded /\ outcome' = "ok"
              /\ recent' = Members(Loaded.rs) \cup Members(Loaded.mitm)
         ELSE /\ up' = "failed"
              /\ UNCHANGED <<cache_head, mitmcache_head, history>>
    /\ UNCHANGED <<auto_store, file, pc, elem, closing, puts, lost>>

Ready == up = "up" /\ pc = "idle"

\* What an operation does when it has changed its entry: a store if
\* cache_auto_store, still under the mutex.
StoreIfAuto ==
    /\ pc' = IF auto_store THEN "open" ELSE "idle"
    /\ content' = [rs |-> cache_head', mitm |-> mitmcache_head']
    /\ outcome' = "pending"
    /\ recent' = recent \cup Members(cache_head') \cup Members(mitmcache_head')
    /\ UNCHANGED <<auto_store, up, file, elem, closing, lost>>

\* Variant: a new entry takes the counter after its increment for its index.
LookupAfterIncrement(list, p) ==
    LET found == {i \in DOMAIN list : list[i].id = p}
    IN IF found = {} THEN Len(list) + 2 ELSE CHOOSE i \in found : \A j \in found : i <= j

\* get_elem: the place of the first entry of peer p in a list, or one past its end.
Lookup(list, p) ==
    LET found == {i \in DOMAIN list : list[i].id = p}
    IN IF found = {} THEN Len(list) + 1 ELSE CHOOSE i \in found : \A j \in found : i <= j

Known(list, p) == Lookup(list, p) \in DOMAIN list

SetElem(list, i, e) == [j \in DOMAIN list \cup {i} |-> IF j = i THEN e ELSE list[j]]

NewSecret == puts + 1

\* cache_put of a regular secret: the current one becomes the previous one.
Put(p) ==
    /\ Ready /\ puts < MaxPuts
    /\ puts' = NewSecret
    /\ LET i == Lookup(cache_head, p)
           e == IF Known(cache_head, p)
                  THEN [cache_head[i] EXCEPT !.prev = cache_head[i].curr, !.curr = NewSecret]
                  ELSE [id |-> p, curr |-> NewSecret, prev |-> NONE, verified |-> FALSE]
       IN /\ cache_head' = SetElem(cache_head, i, e)
          /\ dirty' = [dirty EXCEPT !["rs"] = @ \cup {i}]
    /\ UNCHANGED <<mitmcache_head, needs_rewriting>>
    /\ StoreIfAuto

\* Variant: MitM entries are updated in place like the others.
RewriteNever == needs_rewriting

\* cache_put of a MitM secret.  It may move the regular block, so the file
\* has to be written anew.
RewriteForMitm == TRUE

PutMitm(p) ==
    /\ Ready /\ puts < MaxPuts
    /\ puts' = NewSecret
    /\ LET i == Lookup(mitmcache_head, p)
       IN /\ mitmcache_head' = SetElem(mitmcache_head, i,
                [id |-> p, curr |-> NewSecret, prev |-> NONE, verified |-> FALSE])
          /\ dirty' = [dirty EXCEPT !["mitm"] = @ \cup {i}]
    /\ needs_rewriting' = RewriteForMitm
    /\ UNCHANGED cache_head
    /\ StoreIfAuto

\* zrtp_file_cache_set_verified; put_name, reset_since and set_presh_counter
\* change other fields of the entry in the same way.
SetVerified(p, v) ==
    /\ Ready
    /\ Known(cache_head, p)
    /\ LET i == Lookup(cache_head, p)
       IN /\ cache_head' = [cache_head EXCEPT ![i].verified = v]
          /\ dirty' = [dirty EXCEPT !["rs"] = @ \cup {i}]
    /\ UNCHANGED <<mitmcache_head, needs_rewriting, puts>>
    /\ StoreIfAuto

\* put_name, reset_since and set_presh_counter of an unknown peer change
\* nothing, but still store.
TouchUnknown(p) ==
    /\ Ready /\ auto_store
    /\ ~Known(cache_head, p)
    /\ UNCHANGED <<memory, puts>>
    /\ StoreIfAuto

\* zrtp_cache_file_destroy.  With cache_auto_store nothing is stored.
Destroy ==
    /\ Ready
    /\ IF auto_store THEN /\ up' = "down"
                          /\ cache_head' = <<>> /\ mitmcache_head' = <<>>
                          /\ UNCHANGED <<pc, closing, outcome>>
                     ELSE /\ pc' = "open" /\ closing' = TRUE
                          /\ outcome' = "pending"
                          /\ UNCHANGED <<up, cache_head, mitmcache_head>>
    /\ UNCHANGED <<auto_store, dirty, needs_rewriting, file, elem, puts, content, recent, lost>>

(***************************************************************************)
(* zrtp_cache_store_to_file                                                *)
(***************************************************************************)

\* The end of a store, and of the destroy that asked for it.
Return(result) ==
    /\ pc' = "idle" /\ elem' = 1
    /\ closing' = FALSE
    /\ outcome' = result
    /\ IF closing THEN up' = "down" /\ cache_head' = <<>> /\ mitmcache_head' = <<>>
                  ELSE UNCHANGED <<up, cache_head, mitmcache_head>>
    /\ UNCHANGED <<auto_store, puts, content>>

\* The next step after one that did its work.
Proceed(place, i) ==
    /\ pc' = place /\ elem' = i
    /\ UNCHANGED <<auto_store, up, cache_head, mitmcache_head, closing, puts, history>>

\* Variant: an entry is marked clean before it is written.
CleanBeforeWrite ==
    [l \in DOMAIN dirty |-> IF l = pc THEN dirty[l] \ {elem} ELSE dirty[l]]

DirtyAfterFailure == dirty

\* A checked fwrite or the fopen fails and the store returns; nobody retries it.
StoreFails ==
    /\ "write" \in Faults
    /\ pc # "idle" /\ pc # "rs_zero"
    /\ Return("failed")
    /\ dirty' = DirtyAfterFailure
    /\ UNCHANGED <<file, needs_rewriting, recent, lost>>

\* "r+" keeps the file, "w+" empties or creates it.
StoreOpen ==
    /\ pc = "open"
    /\ lost' = (lost /\ ~needs_rewriting)
    /\ file' = IF needs_rewriting \/ file = NONE THEN <<>> ELSE file
    /\ Proceed("header", 1)
    /\ UNCHANGED <<dirty, needs_rewriting>>

\* The version, and 0 for the count of MitM entries.
StoreHeader ==
    /\ pc = "header"
    /\ Reaches([i \in 1..(IF Len(file) < 2 THEN 2 ELSE Len(file)) |->
                    CASE i = 1 -> Version [] i = 2 -> Count(0) [] OTHER -> file[i]])
    /\ Proceed("mitm", 1)
    /\ UNCHANGED <<dirty, needs_rewriting>>

MustFlush(l, i) == needs_rewriting \/ i \in dirty[l]

\* flush_elem_: the entry at its place; it is clean as soon as it is in the buffer.
Flush(l, list, position) ==
    /\ elem <= Len(list)
    /\ IF MustFlush(l, elem)
         THEN /\ Reaches(WriteAt(position, Entry(list[elem])))
              /\ dirty' = [dirty EXCEPT ![l] = @ \ {elem}]
         ELSE UNCHANGED <<file, dirty, lost>>
    /\ Proceed(l, elem + 1)
    /\ UNCHANGED needs_rewriting

StoreMitm == pc = "mitm" /\ Flush("mitm", mitmcache_head, MitmPosition(elem))

StoreMitmCount ==
    /\ pc = "mitm" /\ elem > Len(mitmcache_head)
    /\ Reaches(WriteAt(2, Count(Len(mitmcache_head))))
    /\ Proceed("rs_zero", 1)
    /\ UNCHANGED <<dirty, needs_rewriting>>

\* Variant: the final count at once.
FinalCountFirst == Len(cache_head)

\* The count the regular block has while its entries are written.
InterimCount == 0

StoreRsZero ==
    /\ pc = "rs_zero"
    /\ Reaches(WriteAt(RsCountPosition, Count(InterimCount)))
    /\ Proceed("rs", 1)
    /\ UNCHANGED <<dirty, needs_rewriting>>

StoreRs == pc = "rs" /\ Flush("rs", cache_head, RsPosition(elem))

StoreRsCount ==
    /\ pc = "rs" /\ elem > Len(cache_head)
    /\ Reaches(WriteAt(RsCountPosition, Count(Len(cache_head))))
    /\ needs_rewriting' = FALSE
    /\ recent' = Members(cache_head) \cup Members(mitmcache_head)
    /\ Return("ok")
    /\ UNCHANGED dirty

Store == \/ StoreOpen \/ StoreHeader \/ StoreMitm \/ StoreMitmCount
         \/ StoreRsZero \/ StoreRs \/ StoreRsCount \/ StoreFails

\* The process dies: the memory is gone, the file stays as it is.
Crash ==
    /\ "crash" \in Faults
    /\ up = "up"
    /\ up' = "down" /\ pc' = "idle" /\ elem' = 1 /\ closing' = FALSE
    /\ cache_head' = <<>> /\ mitmcache_head' = <<>>
    /\ outcome' = IF outcome = "ok" THEN "ok" ELSE "crashed"
    /\ UNCHANGED <<auto_store, dirty, needs_rewriting, file, puts, content, recent, lost>>

Next ==
    \/ Create \/ Destroy \/ Crash \/ Store
    \/ \E p \in Peers :
          \/ Put(p) \/ PutMitm(p) \/ TouchUnknown(p)
          \/ \E v \in BOOLEAN : SetVerified(p, v)

Spec == Init /\ [][Next]_vars

(***************************************************************************)
(* Properties                                                              *)
(***************************************************************************)

\* Type invariant; the lists have no gaps, and no more entries than secrets were put.
TypeOK ==
    /\ auto_store \in BOOLEAN /\ needs_rewriting \in BOOLEAN /\ closing \in BOOLEAN
    /\ up \in {"down", "up", "failed"}
    /\ DOMAIN cache_head \cup DOMAIN mitmcache_head \subseteq 1..puts
    /\ [rs |-> cache_head, mitm |-> mitmcache_head] \in Content
    /\ dirty \in [{"rs", "mitm"} -> SUBSET (1..MaxPuts)]
    /\ file = NONE \/ file \in Seq(Cells)
    /\ pc \in {"idle", "open", "header", "mitm", "rs_zero", "rs"}
    /\ elem \in 1..(MaxPuts + 1)
    /\ puts \in 0..MaxPuts
    /\ content \in Content
    /\ outcome \in {"ok", "pending", "failed", "crashed"}
    /\ recent \subseteq Entries
    /\ lost \in BOOLEAN

\* Once a store has succeeded, reading the file gives what the memory has,
\* whatever stores failed half-way and whatever crashes happened before: the
\* dirty flags, needs_rewriting and the positions leave no entry behind.  A
\* write that was lost unnoticed ends this, and the next MitM secret, which
\* has the whole file written anew, brings it back.
InSync == outcome = "ok" /\ ~lost => Readable /\ Loaded = content

\* At no moment, inside a store or after a store that failed, does the file
\* hold an entry older than the last completed store where a restart would
\* take it: secrets that have been replaced do not come back, unless a write
\* was lost unnoticed and the file has not been written anew.
NoStaleSecret ==
    Readable /\ ~lost => Members(Loaded.rs) \cup Members(Loaded.mitm) \subseteq recent

\* Without MitM entries an existing file can be read at every moment of a
\* store: a crash or a failed write may lose regular secrets, but the next
\* zrtp_init does not fail, unless a write before was lost unnoticed.
StaysReadable ==
    [][(~Blank /\ Readable /\ mitmcache_head = <<>> /\ ~needs_rewriting /\ ~lost)
        => Readable']_vars

\* "If automatic cache flushing enabled we don't need to store it in a disk as
\* it should be already in sync" (src/zrtp_cache_file.c:510): after destroy the
\* file has what the memory had. Does not hold: a failed store is never retried
\* (MCZrtpCacheFile_destroy.cfg).
DestroyInSync == auto_store /\ up = "down" => Readable /\ Loaded = content

\* What the status of a store says: with zrtp_status_ok (zrtp_cache_file.c:865)
\* the file has what the memory had.  Does not hold: the last bytes are flushed
\* by fclose, whose result is not looked at, and the fseeks before may have lost
\* others, with their entries marked clean (MCZrtpCacheFile_flush.cfg).
StoredWhenOk == outcome = "ok" => Readable /\ Loaded = content

=============================================================================
