----------------------- MODULE ZrtpCacheFile_proofs -----------------------
(***************************************************************************)
(* Theorems about the cache file, for any peers and any number of secrets, *)
(* crashes and failed writes, noticed or not.                              *)
(*                                                                         *)
(* The invariant has two halves.  MemoryInv, on the lists, the flags and   *)
(* the store that runs, holds whatever becomes of the writes.  FileInv, on *)
(* what the file holds, needs that no write was lost since the file was    *)
(* last emptied: a step that is not lost keeps it, and the opening of a    *)
(* store that writes the file anew makes it hold again, from MemoryInv     *)
(* alone.                                                                  *)
(***************************************************************************)
EXTENDS ZrtpCacheFile, SequenceTheorems, WellFoundedInduction, TLAPS

-----------------------------------------------------------------------------
(* The memory and the store.                                               *)

CellIs(f, k, cell) == f \in Seq(Cells) /\ k \in 1..Len(f) /\ f[k] = cell

\* The running store has been past entry i of list l.
Reached(l, i) ==
    IF l = "mitm" THEN pc \in {"rs_zero", "rs"} \/ (pc = "mitm" /\ i < elem)
                  ELSE pc = "rs" /\ i < elem

Clean(l, i) == Reached(l, i) \/ ~MustFlush(l, i)

Storing == pc # "idle" => up = "up" /\ outcome = "pending"

Held ==
    up = "up" =>
        /\ content = [rs |-> cache_head, mitm |-> mitmcache_head]
        /\ Members(cache_head) \subseteq recent
        /\ Members(mitmcache_head) \subseteq recent
        /\ ~needs_rewriting => dirty["mitm"] = {}
        /\ \A i \in dirty["mitm"] : i <= Len(mitmcache_head) /\ ~Reached("mitm", i)

Opened == pc \in {"header", "mitm", "rs_zero", "rs"} => file \in Seq(Cells)

\* No count announces more entries than there were secrets.
CountsFit(f) ==
    f \in Seq(Cells) => \A k \in 1..Len(f) : f[k].kind = "count" => f[k].n <= puts

MemoryInv == TypeOK /\ Storing /\ Held /\ Opened /\ CountsFit(file)

-----------------------------------------------------------------------------
(* What the file is, seen from the memory.                                 *)

\* Entries that need no write are in the file at their places.
InPlace ==
    up = "up" =>
        /\ \A i \in 1..Len(mitmcache_head) :
              Clean("mitm", i) => CellIs(file, MitmPosition(i), Entry(mitmcache_head[i]))
        /\ \A i \in 1..Len(cache_head) :
              Clean("rs", i) => CellIs(file, RsPosition(i), Entry(cache_head[i]))

\* The cells between which the running store is.
Progress ==
    /\ pc = "header" /\ needs_rewriting => file = <<>>
    /\ pc = "mitm" => /\ elem <= Len(mitmcache_head) + 1
                      /\ CellIs(file, 2, Count(0))
                      /\ needs_rewriting => Len(file) = elem + 1
    /\ pc = "rs_zero" => /\ CellIs(file, 2, Count(Len(mitmcache_head)))
                         /\ needs_rewriting => Len(file) = RsCountPosition - 1
    /\ pc = "rs" => /\ CellIs(file, 2, Count(Len(mitmcache_head)))
                    /\ CellIs(file, RsCountPosition, Count(0))

VersionFirst(f) == f \in Seq(Cells) /\ Len(f) # 0 => CellIs(f, 1, Version)

\* What a reader finds behind a count at the place of the regular block: for
\* each entry a secret that memory had.
Visible ==
    (/\ up = "up" /\ ~needs_rewriting
     /\ file \in Seq(Cells) /\ RsCountPosition <= Len(file)
     /\ file[RsCountPosition].kind = "count") =>
            \A i \in 1..file[RsCountPosition].n :
               RsPosition(i) <= Len(file) /\ file[RsPosition(i)].kind = "entry" =>
                   file[RsPosition(i)].entry \in recent

\* Without MitM entries the regular block stays in its place.
NoMitmCount ==
    (up = "up" /\ ~needs_rewriting /\ mitmcache_head = <<>> /\ ~Blank) => CellIs(file, 2, Count(0))

\* A restart finds lists that memory had.
LoadedHeld ==
    Readable => Members(Loaded.rs) \subseteq recent /\ Members(Loaded.mitm) \subseteq recent

FileInv ==
    /\ InPlace /\ Progress /\ VersionFirst(file) /\ Visible /\ NoMitmCount
    /\ LoadedHeld /\ StoredWhenOk

CacheInv == MemoryInv /\ (~lost => FileInv)

-----------------------------------------------------------------------------
(* Cells, lists and blocks.                                                *)

LEMMA CellKinds ==
    /\ Version \in Cells
    /\ \A n \in Nat : Count(n) \in Cells /\ Count(n).kind = "count" /\ Count(n).n = n
    /\ \A e \in Entries : Entry(e) \in Cells /\ Entry(e).kind = "entry" /\ Entry(e).entry = e
    /\ \A c \in Cells : c.kind = "count" => c.n \in Nat /\ c = Count(c.n)
    /\ \A c \in Cells : c.kind = "entry" => c.entry \in Entries /\ c = Entry(c.entry)
  BY DEF Cells, Version, Count, Entry

\* A write changes one cell.
LEMMA WriteChangesOne ==
    ASSUME file \in Seq(Cells), NEW k \in Nat \ {0}, NEW cell \in Cells
    PROVE  /\ WriteAt(k, cell) \in Seq(Cells)
           /\ Len(WriteAt(k, cell)) = IF k > Len(file) THEN k ELSE Len(file)
           /\ CellIs(WriteAt(k, cell), k, cell)
           /\ \A j \in 1..Len(file) : j # k => WriteAt(k, cell)[j] = file[j]
  <1> DEFINE L == IF k > Len(file) THEN k ELSE Len(file)
  <1>1. L \in Nat /\ Len(file) \in Nat /\ k \in 1..L /\ Len(file) <= L
    OBVIOUS
  <1>2. \A j \in 1..L : (CASE j = k -> cell
                           [] j # k /\ j > Len(file) -> Count(0)
                           [] OTHER -> file[j]) \in Cells
    <2> TAKE j \in 1..L
    <2>1. CASE j = k
      BY <2>1
    <2>2. CASE j # k /\ j > Len(file)
      BY <2>2, CellKinds
    <2>3. CASE j # k /\ ~(j > Len(file))
      <3>1. j \in 1..Len(file)
        BY <2>3, <1>1
      <3>2. file[j] \in Cells
        BY <3>1
      <3> QED BY <2>3, <3>2
    <2> QED BY <2>1, <2>2, <2>3
  <1>3. WriteAt(k, cell) = [j \in 1..L |-> CASE j = k -> cell
                                             [] j # k /\ j > Len(file) -> Count(0)
                                             [] OTHER -> file[j]]
    BY DEF WriteAt
  <1> HIDE DEF L
  <1>4. WriteAt(k, cell) \in [1..L -> Cells]
    BY <1>2, <1>3
  <1>5. WriteAt(k, cell) \in Seq(Cells) /\ Len(WriteAt(k, cell)) = L
    BY <1>1, <1>4, LenProperties, SeqDef
  <1>6. WriteAt(k, cell)[k] = cell
    BY <1>1, <1>3
  <1>7. \A j \in 1..Len(file) : j # k => WriteAt(k, cell)[j] = file[j]
    BY <1>1, <1>3
  <1> QED BY <1>1, <1>5, <1>6, <1>7 DEF CellIs, L

\* A write adds no count that is too large.
LEMMA WriteFits ==
    ASSUME file \in Seq(Cells), CountsFit(file), puts \in Nat, puts' = puts,
           NEW k \in Nat \ {0}, NEW cell \in Cells, cell.kind = "count" => cell.n <= puts,
           file' = WriteAt(k, cell) \/ file' = file
    PROVE  file' \in Seq(Cells) /\ CountsFit(file)'
  <1>1. CASE file' = file
    BY <1>1 DEF CountsFit
  <1>2. CASE file' = WriteAt(k, cell)
    <2>1. /\ file' \in Seq(Cells)
          /\ Len(file') = IF k > Len(file) THEN k ELSE Len(file)
      BY <1>2, WriteChangesOne
    <2>2. SUFFICES ASSUME NEW j \in 1..Len(file'), file'[j].kind = "count"
                   PROVE  file'[j].n <= puts
      BY <2>1 DEF CountsFit
    <2>3. CASE j = k
      BY <1>2, <2>2, <2>3, WriteChangesOne DEF CellIs
    <2>4. CASE j # k /\ j \in 1..Len(file)
      <3>1. file'[j] = file[j]
        BY <1>2, <2>4, WriteChangesOne
      <3> QED BY <2>2, <2>4, <3>1 DEF CountsFit
    <2>5. CASE j # k /\ j \notin 1..Len(file)
      <3>1. j > Len(file) /\ j \in 1..(IF k > Len(file) THEN k ELSE Len(file))
        BY <2>1, <2>5
      <3>2. file'[j] = Count(0)
        BY <1>2, <2>5, <3>1 DEF WriteAt
      <3> QED BY <3>2, CellKinds
    <2> QED BY <2>3, <2>4, <2>5
  <1> QED BY <1>1, <1>2

LEMMA LeastOf ==
    ASSUME NEW S, S \subseteq Nat, S # {}
    PROVE  \E i \in S : \A j \in S : i <= j
  <1>1. PICK i \in S : \A j \in S : ~(<<j, i>> \in OpToRel(<, Nat))
    BY NatLessThanWellFounded, WFMin
  <1>2. \A j \in S : ~(j < i)
    BY <1>1 DEF OpToRel
  <1> QED BY <1>2

\* Lookup finds an entry of a peer, or the place after the last.
LEMMA LookupFinds ==
    ASSUME NEW list \in Seq(Entries), NEW p
    PROVE  /\ Lookup(list, p) \in 1..(Len(list) + 1)
           /\ Known(list, p) <=> Lookup(list, p) \in 1..Len(list)
           /\ Known(list, p) => list[Lookup(list, p)].id = p
           /\ ~Known(list, p) => Lookup(list, p) = Len(list) + 1
  <1> DEFINE found == {i \in DOMAIN list : list[i].id = p}
             first == CHOOSE i \in found : \A j \in found : i <= j
  <1>1. DOMAIN list = 1..Len(list) /\ Len(list) \in Nat
    OBVIOUS
  <1>2. Lookup(list, p) = IF found = {} THEN Len(list) + 1 ELSE first
    BY DEF Lookup
  <1>3. CASE found = {}
    BY <1>1, <1>2, <1>3 DEF Known
  <1>4. CASE found # {}
    <2>1. found \subseteq Nat
      BY <1>1
    <2>2. \E i \in found : \A j \in found : i <= j
      <3> HIDE DEF found
      <3> QED BY <1>4, <2>1, LeastOf
    <2>3. first \in found
      BY <2>2
    <2>4. Lookup(list, p) \in found
      BY <1>2, <1>4, <2>3
    <2> QED BY <1>1, <2>4 DEF Known
  <1> QED BY <1>3, <1>4

\* What becomes of a list when the entry of a peer is put or changed.
LEMMA SetElemFits ==
    ASSUME NEW list \in Seq(Entries), NEW p, NEW e \in Entries
    PROVE  LET i == Lookup(list, p)
               new == SetElem(list, i, e)
           IN  /\ new \in Seq(Entries)
               /\ Len(new) = IF Known(list, p) THEN Len(list) ELSE Len(list) + 1
               /\ \A j \in 1..Len(list) : j # i => new[j] = list[j]
  <1> DEFINE i == Lookup(list, p)
             new == SetElem(list, i, e)
             L == IF Known(list, p) THEN Len(list) ELSE Len(list) + 1
  <1>1. DOMAIN list = 1..Len(list) /\ Len(list) \in Nat /\ L \in Nat
    OBVIOUS
  <1>2. DOMAIN list \cup {i} = 1..L /\ i \in 1..L /\ Len(list) <= L
    BY <1>1, LookupFinds
  <1>3. new = [j \in 1..L |-> IF j = i THEN e ELSE list[j]]
    BY <1>2 DEF SetElem
  <1>4. \A j \in 1..L : j # i => j \in 1..Len(list)
    BY <1>1, <1>2, LookupFinds
  <1> HIDE DEF i, L, new
  <1>5. \A j \in 1..Len(list) : list[j] \in Entries
    BY <1>1
  <1>6. new \in [1..L -> Entries]
    BY <1>3, <1>4, <1>5
  <1>7. new \in Seq(Entries) /\ Len(new) = L
    BY <1>1, <1>6, LenProperties, SeqDef
  <1>8. \A j \in 1..Len(list) : j # i => new[j] = list[j]
    BY <1>1, <1>2, <1>3
  <1> QED BY <1>7, <1>8 DEF i, L, new

-----------------------------------------------------------------------------
(* Reading a file f: Readable and Loaded, for the file before and after a  *)
(* step.                                                                   *)

BlockIn(f, k) ==
    /\ k <= Len(f)
    /\ f[k].kind = "count"
    /\ k + f[k].n <= Len(f)
    /\ \A i \in 1..f[k].n : f[k + i].kind = "entry"

EntriesIn(f, k) == [i \in 1..f[k].n |-> f[k + i].entry]

BlankFile(f) == f = NONE \/ f = <<>> \/ f[1] # Version

ReadableIn(f) == BlankFile(f) \/ (BlockIn(f, 2) /\ BlockIn(f, 3 + f[2].n))

LoadedIn(f) == IF BlankFile(f) THEN Empty
               ELSE [rs |-> EntriesIn(f, 3 + f[2].n), mitm |-> EntriesIn(f, 2)]

LEMMA ReadingFile ==
    /\ Blank <=> BlankFile(file)
    /\ Readable <=> ReadableIn(file)
    /\ Loaded = LoadedIn(file)
    /\ Blank' <=> BlankFile(file')
    /\ Readable' <=> ReadableIn(file')
    /\ Loaded' = LoadedIn(file')
  BY DEF Blank, BlankFile, Readable, ReadableIn, Loaded, LoadedIn, BlockReadable, BlockIn,
         RsBlock, Block, EntriesIn

\* A block that can be read is a list of entries.
LEMMA BlockIsList ==
    ASSUME NEW f \in Seq(Cells), NEW k \in Nat \ {0}, BlockIn(f, k)
    PROVE  /\ f[k] \in Cells /\ f[k].n \in Nat
           /\ EntriesIn(f, k) \in Seq(Entries)
           /\ Len(EntriesIn(f, k)) = f[k].n
           /\ \A i \in 1..f[k].n : /\ EntriesIn(f, k)[i] = f[k + i].entry
                                   /\ CellIs(f, k + i, Entry(EntriesIn(f, k)[i]))
  <1>1. Len(f) \in Nat /\ k \in 1..Len(f)
    BY DEF BlockIn
  <1>2. f[k] \in Cells
    BY <1>1
  <1>3. f[k].n \in Nat
    BY <1>2, CellKinds DEF BlockIn
  <1>4. ASSUME NEW i \in 1..f[k].n
        PROVE  k + i \in 1..Len(f) /\ f[k + i].entry \in Entries /\ f[k + i] = Entry(f[k + i].entry)
    <2>1. k + i \in 1..Len(f)
      BY <1>1, <1>3 DEF BlockIn
    <2>2. f[k + i] \in Cells
      BY <2>1
    <2>3. f[k + i].kind = "entry"
      BY DEF BlockIn
    <2> QED BY <2>1, <2>2, <2>3, CellKinds
  <1>5. EntriesIn(f, k) \in [1..f[k].n -> Entries]
    BY <1>4 DEF EntriesIn
  <1>6. EntriesIn(f, k) \in Seq(Entries) /\ Len(EntriesIn(f, k)) = f[k].n
    BY <1>3, <1>5, LenProperties, SeqDef
  <1>7. \A i \in 1..f[k].n : EntriesIn(f, k)[i] = f[k + i].entry
    BY DEF EntriesIn
  <1>8. \A i \in 1..f[k].n : CellIs(f, k + i, Entry(EntriesIn(f, k)[i]))
    <2> SUFFICES ASSUME NEW i \in 1..f[k].n
                 PROVE  CellIs(f, k + i, Entry(EntriesIn(f, k)[i]))
      OBVIOUS
    <2> QED BY <1>4, <1>7 DEF CellIs
  <1> QED BY <1>2, <1>3, <1>6, <1>7, <1>8

\* A count followed by the entries of a list is that list.
LEMMA ListIsBlock ==
    ASSUME NEW f \in Seq(Cells), NEW k \in Nat \ {0}, NEW list \in Seq(Entries),
           CellIs(f, k, Count(Len(list))),
           \A i \in 1..Len(list) : CellIs(f, k + i, Entry(list[i]))
    PROVE  BlockIn(f, k) /\ f[k].n = Len(list) /\ EntriesIn(f, k) = list
  <1>1. Len(list) \in Nat /\ Len(f) \in Nat /\ DOMAIN list = 1..Len(list)
    OBVIOUS
  <1>2. k \in 1..Len(f) /\ f[k].kind = "count" /\ f[k].n = Len(list)
    BY <1>1, CellKinds DEF CellIs
  <1>3. \A i \in 1..Len(list) : list[i] \in Entries
    BY <1>1
  <1>4. \A i \in 1..Len(list) : f[k + i].kind = "entry" /\ f[k + i].entry = list[i]
    BY <1>3, CellKinds DEF CellIs
  <1>5. k + Len(list) <= Len(f)
    <2>1. CASE Len(list) = 0
      BY <2>1, <1>1, <1>2
    <2>2. CASE Len(list) # 0
      <3>1. Len(list) \in 1..Len(list)
        BY <2>2, <1>1
      <3>2. k + Len(list) \in 1..Len(f)
        BY <3>1 DEF CellIs
      <3> QED BY <3>2, <1>1
    <2> QED BY <2>1, <2>2
  <1>6. BlockIn(f, k)
    BY <1>1, <1>2, <1>4, <1>5 DEF BlockIn
  <1>7. EntriesIn(f, k) = [i \in 1..Len(list) |-> list[i]]
    BY <1>2, <1>4 DEF EntriesIn
  <1>8. list = [i \in 1..Len(list) |-> list[i]]
    BY <1>1
  <1> QED BY <1>2, <1>6, <1>7, <1>8

-----------------------------------------------------------------------------
(* Facts every step uses.                                                  *)

LEMMA CountedSecrets == MaxPuts \in Nat
  BY CacheAssumption

LEMMA ListLength ==
    ASSUME NEW list \in Seq(Entries), NEW n \in Nat, DOMAIN list \subseteq 1..n
    PROVE  Len(list) \in Nat /\ DOMAIN list = 1..Len(list) /\ Len(list) <= n
  <1>1. Len(list) \in Nat /\ DOMAIN list = 1..Len(list)
    OBVIOUS
  <1>2. Len(list) # 0 => Len(list) \in 1..Len(list)
    BY <1>1
  <1> QED BY <1>1, <1>2

LEMMA ListTypes ==
    ASSUME TypeOK
    PROVE  /\ cache_head \in Seq(Entries) /\ mitmcache_head \in Seq(Entries)
           /\ DOMAIN cache_head = 1..Len(cache_head)
           /\ DOMAIN mitmcache_head = 1..Len(mitmcache_head)
           /\ Len(cache_head) \in Nat /\ Len(mitmcache_head) \in Nat
           /\ Len(cache_head) <= puts /\ Len(mitmcache_head) <= puts
           /\ RsCountPosition \in Nat /\ RsCountPosition = 3 + Len(mitmcache_head)
           /\ puts \in Nat /\ puts <= MaxPuts
           /\ file \in Seq(Cells) => Len(file) \in Nat
  <1>1. cache_head \in Seq(Entries) /\ mitmcache_head \in Seq(Entries)
    BY DEF TypeOK, Content
  <1>2. puts \in Nat /\ puts <= MaxPuts
    BY CountedSecrets DEF TypeOK
  <1>3. DOMAIN cache_head \subseteq 1..puts /\ DOMAIN mitmcache_head \subseteq 1..puts
    BY DEF TypeOK
  <1> QED BY <1>1, <1>2, <1>3, ListLength DEF RsCountPosition

LEMMA MembersOf ==
    ASSUME NEW list \in Seq(Entries)
    PROVE  /\ Members(list) \subseteq Entries
           /\ \A i \in 1..Len(list) : list[i] \in Members(list) /\ list[i] \in Entries
  BY DEF Members

LEMMA EmptyLists ==
    /\ <<>> \in Seq(Entries) /\ Len(<<>>) = 0 /\ DOMAIN <<>> = {} /\ Members(<<>>) = {}
    /\ Empty.rs = <<>> /\ Empty.mitm = <<>> /\ Empty \in Content
  BY DEF Members, Empty, Content

LEMMA FileStays ==
    ASSUME LoadedHeld, file' = file, recent \subseteq recent'
    PROVE  LoadedHeld'
  BY ReadingFile DEF LoadedHeld

-----------------------------------------------------------------------------
(* What a reader makes of the phases of a store.                           *)

LEMMA NotBlank ==
    ASSUME NEW f, VersionFirst(f), f \in Seq(Cells), Len(f) # 0
    PROVE  ~BlankFile(f)
  BY NoFileAssumption DEF BlankFile, VersionFirst, CellIs

\* No entries announced and no count behind them: no reader takes this.
LEMMA HeaderUnreadable ==
    ASSUME NEW f, VersionFirst(f), CellIs(f, 2, Count(0)),
           Len(f) = 2 \/ \E e \in Entries : CellIs(f, 3, Entry(e))
    PROVE  ~ReadableIn(f)
  <1>1. f \in Seq(Cells) /\ Len(f) \in Nat /\ Len(f) >= 2 /\ f[2].n = 0
    BY CellKinds DEF CellIs
  <1>2. ~BlankFile(f)
    BY <1>1, NotBlank
  <1>3. ~BlockIn(f, 3)
    <2>1. CASE Len(f) = 2
      BY <2>1 DEF BlockIn
    <2>2. CASE \E e \in Entries : CellIs(f, 3, Entry(e))
      BY <2>2, CellKinds DEF CellIs, BlockIn
    <2> QED BY <2>1, <2>2
  <1>4. 3 + f[2].n = 3
    BY <1>1
  <1> QED BY <1>2, <1>3, <1>4 DEF ReadableIn

\* With all MitM entries announced and in place the regular block decides.
LEMMA MitmReads ==
    ASSUME NEW f, NEW list \in Seq(Entries), VersionFirst(f), CellIs(f, 2, Count(Len(list))),
           \A i \in 1..Len(list) : CellIs(f, 2 + i, Entry(list[i]))
    PROVE  /\ ReadableIn(f) <=> BlockIn(f, 3 + Len(list))
           /\ LoadedIn(f) = [rs |-> EntriesIn(f, 3 + Len(list)), mitm |-> list]
           /\ ~BlankFile(f)
  <1>1. f \in Seq(Cells) /\ Len(f) \in Nat /\ Len(f) >= 2
    BY DEF CellIs
  <1>2. ~BlankFile(f)
    BY <1>1, NotBlank
  <1>3. BlockIn(f, 2) /\ f[2].n = Len(list) /\ EntriesIn(f, 2) = list
    BY <1>1, ListIsBlock
  <1> QED BY <1>2, <1>3 DEF ReadableIn, LoadedIn

\* A block of entries that memory had.
LEMMA BlockHeld ==
    ASSUME NEW f \in Seq(Cells), NEW k \in Nat \ {0}, BlockIn(f, k), NEW held,
           \A i \in 1..f[k].n : f[k + i].entry \in held
    PROVE  Members(EntriesIn(f, k)) \subseteq held
  <1>1. DOMAIN EntriesIn(f, k) = 1..f[k].n
    BY DEF EntriesIn
  <1>2. \A i \in 1..f[k].n : EntriesIn(f, k)[i] = f[k + i].entry
    BY DEF EntriesIn
  <1> QED BY <1>1, <1>2 DEF Members

LEMMA NoneRead ==
    ASSUME NEW f \in Seq(Cells), NEW k \in Nat \ {0}, CellIs(f, k, Count(0))
    PROVE  BlockIn(f, k) /\ Members(EntriesIn(f, k)) = {}
  <1>1. <<>> \in Seq(Entries) /\ Len(<<>>) = 0 /\ \A i \in 1..0 : FALSE
    OBVIOUS
  <1>2. BlockIn(f, k) /\ EntriesIn(f, k) = <<>>
    BY <1>1, ListIsBlock
  <1> QED BY <1>2, EmptyLists

-----------------------------------------------------------------------------
(* Steps that leave the file as it is.                                     *)

LEMMA CacheInit == Init => CacheInv
  <1> SUFFICES ASSUME Init PROVE CacheInv
    OBVIOUS
  <1>1. TypeOK
    <2>1. [rs |-> cache_head, mitm |-> mitmcache_head] \in Content /\ content \in Content
      BY EmptyLists DEF Init, Content
    <2>2. DOMAIN cache_head \cup DOMAIN mitmcache_head \subseteq 1..puts
      BY EmptyLists DEF Init
    <2>3. dirty \in [{"rs", "mitm"} -> SUBSET (1..MaxPuts)]
      BY DEF Init
    <2>4. elem \in 1..(MaxPuts + 1) /\ puts \in 0..MaxPuts
      BY CountedSecrets DEF Init
    <2> QED BY <2>1, <2>2, <2>3, <2>4 DEF Init, TypeOK
  <1>2. Storing /\ Held /\ Opened /\ InPlace /\ Progress /\ Visible /\ NoMitmCount
    BY DEF Init, Storing, Held, Opened, InPlace, Progress, Visible, NoMitmCount
  <1>3. CountsFit(file) /\ VersionFirst(file)
    BY NoFileAssumption DEF Init, CountsFit, VersionFirst
  <1>4. Readable /\ Loaded = Empty
    BY DEF Init, Readable, Loaded, Blank
  <1>5. LoadedHeld /\ StoredWhenOk
    BY <1>4, EmptyLists DEF Init, LoadedHeld, StoredWhenOk
  <1> QED BY <1>1, <1>2, <1>3, <1>5 DEF CacheInv, MemoryInv, FileInv

LEMMA StutterKeeps == CacheInv /\ UNCHANGED vars => CacheInv'
  <1> SUFFICES ASSUME CacheInv, UNCHANGED vars PROVE CacheInv'
    OBVIOUS
  <1> USE DEF vars, memory, history
  <1>1. TypeOK' /\ Storing' /\ Opened' /\ CountsFit(file)'
    BY DEF CacheInv, MemoryInv, TypeOK, Storing, Opened, CountsFit
  <1>2. Held'
    BY DEF CacheInv, MemoryInv, Held, Reached
  <1>3. ASSUME FileInv PROVE FileInv'
    <2>1. InPlace'
      BY <1>3 DEF FileInv, InPlace, Clean, Reached, MustFlush, MitmPosition, RsPosition,
                  RsCountPosition
    <2>2. Progress' /\ VersionFirst(file)' /\ Visible'
      BY <1>3 DEF FileInv, Progress, VersionFirst, Visible, RsPosition, RsCountPosition, CellIs
    <2>3. NoMitmCount'
      BY <1>3 DEF FileInv, NoMitmCount, Blank
    <2>4. (Readable' <=> Readable) /\ Loaded' = Loaded
      BY ReadingFile
    <2>5. LoadedHeld' /\ StoredWhenOk'
      BY <1>3, <2>4 DEF FileInv, LoadedHeld, StoredWhenOk
    <2> QED BY <2>1, <2>2, <2>3, <2>5 DEF FileInv
  <1> QED BY <1>1, <1>2, <1>3 DEF CacheInv, MemoryInv

\* The process ends, or the library goes down without a store.
Leaves ==
    /\ up' = "down" /\ pc' = "idle" /\ elem' \in 1..(MaxPuts + 1)
    /\ cache_head' = <<>> /\ mitmcache_head' = <<>>
    /\ closing' \in BOOLEAN
    /\ outcome' \in {"ok", "pending", "failed", "crashed"}
    /\ outcome' = "ok" => outcome = "ok"
    /\ UNCHANGED <<auto_store, dirty, needs_rewriting, file, puts, content, recent, lost>>

LEMMA LeavesKeeps == CacheInv /\ Leaves => CacheInv'
  <1> SUFFICES ASSUME CacheInv, Leaves PROVE CacheInv'
    OBVIOUS
  <1>0. TypeOK
    BY DEF CacheInv, MemoryInv
  <1>1. TypeOK'
    <2>1. [rs |-> cache_head', mitm |-> mitmcache_head'] \in Content
      BY EmptyLists DEF Leaves, Content
    <2>2. DOMAIN cache_head' \cup DOMAIN mitmcache_head' \subseteq 1..puts'
      BY EmptyLists DEF Leaves
    <2> QED BY <1>0, <2>1, <2>2 DEF Leaves, TypeOK
  <1>2. Storing' /\ Held' /\ Opened' /\ CountsFit(file)'
    BY DEF Leaves, Storing, Held, Opened, CountsFit, CacheInv, MemoryInv
  <1>3. ASSUME FileInv PROVE FileInv'
    <2>1. InPlace' /\ Visible' /\ NoMitmCount' /\ Progress'
      BY DEF Leaves, InPlace, Visible, NoMitmCount, Progress
    <2>2. VersionFirst(file)'
      BY <1>3 DEF Leaves, FileInv, VersionFirst, CellIs
    <2>4. (Readable' <=> Readable) /\ Loaded' = Loaded
      BY ReadingFile DEF Leaves
    <2>5. LoadedHeld' /\ StoredWhenOk'
      BY <1>3, <2>4 DEF FileInv, LoadedHeld, StoredWhenOk, Leaves
    <2> QED BY <2>1, <2>2, <2>5 DEF FileInv
  <1> QED BY <1>1, <1>2, <1>3 DEF CacheInv, MemoryInv, Leaves

LEMMA CrashKeeps == CacheInv /\ Crash => CacheInv'
  <1> SUFFICES ASSUME CacheInv, Crash PROVE CacheInv'
    OBVIOUS
  <1>1. outcome \in {"ok", "pending", "failed", "crashed"} /\ 1 \in 1..(MaxPuts + 1)
    BY CountedSecrets DEF CacheInv, MemoryInv, TypeOK
  <1>2. Leaves
    BY <1>1 DEF Crash, Leaves
  <1> QED BY <1>2, LeavesKeeps

\* A store that is asked for, and one that fails and returns to a library that stays up.
FileWaits ==
    /\ up' = up /\ pc' \in {"idle", "open"}
    /\ pc' # "idle" => up = "up"
    /\ elem' \in 1..(MaxPuts + 1) /\ closing' \in BOOLEAN
    /\ outcome' \in {"pending", "failed"}
    /\ pc' = "open" => outcome' = "pending"
    /\ UNCHANGED <<auto_store, cache_head, mitmcache_head, dirty, needs_rewriting, file, puts,
                   content, recent, lost>>

LEMMA WaitsKeeps == CacheInv /\ FileWaits => CacheInv'
  <1> SUFFICES ASSUME CacheInv, FileWaits PROVE CacheInv'
    OBVIOUS
  <1>1. TypeOK'
    BY DEF CacheInv, MemoryInv, FileWaits, TypeOK
  <1>2. Storing' /\ Opened' /\ CountsFit(file)'
    BY DEF FileWaits, Storing, Opened, CountsFit, CacheInv, MemoryInv
  <1>r. \A l, i : Reached(l, i)' = FALSE
    BY DEF Reached, FileWaits
  <1>c. \A l, i : Clean(l, i)' => Clean(l, i)
    BY <1>r DEF Clean, MustFlush, FileWaits
  <1>p. \A i : MitmPosition(i)' = MitmPosition(i) /\ RsPosition(i)' = RsPosition(i)
    BY DEF MitmPosition, RsPosition, RsCountPosition, FileWaits
  <1>3. Held'
    BY <1>r DEF CacheInv, MemoryInv, Held, FileWaits
  <1>4. ASSUME FileInv PROVE FileInv'
    <2>1. InPlace'
      BY <1>4, <1>c, <1>p DEF FileInv, InPlace, FileWaits
    <2>2. Progress' /\ StoredWhenOk'
      BY DEF Progress, StoredWhenOk, FileWaits
    <2>3. Visible' /\ VersionFirst(file)'
      BY <1>4, <1>p DEF FileInv, Visible, VersionFirst, CellIs, RsCountPosition, FileWaits
    <2>4. NoMitmCount'
      BY <1>4 DEF FileInv, NoMitmCount, Blank, FileWaits
    <2>5. LoadedHeld'
      BY <1>4, FileStays DEF FileInv, FileWaits
    <2> QED BY <2>1, <2>2, <2>3, <2>4, <2>5 DEF FileInv
  <1> QED BY <1>1, <1>2, <1>3, <1>4 DEF CacheInv, MemoryInv, FileWaits

LEMMA DestroyKeeps == CacheInv /\ Destroy => CacheInv'
  <1> SUFFICES ASSUME CacheInv, Destroy PROVE CacheInv'
    OBVIOUS
  <1>0. TypeOK
    BY DEF CacheInv, MemoryInv
  <1>1. CASE auto_store
    <2>1. Leaves
      BY <1>0, <1>1 DEF Destroy, Ready, Leaves, TypeOK
    <2> QED BY <2>1, LeavesKeeps
  <1>2. CASE ~auto_store
    <2>1. FileWaits
      BY <1>0, <1>2 DEF Destroy, Ready, FileWaits, TypeOK
    <2> QED BY <2>1, WaitsKeeps
  <1> QED BY <1>1, <1>2

\* A checked write that fails leaves the file and the flags as they are.
LEMMA FailsKeeps == CacheInv /\ StoreFails => CacheInv'
  <1> SUFFICES ASSUME CacheInv, StoreFails PROVE CacheInv'
    OBVIOUS
  <1>0. TypeOK /\ dirty' = dirty /\ 1 \in 1..(MaxPuts + 1)
    BY CountedSecrets DEF CacheInv, MemoryInv, StoreFails, DirtyAfterFailure
  <1>1. CASE closing
    <2>1. Leaves
      BY <1>0, <1>1 DEF StoreFails, Return, Leaves, TypeOK
    <2> QED BY <2>1, LeavesKeeps
  <1>2. CASE ~closing
    <2>1. FileWaits
      BY <1>0, <1>2 DEF StoreFails, Return, FileWaits, TypeOK
    <2> QED BY <2>1, WaitsKeeps
  <1> QED BY <1>0, <1>1, <1>2 DEF TypeOK

\* A block of a file whose counts fit is no longer than there were secrets.
LEMMA LoadedTypes ==
    ASSUME TypeOK, CountsFit(file), Readable
    PROVE  /\ Loaded \in Content
           /\ DOMAIN Loaded.rs \cup DOMAIN Loaded.mitm \subseteq 1..puts
  <1>1. CASE Blank
    BY <1>1, EmptyLists DEF Loaded
  <1>2. CASE ~Blank
    <2>1. file \in Seq(Cells) /\ BlockIn(file, 2) /\ BlockIn(file, 3 + file[2].n)
      BY <1>2, ReadingFile DEF TypeOK, Blank, ReadableIn
    <2>2. Loaded = [rs |-> EntriesIn(file, 3 + file[2].n), mitm |-> EntriesIn(file, 2)]
      BY <1>2, ReadingFile DEF LoadedIn
    <2>3. puts \in Nat
      BY ListTypes
    <2>4. ASSUME NEW k \in Nat \ {0}, BlockIn(file, k)
          PROVE  EntriesIn(file, k) \in Seq(Entries) /\ DOMAIN EntriesIn(file, k) \subseteq 1..puts
      <3>1. EntriesIn(file, k) \in Seq(Entries) /\ file[k].n \in Nat
        BY <2>1, <2>4, BlockIsList
      <3>2. file[k].n <= puts
        BY <2>1, <2>4 DEF BlockIn, CountsFit
      <3>3. DOMAIN EntriesIn(file, k) = 1..file[k].n
        BY DEF EntriesIn
      <3> QED BY <2>3, <3>1, <3>2, <3>3
    <2>5. 2 \in Nat \ {0} /\ 3 + file[2].n \in Nat \ {0}
      <3>1. file[2].n \in Nat
        BY <2>1, BlockIsList
      <3> QED BY <3>1
    <2>6. /\ EntriesIn(file, 2) \in Seq(Entries) /\ DOMAIN EntriesIn(file, 2) \subseteq 1..puts
          /\ EntriesIn(file, 3 + file[2].n) \in Seq(Entries)
          /\ DOMAIN EntriesIn(file, 3 + file[2].n) \subseteq 1..puts
      BY <2>1, <2>4, <2>5
    <2> QED BY <2>2, <2>6 DEF Content
  <1> QED BY <1>1, <1>2

\* A restart takes what it can read, and begins with clean entries in place.
LEMMA CreateKeeps == CacheInv /\ Create => CacheInv'
  <1> SUFFICES ASSUME CacheInv, Create PROVE CacheInv'
    OBVIOUS
  <1>0. TypeOK /\ up # "up" /\ pc = "idle" /\ pc' = "idle" /\ file' = file /\ puts' = puts
        /\ lost' = lost /\ CountsFit(file)
    BY DEF CacheInv, MemoryInv, Storing, Create
  <1>r. (Readable' <=> Readable) /\ Loaded' = Loaded
    BY <1>0, ReadingFile
  <1>d. dirty' = [l \in {"rs", "mitm"} |-> {}] /\ needs_rewriting' = FALSE
    BY DEF Create
  <1>s. Storing' /\ Progress' /\ Opened' /\ CountsFit(file)'
    BY <1>0 DEF Storing, Progress, Opened, CountsFit
  <1>v. VersionFirst(file) => VersionFirst(file)'
    BY <1>0 DEF VersionFirst, CellIs
  <1>1. CASE ~Readable
    <2>1. /\ up' = "failed"
          /\ UNCHANGED <<cache_head, mitmcache_head, content, outcome, recent, auto_store, elem, closing>>
      BY <1>1 DEF Create, history
    <2>2. TypeOK'
      BY <1>0, <1>d, <2>1 DEF TypeOK
    <2>3. Held' /\ InPlace' /\ Visible' /\ NoMitmCount'
      BY <2>1 DEF Held, InPlace, Visible, NoMitmCount
    <2>4. FileInv => LoadedHeld' /\ StoredWhenOk'
      BY <1>r, <1>1, <2>1 DEF FileInv, LoadedHeld, StoredWhenOk
    <2> QED BY <1>0, <1>s, <1>v, <2>2, <2>3, <2>4 DEF CacheInv, MemoryInv, FileInv
  <1>2. CASE Readable
    <2> DEFINE rs == Loaded.rs
               mitm == Loaded.mitm
    <2>1. /\ up' = "up" /\ cache_head' = rs /\ mitmcache_head' = mitm
          /\ content' = Loaded /\ outcome' = "ok"
          /\ recent' = Members(rs) \cup Members(mitm)
          /\ UNCHANGED <<auto_store, elem, closing>>
      BY <1>2 DEF Create
    <2>2. Loaded \in Content /\ DOMAIN rs \cup DOMAIN mitm \subseteq 1..puts
      BY <1>0, <1>2, LoadedTypes
    <2>3. Loaded = [rs |-> rs, mitm |-> mitm]
      BY DEF Loaded, Empty
    <2>4. rs \in Seq(Entries) /\ mitm \in Seq(Entries)
      BY <2>2 DEF Content
    <2>5. Loaded.rs = rs /\ Loaded.mitm = mitm
      OBVIOUS
    <2> HIDE DEF rs, mitm
    <2>6. TypeOK'
      <3>1. recent' \subseteq Entries
        BY <2>1, <2>4, MembersOf
      <3>2. dirty' \in [{"rs", "mitm"} -> SUBSET (1..MaxPuts)]
        BY <1>d
      <3> QED BY <1>0, <1>d, <2>1, <2>2, <2>3, <3>1, <3>2 DEF TypeOK
    <2>7. Held'
      BY <1>0, <1>d, <2>1, <2>3 DEF Held
    <2>8. LoadedHeld' /\ StoredWhenOk'
      BY <1>2, <1>r, <2>1, <2>5 DEF LoadedHeld, StoredWhenOk
    <2>m. MemoryInv'
      BY <1>s, <2>6, <2>7 DEF MemoryInv
    <2>f. SUFFICES ASSUME FileInv
                   PROVE  InPlace' /\ Visible' /\ NoMitmCount'
      BY <1>0, <1>s, <1>v, <2>8, <2>m DEF CacheInv, FileInv
    <2>9. CASE Blank
      <3>1. rs = <<>> /\ mitm = <<>> /\ Blank'
        BY <1>0, <2>9 DEF Loaded, Empty, Blank, rs, mitm
      <3>2. InPlace' /\ NoMitmCount'
        BY <2>1, <3>1 DEF InPlace, NoMitmCount
      <3>3. Visible'
        <4>1. file' \in Seq(Cells) => Len(file') = 0
          BY <1>0, <2>f, <2>9, NotBlank, ReadingFile DEF FileInv
        <4>2. RsCountPosition' = 3
          BY <2>1, <3>1 DEF RsCountPosition
        <4> QED BY <4>1, <4>2 DEF Visible
      <3> QED BY <3>2, <3>3
    <2>10. CASE ~Blank
      <3>1. /\ BlockIn(file, 2) /\ BlockIn(file, 3 + file[2].n)
            /\ rs = EntriesIn(file, 3 + file[2].n) /\ mitm = EntriesIn(file, 2)
        BY <1>2, <2>10, ReadingFile DEF ReadableIn, LoadedIn, rs, mitm
      <3>2. file \in Seq(Cells)
        BY <1>0, <2>10 DEF TypeOK, Blank
      <3>3. /\ file[2] \in Cells /\ file[2].n \in Nat /\ Len(mitm) = file[2].n
            /\ \A i \in 1..Len(mitm) : CellIs(file, 2 + i, Entry(mitm[i]))
        <4>1. 2 \in Nat \ {0}
          OBVIOUS
        <4>2. /\ file[2] \in Cells /\ file[2].n \in Nat /\ Len(EntriesIn(file, 2)) = file[2].n
              /\ \A i \in 1..file[2].n : CellIs(file, 2 + i, Entry(EntriesIn(file, 2)[i]))
          BY <3>1, <3>2, <4>1, BlockIsList
        <4> QED BY <3>1, <4>2
      <3>4. RsCountPosition' = 3 + file[2].n /\ 3 + file[2].n \in Nat \ {0}
        BY <2>1, <3>3 DEF RsCountPosition
      <3>5. /\ Len(rs) = file[RsCountPosition'].n
            /\ \A i \in 1..Len(rs) : /\ CellIs(file, RsCountPosition' + i, Entry(rs[i]))
                                     /\ file[RsCountPosition' + i].entry = rs[i]
        BY <3>1, <3>2, <3>4, BlockIsList
      <3>6. InPlace'
        BY <1>0, <2>1, <3>3, <3>5 DEF InPlace, MitmPosition, RsPosition
      <3>7. Visible'
        <4>1. \A i \in 1..Len(rs) : rs[i] \in recent'
          BY <2>1, <2>4, MembersOf
        <4> QED BY <1>0, <2>1, <3>5, <4>1 DEF Visible, RsPosition
      <3>8. NoMitmCount'
        <4>1. SUFFICES ASSUME mitmcache_head' = <<>>
                       PROVE  CellIs(file', 2, Count(0))
          BY DEF NoMitmCount
        <4>2. file[2].n = 0 /\ file[2].kind = "count" /\ 2 <= Len(file) /\ Len(file) \in Nat
          BY <2>1, <3>1, <3>2, <3>3, <4>1 DEF BlockIn
        <4>3. file[2] = Count(0)
          BY <3>3, <4>2, CellKinds
        <4> QED BY <1>0, <3>2, <4>2, <4>3 DEF CellIs
      <3> QED BY <3>6, <3>7, <3>8
    <2> QED BY <2>9, <2>10
  <1> QED BY <1>1, <1>2

-----------------------------------------------------------------------------
(* Changes of the lists in memory.                                         *)

\* What StoreIfAuto leaves of a change that fits.
LEMMA ChangedMemory ==
    ASSUME MemoryInv, up = "up", pc = "idle", StoreIfAuto,
           puts' \in Nat, puts <= puts', puts' <= MaxPuts,
           cache_head' \in Seq(Entries), mitmcache_head' \in Seq(Entries),
           Len(cache_head') <= puts', Len(mitmcache_head') <= puts',
           needs_rewriting' \in BOOLEAN,
           dirty' \in [{"rs", "mitm"} -> SUBSET (1..MaxPuts)],
           ~needs_rewriting' => dirty'["mitm"] = {},
           \A i \in dirty'["mitm"] : i <= Len(mitmcache_head')
    PROVE  /\ MemoryInv'
           /\ pc' \in {"idle", "open"} /\ up' = "up" /\ outcome' = "pending" /\ file' = file
           /\ recent \subseteq recent' /\ lost' = lost
           /\ \A l, i : Reached(l, i)' = FALSE /\ Reached(l, i) = FALSE
  <1>1. /\ up' = "up" /\ pc' \in {"idle", "open"}
        /\ UNCHANGED <<auto_store, closing, elem, file, lost>>
        /\ outcome' = "pending"
        /\ content' = [rs |-> cache_head', mitm |-> mitmcache_head']
        /\ recent' = recent \cup Members(cache_head') \cup Members(mitmcache_head')
    BY DEF StoreIfAuto
  <1>2. TypeOK /\ puts \in Nat /\ MaxPuts \in Nat
    BY ListTypes, CountedSecrets DEF MemoryInv
  <1>r. \A l, i : Reached(l, i)' = FALSE /\ Reached(l, i) = FALSE
    BY <1>1 DEF Reached
  <1>3. TypeOK'
    <2>1. [rs |-> cache_head', mitm |-> mitmcache_head'] \in Content
      BY DEF Content
    <2>2. DOMAIN cache_head' \cup DOMAIN mitmcache_head' \subseteq 1..puts'
      <3>1. /\ DOMAIN cache_head' = 1..Len(cache_head') /\ Len(cache_head') \in Nat
            /\ DOMAIN mitmcache_head' = 1..Len(mitmcache_head') /\ Len(mitmcache_head') \in Nat
        OBVIOUS
      <3> QED BY <3>1
    <2>3. recent' \subseteq Entries
      BY <1>1, <1>2, MembersOf DEF TypeOK
    <2>4. puts' \in 0..MaxPuts
      BY <1>2
    <2> QED BY <1>1, <1>2, <2>1, <2>2, <2>3, <2>4 DEF TypeOK
  <1>4. Storing' /\ Opened'
    BY <1>1 DEF Storing, Opened
  <1>5. Held'
    BY <1>1, <1>r DEF Held
  <1>6. CountsFit(file)'
    <2>1. SUFFICES ASSUME file \in Seq(Cells), NEW k \in 1..Len(file), file[k].kind = "count"
                   PROVE  file[k].n <= puts'
      BY <1>1 DEF CountsFit
    <2>2. file[k].n <= puts
      BY <2>1 DEF MemoryInv, CountsFit
    <2>3. file[k].n \in Nat
      BY <2>1, CellKinds
    <2> QED BY <1>2, <2>2, <2>3
  <1> QED BY <1>1, <1>r, <1>3, <1>4, <1>5, <1>6 DEF MemoryInv

\* The regular entries changed or added are dirty, all others as they were.
Edited ==
    /\ up = "up" /\ pc = "idle" /\ StoreIfAuto
    /\ UNCHANGED <<mitmcache_head, needs_rewriting>>
    /\ puts' \in Nat /\ puts <= puts' /\ puts' <= MaxPuts
    /\ cache_head' \in Seq(Entries) /\ Len(cache_head') <= puts'
    /\ dirty' \in [{"rs", "mitm"} -> SUBSET (1..MaxPuts)]
    /\ dirty'["mitm"] = dirty["mitm"] /\ dirty["rs"] \subseteq dirty'["rs"]
    /\ \A j \in 1..Len(cache_head') :
          j \in dirty'["rs"] \/ (j \in 1..Len(cache_head) /\ cache_head'[j] = cache_head[j])

LEMMA EditedKeeps == CacheInv /\ Edited => CacheInv'
  <1> SUFFICES ASSUME CacheInv, Edited PROVE CacheInv'
    OBVIOUS
  <1>0. MemoryInv /\ TypeOK
    BY DEF CacheInv, MemoryInv
  <1>1. /\ up = "up" /\ StoreIfAuto /\ UNCHANGED <<mitmcache_head, needs_rewriting>>
        /\ cache_head' \in Seq(Entries) /\ dirty'["mitm"] = dirty["mitm"]
    BY DEF Edited
  <1>2. /\ puts \in Nat /\ mitmcache_head \in Seq(Entries) /\ Len(mitmcache_head) \in Nat
        /\ Len(mitmcache_head) <= puts
    BY <1>0, ListTypes
  <1>3. /\ MemoryInv'
        /\ pc' \in {"idle", "open"} /\ up' = "up" /\ outcome' = "pending" /\ file' = file
        /\ recent \subseteq recent' /\ lost' = lost
        /\ \A l, i : Reached(l, i)' = FALSE /\ Reached(l, i) = FALSE
    <2>1. mitmcache_head' \in Seq(Entries) /\ needs_rewriting' \in BOOLEAN
      BY <1>0, <1>1, <1>2 DEF TypeOK
    <2>2. /\ ~needs_rewriting' => dirty'["mitm"] = {}
          /\ \A i \in dirty'["mitm"] : i <= Len(mitmcache_head')
      BY <1>0, <1>1 DEF MemoryInv, Held
    <2>3. Len(mitmcache_head') <= puts'
      <3>1. puts' \in Nat /\ puts <= puts'
        BY DEF Edited
      <3> QED BY <1>1, <1>2, <3>1
    <2> QED BY <1>0, <2>1, <2>2, <2>3, ChangedMemory DEF Edited
  <1>4. SUFFICES ASSUME FileInv PROVE FileInv'
    BY <1>3 DEF CacheInv
  <1>5. Progress' /\ StoredWhenOk'
    BY <1>3 DEF Progress, StoredWhenOk
  <1>6. VersionFirst(file)'
    BY <1>3, <1>4 DEF FileInv, VersionFirst, CellIs
  <1>p. /\ RsCountPosition' = RsCountPosition
        /\ \A i : MitmPosition(i)' = MitmPosition(i) /\ RsPosition(i)' = RsPosition(i)
    BY <1>1 DEF MitmPosition, RsPosition, RsCountPosition
  <1>7. InPlace'
    <2>1. \A i : Clean("mitm", i)' => Clean("mitm", i)
      BY <1>1, <1>3 DEF Clean, MustFlush
    <2>2. \A i \in 1..Len(cache_head') : Clean("rs", i)' =>
             i \in 1..Len(cache_head) /\ cache_head'[i] = cache_head[i] /\ Clean("rs", i)
      BY <1>1, <1>3 DEF Clean, MustFlush, Edited
    <2> QED BY <1>1, <1>3, <1>4, <1>p, <2>1, <2>2 DEF FileInv, InPlace
  <1>8. Visible'
    BY <1>1, <1>3, <1>4, <1>p DEF FileInv, Visible
  <1>9. NoMitmCount'
    BY <1>1, <1>3, <1>4 DEF FileInv, NoMitmCount, Blank
  <1>10. LoadedHeld'
    BY <1>3, <1>4, FileStays DEF FileInv
  <1> QED BY <1>5, <1>6, <1>7, <1>8, <1>9, <1>10 DEF FileInv

LEMMA ElemEdited ==
    ASSUME CacheInv, NEW p \in Peers, NEW e \in Entries,
           up = "up", pc = "idle", StoreIfAuto,
           UNCHANGED <<mitmcache_head, needs_rewriting>>,
           (puts' = puts /\ Known(cache_head, p)) \/ (puts' = puts + 1 /\ puts < MaxPuts),
           cache_head' = SetElem(cache_head, Lookup(cache_head, p), e),
           dirty' = [dirty EXCEPT !["rs"] = dirty["rs"] \cup {Lookup(cache_head, p)}]
    PROVE  Edited
  <1> DEFINE i == Lookup(cache_head, p)
             new == SetElem(cache_head, i, e)
  <1>1. /\ cache_head \in Seq(Entries) /\ Len(cache_head) \in Nat /\ Len(cache_head) <= puts
        /\ puts \in Nat /\ puts <= MaxPuts /\ MaxPuts \in Nat
    BY ListTypes, CountedSecrets DEF CacheInv, MemoryInv
  <1>2. /\ new \in Seq(Entries)
        /\ Len(new) = IF Known(cache_head, p) THEN Len(cache_head) ELSE Len(cache_head) + 1
    BY <1>1, SetElemFits
  <1>3. \A j \in 1..Len(cache_head) : j # i => new[j] = cache_head[j]
    BY <1>1, SetElemFits
  <1>4. /\ i \in 1..(Len(cache_head) + 1)
        /\ Known(cache_head, p) <=> i \in 1..Len(cache_head)
        /\ ~Known(cache_head, p) => i = Len(cache_head) + 1
    BY <1>1, LookupFinds
  <1>c. cache_head' = new
    OBVIOUS
  <1>d. dirty \in [{"rs", "mitm"} -> SUBSET (1..MaxPuts)]
    BY DEF CacheInv, MemoryInv, TypeOK
  <1>e. dirty' = [dirty EXCEPT !["rs"] = dirty["rs"] \cup {i}]
    OBVIOUS
  <1> HIDE DEF i, new
  <1>5. puts' \in Nat /\ puts <= puts' /\ puts' <= MaxPuts
    BY <1>1
  <1>6. Len(new) <= puts' /\ i \in 1..MaxPuts
    BY <1>1, <1>2, <1>4
  <1>7. /\ dirty' \in [{"rs", "mitm"} -> SUBSET (1..MaxPuts)]
        /\ dirty'["mitm"] = dirty["mitm"] /\ dirty'["rs"] = dirty["rs"] \cup {i}
    BY <1>d, <1>e, <1>6
  <1>8. \A j \in 1..Len(new) : j # i => j \in 1..Len(cache_head)
    BY <1>1, <1>2, <1>4
  <1>9. \A j \in 1..Len(cache_head') :
           j \in dirty'["rs"] \/ (j \in 1..Len(cache_head) /\ cache_head'[j] = cache_head[j])
    BY <1>c, <1>3, <1>7, <1>8
  <1> QED BY <1>2, <1>c, <1>5, <1>6, <1>7, <1>9 DEF Edited

LEMMA PutKeeps == ASSUME NEW p \in Peers PROVE CacheInv /\ Put(p) => CacheInv'
  <1> SUFFICES ASSUME CacheInv, Put(p) PROVE CacheInv'
    OBVIOUS
  <1> DEFINE i == Lookup(cache_head, p)
             e == IF Known(cache_head, p)
                    THEN [cache_head[i] EXCEPT !.prev = cache_head[i].curr, !.curr = NewSecret]
                    ELSE [id |-> p, curr |-> NewSecret, prev |-> NONE, verified |-> FALSE]
  <1>1. /\ up = "up" /\ pc = "idle" /\ StoreIfAuto /\ puts < MaxPuts /\ puts' = puts + 1
        /\ UNCHANGED <<mitmcache_head, needs_rewriting>>
        /\ cache_head' = SetElem(cache_head, i, e)
        /\ dirty' = [dirty EXCEPT !["rs"] = dirty["rs"] \cup {i}]
    BY DEF Put, Ready, NewSecret
  <1>2. cache_head \in Seq(Entries) /\ puts \in Nat /\ MaxPuts \in Nat
    BY ListTypes, CountedSecrets DEF CacheInv, MemoryInv
  <1>3. NewSecret \in Secrets
    BY <1>1, <1>2 DEF NewSecret, Secrets
  <1>4. e \in Entries
    <2>1. CASE Known(cache_head, p)
      <3>1. i \in 1..Len(cache_head)
        BY <1>2, <2>1, LookupFinds
      <3>2. cache_head[i] \in Entries
        BY <1>2, <3>1
      <3>3. e = [cache_head[i] EXCEPT !.prev = cache_head[i].curr, !.curr = NewSecret]
        BY <2>1
      <3> HIDE DEF i, e
      <3> QED BY <1>3, <3>2, <3>3 DEF Entries
    <2>2. CASE ~Known(cache_head, p)
      BY <1>3, <2>2 DEF Entries
    <2> QED BY <2>1, <2>2
  <1> HIDE DEF e
  <1>5. Edited
    BY <1>1, <1>4, ElemEdited
  <1> QED BY <1>5, EditedKeeps

LEMMA SetVerifiedKeeps ==
    ASSUME NEW p \in Peers, NEW v \in BOOLEAN PROVE CacheInv /\ SetVerified(p, v) => CacheInv'
  <1> SUFFICES ASSUME CacheInv, SetVerified(p, v) PROVE CacheInv'
    OBVIOUS
  <1> DEFINE i == Lookup(cache_head, p)
             e == [cache_head[i] EXCEPT !.verified = v]
  <1>1. /\ up = "up" /\ pc = "idle" /\ StoreIfAuto /\ puts' = puts /\ Known(cache_head, p)
        /\ UNCHANGED <<mitmcache_head, needs_rewriting>>
        /\ cache_head' = [cache_head EXCEPT ![i].verified = v]
        /\ dirty' = [dirty EXCEPT !["rs"] = dirty["rs"] \cup {i}]
    BY DEF SetVerified, Ready
  <1>2. cache_head \in Seq(Entries) /\ DOMAIN cache_head = 1..Len(cache_head)
    BY ListTypes DEF CacheInv, MemoryInv
  <1>3. i \in 1..Len(cache_head) /\ cache_head[i] \in Entries
    BY <1>1, <1>2, LookupFinds
  <1>4. e \in Entries
    BY <1>3 DEF Entries
  <1>5. cache_head' = [j \in DOMAIN cache_head |-> IF j = i THEN e ELSE cache_head[j]]
    BY <1>1, <1>3
  <1>6. DOMAIN cache_head \cup {i} = DOMAIN cache_head
    BY <1>2, <1>3
  <1>7. cache_head' = SetElem(cache_head, i, e)
    BY <1>5, <1>6 DEF SetElem
  <1> HIDE DEF e
  <1>8. Edited
    BY <1>1, <1>4, <1>7, ElemEdited
  <1> QED BY <1>8, EditedKeeps

LEMMA TouchUnknownKeeps ==
    ASSUME NEW p \in Peers PROVE CacheInv /\ TouchUnknown(p) => CacheInv'
  <1> SUFFICES ASSUME CacheInv, TouchUnknown(p) PROVE CacheInv'
    OBVIOUS
  <1>1. /\ up = "up" /\ pc = "idle" /\ StoreIfAuto
        /\ UNCHANGED <<mitmcache_head, needs_rewriting, cache_head, dirty, puts>>
    BY DEF TouchUnknown, Ready, memory
  <1>2. /\ puts \in Nat /\ puts <= MaxPuts
        /\ cache_head \in Seq(Entries) /\ Len(cache_head) <= puts
    BY ListTypes DEF CacheInv, MemoryInv
  <1>3. dirty \in [{"rs", "mitm"} -> SUBSET (1..MaxPuts)]
    BY DEF CacheInv, MemoryInv, TypeOK
  <1>4. Edited
    BY <1>1, <1>2, <1>3 DEF Edited
  <1> QED BY <1>4, EditedKeeps

\* A MitM secret makes the next store write the whole file: nothing counts as in place.
LEMMA PutMitmKeeps == ASSUME NEW p \in Peers PROVE CacheInv /\ PutMitm(p) => CacheInv'
  <1> SUFFICES ASSUME CacheInv, PutMitm(p) PROVE CacheInv'
    OBVIOUS
  <1> DEFINE list == mitmcache_head
             i == Lookup(list, p)
             e == [id |-> p, curr |-> NewSecret, prev |-> NONE, verified |-> FALSE]
             new == SetElem(list, i, e)
  <1>0. MemoryInv /\ TypeOK
    BY DEF CacheInv, MemoryInv
  <1>1. /\ up = "up" /\ pc = "idle" /\ StoreIfAuto /\ puts < MaxPuts /\ puts' = puts + 1
        /\ needs_rewriting' = TRUE /\ UNCHANGED cache_head
        /\ mitmcache_head' = new
        /\ dirty' = [dirty EXCEPT !["mitm"] = dirty["mitm"] \cup {i}]
    BY DEF PutMitm, Ready, NewSecret, RewriteForMitm
  <1>3. /\ list \in Seq(Entries) /\ Len(list) \in Nat /\ Len(list) <= puts
        /\ cache_head \in Seq(Entries) /\ Len(cache_head) \in Nat /\ Len(cache_head) <= puts
        /\ puts \in Nat /\ MaxPuts \in Nat
    BY <1>0, ListTypes, CountedSecrets
  <1>4. NewSecret \in Secrets
    BY <1>1, <1>3 DEF NewSecret, Secrets
  <1>5. e \in Entries
    BY <1>4 DEF Entries
  <1> HIDE DEF e
  <1>6. /\ new \in Seq(Entries)
        /\ Len(new) = IF Known(list, p) THEN Len(list) ELSE Len(list) + 1
    BY <1>3, <1>5, SetElemFits
  <1>7. /\ i \in 1..(Len(list) + 1)
        /\ Known(list, p) <=> i \in 1..Len(list)
        /\ ~Known(list, p) => i = Len(list) + 1
    BY <1>3, LookupFinds
  <1>8. \A j \in dirty["mitm"] : j <= Len(list)
    BY <1>0, <1>1 DEF MemoryInv, Held
  <1>d. dirty \in [{"rs", "mitm"} -> SUBSET (1..MaxPuts)]
    BY <1>0 DEF TypeOK
  <1> HIDE DEF list, i, new
  <1>9. /\ i \in 1..MaxPuts /\ i <= Len(new) /\ Len(list) <= Len(new) /\ Len(new) <= puts'
        /\ puts' \in Nat /\ puts' <= MaxPuts /\ puts <= puts' /\ Len(new) \in Nat
    BY <1>1, <1>3, <1>6, <1>7
  <1>10. /\ dirty' \in [{"rs", "mitm"} -> SUBSET (1..MaxPuts)]
         /\ dirty'["mitm"] = dirty["mitm"] \cup {i}
    BY <1>1, <1>d, <1>9
  <1>11. \A j \in dirty'["mitm"] : j <= Len(new)
    <2>1. \A j \in dirty["mitm"] : j \in Nat /\ j <= Len(list)
      BY <1>8, <1>d, <1>3
    <2> QED BY <1>3, <1>9, <1>10, <2>1
  <1>12. /\ MemoryInv'
         /\ pc' \in {"idle", "open"} /\ up' = "up" /\ outcome' = "pending" /\ file' = file
         /\ recent \subseteq recent' /\ lost' = lost
         /\ \A l, j : Reached(l, j)' = FALSE /\ Reached(l, j) = FALSE
    <2>1. /\ mitmcache_head' \in Seq(Entries) /\ Len(mitmcache_head') <= puts'
          /\ \A j \in dirty'["mitm"] : j <= Len(mitmcache_head')
      BY <1>1, <1>6, <1>9, <1>11
    <2>2. cache_head' \in Seq(Entries) /\ Len(cache_head') <= puts'
      BY <1>1, <1>3, <1>9
    <2>3. needs_rewriting' \in BOOLEAN /\ (~needs_rewriting' => dirty'["mitm"] = {})
      BY <1>1
    <2> QED BY <1>0, <1>1, <1>9, <1>10, <2>1, <2>2, <2>3, ChangedMemory
  <1>13. SUFFICES ASSUME FileInv PROVE FileInv'
    BY <1>12 DEF CacheInv
  <1>14. Progress' /\ StoredWhenOk'
    BY <1>12 DEF Progress, StoredWhenOk
  <1>15. VersionFirst(file)'
    BY <1>12, <1>13 DEF FileInv, VersionFirst, CellIs
  <1>16. InPlace' /\ Visible' /\ NoMitmCount'
    <2>1. \A l, j : ~Clean(l, j)'
      BY <1>1, <1>12 DEF Clean, MustFlush
    <2> QED BY <1>1, <2>1 DEF InPlace, Visible, NoMitmCount
  <1>17. LoadedHeld'
    BY <1>12, <1>13, FileStays DEF FileInv
  <1> QED BY <1>14, <1>15, <1>16, <1>17 DEF FileInv

-----------------------------------------------------------------------------
(* The steps of a store.                                                   *)

\* What the steps that go on have in common, whether their write is lost or not.
Goes(place, i) ==
    /\ pc # "idle" /\ Proceed(place, i) /\ needs_rewriting' = needs_rewriting
    /\ place \in {"header", "mitm", "rs_zero", "rs"}
    /\ i \in 1..(MaxPuts + 1)
    /\ file' \in Seq(Cells) /\ (puts' = puts => CountsFit(file)') /\ lost' \in BOOLEAN
    /\ dirty' \in [{"rs", "mitm"} -> SUBSET (1..MaxPuts)]
    /\ dirty'["mitm"] \subseteq dirty["mitm"]
    /\ \A j \in dirty'["mitm"] : ~Reached("mitm", j)'

LEMMA GoesKeeps ==
    ASSUME MemoryInv, NEW place, NEW i, Goes(place, i)
    PROVE  /\ MemoryInv' /\ StoredWhenOk'
           /\ up = "up" /\ up' = "up" /\ pc' = place /\ elem' = i /\ outcome' = "pending"
           /\ UNCHANGED <<cache_head, mitmcache_head, needs_rewriting, recent, puts>>
           /\ RsCountPosition' = RsCountPosition
           /\ \A j : MitmPosition(j)' = MitmPosition(j) /\ RsPosition(j)' = RsPosition(j)
  <1>0. TypeOK /\ up = "up" /\ outcome = "pending"
    BY DEF MemoryInv, Storing, Goes
  <1>1. /\ pc' = place /\ elem' = i /\ needs_rewriting' = needs_rewriting
        /\ UNCHANGED <<auto_store, up, cache_head, mitmcache_head, closing, puts, content,
                       outcome, recent>>
    BY DEF Goes, Proceed, history
  <1>2. TypeOK'
    BY <1>0, <1>1 DEF TypeOK, Goes
  <1>3. Storing' /\ StoredWhenOk' /\ Opened' /\ CountsFit(file)'
    BY <1>0, <1>1 DEF Storing, StoredWhenOk, Opened, Goes
  <1>4. Held'
    BY <1>0, <1>1 DEF MemoryInv, Held, Goes
  <1>5. /\ RsCountPosition' = RsCountPosition
        /\ \A j : MitmPosition(j)' = MitmPosition(j) /\ RsPosition(j)' = RsPosition(j)
    BY <1>1 DEF RsCountPosition, RsPosition, MitmPosition
  <1> QED BY <1>0, <1>1, <1>2, <1>3, <1>4, <1>5 DEF MemoryInv

\* A step whose write is not lost leaves the file it writes.
LEMMA ReachesFile ==
    ASSUME NEW new, Reaches(new), lost \in BOOLEAN
    PROVE  /\ file' = new \/ file' = file
           /\ lost' \in BOOLEAN
           /\ ~lost' => ~lost /\ file' = new
  <1>1. CASE file' = new /\ lost' = lost
    BY <1>1
  <1>2. CASE file' = file /\ lost' = TRUE
    <2>1. lost' \in BOOLEAN /\ lost'
      BY <1>2
    <2> QED BY <1>2, <2>1
  <1> QED BY <1>1, <1>2 DEF Reaches

\* A write of cell k.
Writes(k, cell) ==
    /\ file \in Seq(Cells) /\ file' \in Seq(Cells)
    /\ Len(file') = IF k > Len(file) THEN k ELSE Len(file)
    /\ CellIs(file', k, cell)
    /\ \A j \in 1..Len(file) : j # k => file'[j] = file[j]

LEMMA CellsKept ==
    ASSUME NEW k \in Nat \ {0}, NEW cell, Writes(k, cell)
    PROVE  \A j, c : j # k /\ CellIs(file, j, c) => CellIs(file', j, c)
  <1> SUFFICES ASSUME NEW j, NEW c, j # k, CellIs(file, j, c)
               PROVE  CellIs(file', j, c)
    OBVIOUS
  <1>1. Len(file) \in Nat /\ Len(file) <= Len(file')
    BY DEF Writes
  <1>2. j \in 1..Len(file) /\ file[j] = c
    BY DEF CellIs
  <1>3. j \in 1..Len(file')
    BY <1>1, <1>2 DEF Writes
  <1> QED BY <1>2, <1>3 DEF Writes, CellIs

LEMMA WriteAtWrites ==
    ASSUME file \in Seq(Cells), NEW k \in Nat \ {0}, NEW cell \in Cells, file' = WriteAt(k, cell)
    PROVE  Writes(k, cell)
  <1>1. /\ WriteAt(k, cell) \in Seq(Cells)
        /\ Len(WriteAt(k, cell)) = IF k > Len(file) THEN k ELSE Len(file)
        /\ CellIs(WriteAt(k, cell), k, cell)
        /\ \A j \in 1..Len(file) : j # k => WriteAt(k, cell)[j] = file[j]
    BY WriteChangesOne
  <1> QED BY <1>1 DEF Writes

\* A write behind the version of a file that has its second cell.
LEMMA VersionStays ==
    ASSUME NEW k \in Nat \ {0}, NEW cell, Writes(k, cell), k # 1,
           VersionFirst(file), NEW c, CellIs(file, 2, c)
    PROVE  VersionFirst(file')
  <1>1. Len(file) # 0 /\ file \in Seq(Cells)
    BY DEF CellIs
  <1>2. CellIs(file, 1, Version)
    BY <1>1 DEF VersionFirst
  <1>3. CellIs(file', 1, Version)
    BY <1>2, CellsKept
  <1> QED BY <1>3 DEF VersionFirst

\* Without MitM entries, or with all of them announced and in place, readers
\* take what is Visible.
LEMMA VisibleLoads ==
    ASSUME TypeOK', Held', Visible', VersionFirst(file'), up' = "up", ~needs_rewriting',
           CellIs(file', 2, Count(Len(mitmcache_head'))),
           \A i \in 1..Len(mitmcache_head') : CellIs(file', 2 + i, Entry(mitmcache_head'[i]))
    PROVE  LoadedHeld'
  <1> DEFINE list == mitmcache_head'
             k == 3 + Len(list)
             f == file'
  <1>1. /\ list \in Seq(Entries) /\ Len(list) \in Nat /\ f \in Seq(Cells)
        /\ k \in Nat \ {0} /\ k = RsCountPosition' /\ \A i : RsPosition(i)' = k + i
    <2>1. list \in Seq(Entries)
      BY DEF TypeOK, Content
    <2> QED BY <2>1 DEF CellIs, RsCountPosition, RsPosition
  <1>2. /\ ReadableIn(f) <=> BlockIn(f, k)
        /\ LoadedIn(f) = [rs |-> EntriesIn(f, k), mitm |-> list]
    BY <1>1, MitmReads
  <1>3. Members(list) \subseteq recent'
    BY DEF Held
  <1>4. ASSUME BlockIn(f, k)
        PROVE  Members(EntriesIn(f, k)) \subseteq recent'
    <2>1. f[k].n \in Nat /\ k + f[k].n <= Len(f) /\ f[k].kind = "count" /\ Len(f) \in Nat
      BY <1>1, <1>4, BlockIsList DEF BlockIn
    <2>2. k <= Len(f)
      BY <1>4 DEF BlockIn
    <2>3. \A i \in 1..f[k].n : k + i <= Len(f) /\ f[k + i].kind = "entry" =>
                 f[k + i].entry \in recent'
      BY <1>1, <2>1, <2>2 DEF Visible
    <2>4. \A i \in 1..f[k].n : k + i <= Len(f) /\ f[k + i].kind = "entry"
      BY <1>1, <1>4, <2>1 DEF BlockIn
    <2> HIDE DEF k, f
    <2> QED BY <1>1, <1>4, <2>3, <2>4, BlockHeld
  <1>5. (Readable' <=> ReadableIn(f)) /\ Loaded' = LoadedIn(f)
    BY ReadingFile
  <1> HIDE DEF list, k, f
  <1>6. Loaded'.rs = EntriesIn(f, k) /\ Loaded'.mitm = list
    BY <1>2, <1>5
  <1> QED BY <1>2, <1>3, <1>4, <1>5, <1>6 DEF LoadedHeld

\* The opening that empties the file begins with nothing lost.
LEMMA OpenKeeps == CacheInv /\ StoreOpen => CacheInv'
  <1> SUFFICES ASSUME CacheInv, StoreOpen PROVE CacheInv'
    OBVIOUS
  <1>0. MemoryInv /\ TypeOK /\ pc = "open" /\ up = "up"
    BY DEF CacheInv, MemoryInv, Storing, StoreOpen
  <1>1. /\ file' = IF needs_rewriting \/ file = NONE THEN <<>> ELSE file
        /\ Proceed("header", 1) /\ UNCHANGED <<dirty, needs_rewriting>>
        /\ lost' = (lost /\ ~needs_rewriting)
    BY DEF StoreOpen
  <1>2. file' \in Seq(Cells) /\ (puts' = puts => CountsFit(file)') /\ lost' \in BOOLEAN
    BY <1>0, <1>1 DEF TypeOK, MemoryInv, CountsFit
  <1>r. \A l, j : Reached(l, j)' = FALSE /\ Reached(l, j) = FALSE
    BY <1>0, <1>1 DEF Reached, Proceed
  <1>3. Goes("header", 1)
    BY <1>0, <1>1, <1>2, <1>r, CountedSecrets DEF Goes, TypeOK
  <1>4. /\ MemoryInv' /\ StoredWhenOk'
        /\ up' = "up" /\ pc' = "header" /\ elem' = 1
        /\ UNCHANGED <<cache_head, mitmcache_head, needs_rewriting, recent, puts>>
        /\ RsCountPosition' = RsCountPosition
        /\ \A j : MitmPosition(j)' = MitmPosition(j) /\ RsPosition(j)' = RsPosition(j)
    BY <1>0, <1>3, GoesKeeps
  <1>5. SUFFICES ASSUME ~lost' PROVE FileInv'
    BY <1>4 DEF CacheInv
  <1>6. ~needs_rewriting => FileInv
    BY <1>1, <1>5 DEF CacheInv
  <1>7. CASE needs_rewriting \/ file = NONE
    <2>1. file' = <<>> /\ file' \in Seq(Cells) /\ Len(file') = 0
      BY <1>1, <1>2, <1>7
    <2>2. \A k, c : ~CellIs(NONE, k, c)
      BY NoFileAssumption DEF CellIs
    <2>3. InPlace'
      <3>1. \A l, j : Clean(l, j)' => ~needs_rewriting /\ Clean(l, j) /\ file = NONE
        BY <1>1, <1>7, <1>r DEF Clean, MustFlush
      <3>2. ~\E j \in 1..Len(mitmcache_head) : Clean("mitm", j)'
        BY <1>0, <1>6, <2>2, <3>1 DEF FileInv, InPlace
      <3>3. ~\E j \in 1..Len(cache_head) : Clean("rs", j)'
        BY <1>0, <1>6, <2>2, <3>1 DEF FileInv, InPlace
      <3> QED BY <1>4, <3>2, <3>3 DEF InPlace
    <2>4. Visible'
      <3>1. RsCountPosition >= 3 /\ RsCountPosition \in Nat
        BY <1>0, ListTypes
      <3>2. ~(RsCountPosition' <= Len(file'))
        BY <1>4, <2>1, <3>1
      <3> QED BY <3>2 DEF Visible
    <2>5. Blank' /\ NoMitmCount' /\ VersionFirst(file')
      BY <2>1 DEF Blank, NoMitmCount, VersionFirst
    <2>6. Readable' /\ Loaded' = Empty
      BY <2>5 DEF Readable, Loaded
    <2>7. LoadedHeld'
      BY <2>6, EmptyLists DEF LoadedHeld
    <2>8. Progress'
      BY <1>4, <2>1 DEF Progress
    <2> QED BY <1>4, <2>3, <2>4, <2>5, <2>7, <2>8 DEF FileInv
  <1>8. CASE ~(needs_rewriting \/ file = NONE)
    <2>1. file' = file /\ FileInv
      BY <1>1, <1>6, <1>8
    <2>2. \A l, j : Clean(l, j)' => Clean(l, j)
      BY <1>1, <1>r DEF Clean, MustFlush
    <2>3. InPlace'
      BY <1>0, <1>4, <2>1, <2>2 DEF FileInv, InPlace
    <2>4. Visible'
      BY <1>0, <1>4, <2>1 DEF FileInv, Visible
    <2>5. NoMitmCount'
      BY <1>0, <1>4, <2>1 DEF FileInv, NoMitmCount, Blank
    <2>6. LoadedHeld'
      BY <1>4, <2>1, FileStays DEF FileInv
    <2>7. Progress'
      BY <1>4, <1>8 DEF Progress
    <2>8. VersionFirst(file')
      BY <2>1 DEF FileInv
    <2> QED BY <1>4, <2>3, <2>4, <2>5, <2>6, <2>7, <2>8 DEF FileInv
  <1> QED BY <1>7, <1>8

\* The header of a file, written.
LEMMA HeaderWrites ==
    ASSUME file \in Seq(Cells), NEW new,
           new = [i \in 1..(IF Len(file) < 2 THEN 2 ELSE Len(file)) |->
                    CASE i = 1 -> Version [] i = 2 -> Count(0) [] OTHER -> file[i]]
    PROVE  /\ new \in Seq(Cells)
           /\ Len(new) = IF Len(file) < 2 THEN 2 ELSE Len(file)
           /\ new[1] = Version /\ new[2] = Count(0)
           /\ \A j \in 1..Len(file) : j > 2 => new[j] = file[j]
  <1> DEFINE L == IF Len(file) < 2 THEN 2 ELSE Len(file)
             cell(j) == CASE j = 1 -> Version [] j = 2 -> Count(0) [] OTHER -> file[j]
  <1>0. Len(file) \in Nat
    OBVIOUS
  <1>1. L \in Nat /\ 2 <= L /\ Len(file) <= L /\ (L > 2 => L = Len(file))
    BY <1>0
  <1>2. new = [j \in 1..L |-> cell(j)]
    OBVIOUS
  <1>3. \A j \in 1..L : j = 1 \/ j = 2 \/ j \in 1..Len(file)
    BY <1>0, <1>1
  <1> HIDE DEF L
  <1>4. \A j \in 1..L : cell(j) \in Cells
    BY <1>0, <1>3, CellKinds
  <1>5. cell(1) = Version /\ cell(2) = Count(0) /\ \A j \in 1..Len(file) : j > 2 => cell(j) = file[j]
    BY <1>0
  <1> HIDE DEF cell
  <1>6. new \in [1..L -> Cells]
    <2>1. [j \in 1..L |-> cell(j)] \in [1..L -> Cells]
      BY <1>4
    <2> QED BY <1>2, <2>1
  <1>7. new \in Seq(Cells) /\ Len(new) = L
    BY <1>1, <1>6, LenProperties, SeqDef
  <1>8. new[1] = Version /\ new[2] = Count(0) /\ \A j \in 1..Len(file) : j > 2 => new[j] = file[j]
    BY <1>0, <1>1, <1>2, <1>5
  <1> QED BY <1>7, <1>8 DEF L

LEMMA HeaderKeeps == CacheInv /\ StoreHeader => CacheInv'
  <1> SUFFICES ASSUME CacheInv, StoreHeader PROVE CacheInv'
    OBVIOUS
  <1> DEFINE new == [i \in 1..(IF Len(file) < 2 THEN 2 ELSE Len(file)) |->
                        CASE i = 1 -> Version [] i = 2 -> Count(0) [] OTHER -> file[i]]
  <1>0. /\ MemoryInv /\ TypeOK /\ pc = "header" /\ up = "up"
        /\ file \in Seq(Cells) /\ Len(file) \in Nat
    BY DEF CacheInv, MemoryInv, Storing, StoreHeader, Opened
  <1>1. Proceed("mitm", 1) /\ UNCHANGED <<dirty, needs_rewriting>> /\ Reaches(new)
    BY DEF StoreHeader
  <1>w. /\ new \in Seq(Cells)
        /\ Len(new) = IF Len(file) < 2 THEN 2 ELSE Len(file)
        /\ new[1] = Version /\ new[2] = Count(0)
        /\ \A j \in 1..Len(file) : j > 2 => new[j] = file[j]
    BY <1>0, HeaderWrites
  <1> HIDE DEF new
  <1>2. /\ file' = new \/ file' = file
        /\ lost' \in BOOLEAN /\ (~lost' => ~lost /\ file' = new)
    BY <1>0, <1>1, ReachesFile DEF TypeOK
  <1>3. file' \in Seq(Cells) /\ (puts' = puts => CountsFit(file)')
    <2>1. puts \in Nat /\ CountsFit(file)
      BY <1>0, ListTypes DEF MemoryInv
    <2>2. \A j \in 1..Len(new) : new[j].kind = "count" => new[j].n <= puts
      <3> SUFFICES ASSUME NEW j \in 1..Len(new), new[j].kind = "count"
                   PROVE  new[j].n <= puts
        OBVIOUS
      <3>1. CASE j = 1
        BY <1>w, <3>1 DEF Version
      <3>2. CASE j = 2
        BY <1>w, <2>1, <3>2, CellKinds
      <3>3. CASE j > 2
        <4>1. j \in 1..Len(file)
          BY <1>0, <1>w, <3>3
        <4> QED BY <1>0, <1>w, <2>1, <3>3, <4>1 DEF CountsFit
      <3>4. j \in Nat \ {0}
        OBVIOUS
      <3> QED BY <3>1, <3>2, <3>3, <3>4
    <2> QED BY <1>0, <1>2, <1>w, <2>1, <2>2 DEF CountsFit
  <1>r. \A l, j : j \in Nat \ {0} => Reached(l, j)' = FALSE
    BY <1>1 DEF Reached, Proceed
  <1>d. /\ dirty' \in [{"rs", "mitm"} -> SUBSET (1..MaxPuts)]
        /\ dirty'["mitm"] \subseteq dirty["mitm"]
        /\ \A j \in dirty'["mitm"] : ~Reached("mitm", j)'
    <2>1. dirty' = dirty /\ dirty \in [{"rs", "mitm"} -> SUBSET (1..MaxPuts)]
      BY <1>0, <1>1 DEF TypeOK
    <2>2. \A j \in dirty["mitm"] : j \in Nat \ {0}
      BY <2>1, CountedSecrets
    <2> QED BY <1>r, <2>1, <2>2
  <1>4. Goes("mitm", 1)
    <2>1. 1 \in 1..(MaxPuts + 1)
      BY CountedSecrets
    <2> QED BY <1>0, <1>1, <1>2, <1>3, <1>d, <2>1 DEF Goes
  <1>5. /\ MemoryInv' /\ StoredWhenOk'
        /\ up' = "up" /\ pc' = "mitm" /\ elem' = 1
        /\ UNCHANGED <<cache_head, mitmcache_head, needs_rewriting, recent, puts>>
        /\ RsCountPosition' = RsCountPosition
        /\ \A j : MitmPosition(j)' = MitmPosition(j) /\ RsPosition(j)' = RsPosition(j)
    BY <1>0, <1>4, GoesKeeps
  <1>f. SUFFICES ASSUME FileInv, file' = new PROVE FileInv'
    BY <1>2, <1>5 DEF CacheInv
  <1>a. /\ CellIs(file', 2, Count(0)) /\ CellIs(file', 1, Version)
        /\ needs_rewriting => file = <<>>
    BY <1>0, <1>3, <1>f, <1>w DEF CellIs, FileInv, Progress
  <1>k. \A j, c : j > 2 /\ CellIs(file, j, c) => CellIs(file', j, c)
    BY <1>0, <1>3, <1>f, <1>w DEF CellIs
  <1>n. /\ Len(mitmcache_head) \in Nat /\ RsCountPosition = 3 + Len(mitmcache_head)
        /\ mitmcache_head \in Seq(Entries)
    BY <1>0, ListTypes
  <1>6. Progress'
    <2>1. needs_rewriting => Len(file') = 2
      BY <1>a, <1>f, <1>w
    <2> QED BY <1>a, <1>5, <1>n, <2>1 DEF Progress
  <1>v. VersionFirst(file')
    BY <1>a DEF VersionFirst
  <1>7. InPlace'
    <2>1. \A l, j : j \in Nat \ {0} /\ Clean(l, j)' => Clean(l, j)
      BY <1>1, <1>r DEF Clean, MustFlush
    <2>2. /\ \A j \in Nat \ {0} : MitmPosition(j) > 2 /\ RsPosition(j) > 2
          /\ \A n : \A j \in 1..n : j \in Nat \ {0}
      BY <1>n DEF MitmPosition, RsPosition
    <2>3. \A j \in 1..Len(mitmcache_head) :
             Clean("mitm", j)' => CellIs(file', MitmPosition(j), Entry(mitmcache_head[j]))
      BY <1>0, <1>f, <1>k, <2>1, <2>2 DEF FileInv, InPlace
    <2>4. \A j \in 1..Len(cache_head) :
             Clean("rs", j)' => CellIs(file', RsPosition(j), Entry(cache_head[j]))
      BY <1>0, <1>f, <1>k, <2>1, <2>2 DEF FileInv, InPlace
    <2> QED BY <1>5, <2>3, <2>4 DEF InPlace
  <1>8. Visible'
    <2> DEFINE k == RsCountPosition
    <2>0. k \in Nat /\ k > 2 /\ \A i \in Nat : RsPosition(i) = k + i
      BY <1>n DEF RsPosition
    <2>1. SUFFICES ASSUME ~needs_rewriting, k <= Len(file'), file'[k].kind = "count"
                   PROVE  \A i \in 1..file'[k].n :
                              RsPosition(i) <= Len(file') /\ file'[RsPosition(i)].kind = "entry" =>
                                  file'[RsPosition(i)].entry \in recent
      BY <1>5 DEF Visible
    <2>2. k \in 1..Len(file) /\ Len(file') = Len(file) /\ file'[k] = file[k]
      <3>1. Len(file') = IF Len(file) < 2 THEN 2 ELSE Len(file)
        BY <1>f, <1>w
      <3>2. Len(file') = Len(file) /\ k \in 1..Len(file)
        BY <1>0, <2>0, <2>1, <3>1
      <3>3. new[k] = file[k]
        BY <1>w, <2>0, <3>2
      <3> QED BY <1>f, <3>2, <3>3
    <2>3. \A i \in 1..file[k].n :
              RsPosition(i) <= Len(file) /\ file[RsPosition(i)].kind = "entry" =>
                  file[RsPosition(i)].entry \in recent
      BY <1>0, <1>f, <2>1, <2>2 DEF FileInv, Visible
    <2>4. \A i \in Nat : RsPosition(i) <= Len(file) => file'[RsPosition(i)] = file[RsPosition(i)]
      <3> SUFFICES ASSUME NEW i \in Nat, RsPosition(i) <= Len(file)
                   PROVE  file'[RsPosition(i)] = file[RsPosition(i)]
        OBVIOUS
      <3>0. RsPosition(i) = k + i /\ k + i \in Nat /\ k + i > 2
        BY <2>0
      <3>1. RsPosition(i) \in 1..Len(file) /\ RsPosition(i) > 2
        BY <1>0, <3>0
      <3> QED BY <1>f, <1>w, <3>1
    <2>5. \A i \in 1..file[k].n : i \in Nat
      OBVIOUS
    <2> QED BY <2>2, <2>3, <2>4, <2>5
  <1>9. NoMitmCount'
    BY <1>a DEF NoMitmCount
  <1>10. LoadedHeld'
    <2>1. CASE Len(mitmcache_head) = 0 /\ ~needs_rewriting
      <3>1. \A i : i \notin 1..Len(mitmcache_head')
        BY <1>5, <2>1
      <3>2. CellIs(file', 2, Count(Len(mitmcache_head')))
        BY <1>a, <1>5, <2>1
      <3>3. \A i \in 1..Len(mitmcache_head') : CellIs(file', 2 + i, Entry(mitmcache_head'[i]))
        BY <3>1
      <3>4. up' = "up" /\ ~needs_rewriting' /\ TypeOK' /\ Held'
        BY <1>5, <2>1 DEF MemoryInv
      <3> QED BY <1>8, <1>v, <3>2, <3>3, <3>4, VisibleLoads
    <2>2. CASE Len(mitmcache_head) # 0 /\ ~needs_rewriting
      <3>1. 1 \in 1..Len(mitmcache_head) /\ mitmcache_head[1] \in Entries
        BY <1>n, <2>2
      <3>2. dirty["mitm"] = {}
        BY <1>0, <2>2 DEF MemoryInv, Held
      <3>3. Clean("mitm", 1)
        BY <2>2, <3>2 DEF Clean, MustFlush
      <3>4. CellIs(file, MitmPosition(1), Entry(mitmcache_head[1])) /\ MitmPosition(1) = 3
        BY <1>0, <1>f, <3>1, <3>3 DEF FileInv, InPlace, MitmPosition
      <3>5. CellIs(file', 3, Entry(mitmcache_head[1]))
        BY <1>k, <3>4
      <3>6. ~ReadableIn(file')
        BY <1>a, <1>v, <3>1, <3>5, HeaderUnreadable
      <3> QED BY <3>6, ReadingFile DEF LoadedHeld
    <2>3. CASE needs_rewriting
      <3>1. Len(file') = 2
        BY <1>a, <1>f, <1>w, <2>3
      <3>2. ~ReadableIn(file')
        BY <1>a, <1>v, <3>1, HeaderUnreadable
      <3> QED BY <3>2, ReadingFile DEF LoadedHeld
    <2> QED BY <2>1, <2>2, <2>3
  <1> QED BY <1>5, <1>6, <1>v, <1>7, <1>8, <1>9, <1>10 DEF FileInv

\* An entry of the MitM list, written if the file is written anew.
LEMMA MitmKeeps == CacheInv /\ StoreMitm => CacheInv'
  <1> SUFFICES ASSUME CacheInv, StoreMitm PROVE CacheInv'
    OBVIOUS
  <1> DEFINE k == MitmPosition(elem)
             cell == Entry(mitmcache_head[elem])
  <1>0. /\ MemoryInv /\ TypeOK /\ pc = "mitm" /\ up = "up" /\ elem <= Len(mitmcache_head)
        /\ file \in Seq(Cells) /\ Len(file) \in Nat
    BY DEF CacheInv, MemoryInv, Storing, StoreMitm, Flush, Opened
  <1>n. /\ Len(mitmcache_head) \in Nat /\ RsCountPosition = 3 + Len(mitmcache_head)
        /\ mitmcache_head \in Seq(Entries) /\ elem \in Nat \ {0} /\ elem \in 1..Len(mitmcache_head)
        /\ mitmcache_head[elem] \in Entries /\ k = 2 + elem /\ k \in Nat \ {0} /\ k # 1
        /\ Len(mitmcache_head) <= MaxPuts /\ MaxPuts \in Nat /\ puts \in Nat
    <2>1. elem \in 1..Len(mitmcache_head) /\ mitmcache_head \in Seq(Entries)
      BY <1>0, ListTypes, CountedSecrets DEF TypeOK
    <2>2. Len(mitmcache_head) <= MaxPuts
      BY <1>0, ListTypes, CountedSecrets
    <2> QED BY <1>0, <2>1, <2>2, ListTypes, CountedSecrets DEF MitmPosition
  <1>1. /\ Proceed("mitm", elem + 1) /\ needs_rewriting' = needs_rewriting
        /\ MustFlush("mitm", elem) => /\ Reaches(WriteAt(k, cell))
                                      /\ dirty' = [dirty EXCEPT !["mitm"] = dirty["mitm"] \ {elem}]
        /\ ~MustFlush("mitm", elem) => UNCHANGED <<file, dirty, lost>>
    BY <1>0 DEF StoreMitm, Flush
  <1>c. cell \in Cells /\ (cell.kind = "count" => cell.n <= puts)
    BY <1>n, CellKinds
  <1> HIDE DEF k, cell
  <1>2. /\ file' = WriteAt(k, cell) \/ file' = file
        /\ lost' \in BOOLEAN
        /\ ~lost' => ~lost /\ (MustFlush("mitm", elem) => file' = WriteAt(k, cell))
                           /\ (~MustFlush("mitm", elem) => file' = file)
    <2>1. lost \in BOOLEAN
      BY <1>0 DEF TypeOK
    <2>2. CASE MustFlush("mitm", elem)
      BY <1>1, <2>1, <2>2, ReachesFile
    <2>3. CASE ~MustFlush("mitm", elem)
      BY <1>1, <2>1, <2>3
    <2> QED BY <2>2, <2>3
  <1>3. file' \in Seq(Cells) /\ (puts' = puts => CountsFit(file)')
    <2>1. puts' = puts /\ CountsFit(file)
      BY <1>0, <1>1 DEF MemoryInv, Proceed
    <2> QED BY <1>0, <1>2, <1>c, <1>n, <2>1, WriteFits
  <1>d. dirty \in [{"rs", "mitm"} -> SUBSET (1..MaxPuts)]
    BY <1>0 DEF TypeOK
  <1>5. /\ dirty' \in [{"rs", "mitm"} -> SUBSET (1..MaxPuts)]
        /\ dirty'["rs"] = dirty["rs"]
        /\ dirty'["mitm"] = dirty["mitm"] \ {elem}
    <2>1. CASE MustFlush("mitm", elem)
      BY <1>1, <1>d, <2>1
    <2>2. CASE ~MustFlush("mitm", elem)
      BY <1>1, <1>d, <2>2 DEF MustFlush
    <2> QED BY <2>1, <2>2
  <1>r. \A j \in Nat : Reached("mitm", j)' => Reached("mitm", j) \/ j = elem
    BY <1>0, <1>1, <1>n DEF Reached, Proceed
  <1>6. \A j \in dirty'["mitm"] : ~Reached("mitm", j)'
    BY <1>0, <1>5, <1>d, <1>r DEF MemoryInv, Held
  <1>7. Goes("mitm", elem + 1)
    <2>1. elem + 1 \in 1..(MaxPuts + 1)
      BY <1>n
    <2> QED BY <1>0, <1>1, <1>2, <1>3, <1>5, <1>6, <2>1 DEF Goes
  <1>8. /\ MemoryInv' /\ StoredWhenOk'
        /\ up' = "up" /\ pc' = "mitm" /\ elem' = elem + 1
        /\ UNCHANGED <<cache_head, mitmcache_head, needs_rewriting, recent, puts>>
        /\ RsCountPosition' = RsCountPosition
        /\ \A j : MitmPosition(j)' = MitmPosition(j) /\ RsPosition(j)' = RsPosition(j)
    BY <1>0, <1>7, GoesKeeps
  <1>f. SUFFICES ASSUME FileInv,
                        MustFlush("mitm", elem) => file' = WriteAt(k, cell),
                        ~MustFlush("mitm", elem) => file' = file
                 PROVE  FileInv'
    BY <1>2, <1>8 DEF CacheInv
  <1>g. CellIs(file, 2, Count(0)) /\ (needs_rewriting => Len(file) = elem + 1)
    BY <1>0, <1>f DEF FileInv, Progress
  <1>w. MustFlush("mitm", elem) => Writes(k, cell)
    BY <1>0, <1>f, <1>n, <1>c, WriteAtWrites
  <1>k. \A j, c : j # k /\ CellIs(file, j, c) => CellIs(file', j, c)
    <2>1. CASE MustFlush("mitm", elem)
      BY <1>n, <1>w, <2>1, CellsKept
    <2>2. CASE ~MustFlush("mitm", elem)
      BY <1>f, <2>2
    <2> QED BY <2>1, <2>2
  <1>v. VersionFirst(file')
    <2>1. CASE MustFlush("mitm", elem)
      BY <1>f, <1>g, <1>n, <1>w, <2>1, VersionStays DEF FileInv
    <2>2. CASE ~MustFlush("mitm", elem)
      BY <1>f, <2>2 DEF FileInv
    <2> QED BY <2>1, <2>2
  <1>m. ~needs_rewriting => file' = file
    BY <1>0, <1>f DEF MemoryInv, Held, MustFlush
  <1>9. CellIs(file', 2, Count(0))
    BY <1>g, <1>k, <1>n
  <1>10. Progress'
    <2>1. needs_rewriting => Len(file') = elem + 2
      <3>1. SUFFICES ASSUME needs_rewriting PROVE Len(file') = elem + 2
        OBVIOUS
      <3>2. Writes(k, cell)
        BY <1>w, <3>1 DEF MustFlush
      <3> QED BY <1>g, <1>n, <3>1, <3>2 DEF Writes
    <2>2. elem + 1 <= Len(mitmcache_head) + 1
      BY <1>0, <1>n
    <2> QED BY <1>8, <1>9, <1>n, <2>1, <2>2 DEF Progress
  <1>11. InPlace'
    <2>1. ASSUME NEW j \in 1..Len(mitmcache_head), Clean("mitm", j)'
          PROVE  CellIs(file', MitmPosition(j), Entry(mitmcache_head[j]))
      <3>1. CASE j = elem /\ MustFlush("mitm", elem)
        BY <1>w, <3>1 DEF Writes, k, cell
      <3>2. CASE j # elem \/ ~MustFlush("mitm", elem)
        <4>1. Clean("mitm", j)
          BY <1>1, <1>5, <1>r, <2>1, <3>2 DEF Clean, MustFlush
        <4>2. CellIs(file, MitmPosition(j), Entry(mitmcache_head[j]))
          BY <1>0, <1>f, <4>1 DEF FileInv, InPlace
        <4>3. MitmPosition(j) = k => j = elem
          BY <1>n DEF MitmPosition
        <4> QED BY <1>f, <1>k, <3>2, <4>2, <4>3
      <3> QED BY <3>1, <3>2
    <2>2. ASSUME NEW j \in 1..Len(cache_head), Clean("rs", j)'
          PROVE  CellIs(file', RsPosition(j), Entry(cache_head[j]))
      <3>1. Clean("rs", j)
        BY <1>0, <1>1, <1>5, <1>8, <2>2 DEF Clean, MustFlush, Reached
      <3>2. CellIs(file, RsPosition(j), Entry(cache_head[j]))
        BY <1>0, <1>f, <3>1 DEF FileInv, InPlace
      <3>3. RsPosition(j) # k
        BY <1>n, <1>0 DEF RsPosition
      <3> QED BY <1>k, <3>2, <3>3
    <2> QED BY <1>8, <2>1, <2>2 DEF InPlace
  <1>12. Visible'
    BY <1>0, <1>8, <1>f, <1>m DEF FileInv, Visible
  <1>13. NoMitmCount'
    BY <1>9 DEF NoMitmCount
  <1>14. LoadedHeld'
    <2>1. CASE needs_rewriting
      <3>1. 1 \in 1..Len(mitmcache_head) /\ mitmcache_head[1] \in Entries
        BY <1>0, <1>n
      <3>2. Clean("mitm", 1)'
        BY <1>8, <1>n DEF Clean, Reached
      <3>3. CellIs(file', MitmPosition(1), Entry(mitmcache_head[1])) /\ MitmPosition(1) = 3
        BY <1>8, <1>11, <3>1, <3>2 DEF InPlace, MitmPosition
      <3>4. ~ReadableIn(file')
        BY <1>9, <1>v, <3>1, <3>3, HeaderUnreadable
      <3> QED BY <3>4, ReadingFile DEF LoadedHeld
    <2>2. CASE ~needs_rewriting
      BY <1>8, <1>f, <1>m, <2>2, FileStays DEF FileInv
    <2> QED BY <2>1, <2>2
  <1> QED BY <1>8, <1>10, <1>v, <1>11, <1>12, <1>13, <1>14 DEF FileInv

LEMMA MitmCountKeeps == CacheInv /\ StoreMitmCount => CacheInv'
  <1> SUFFICES ASSUME CacheInv, StoreMitmCount PROVE CacheInv'
    OBVIOUS
  <1> DEFINE m == Len(mitmcache_head)
             cell == Count(m)
  <1>0. /\ MemoryInv /\ TypeOK /\ pc = "mitm" /\ up = "up" /\ elem > m /\ elem \in Nat
        /\ file \in Seq(Cells) /\ Len(file) \in Nat
    BY CountedSecrets DEF CacheInv, MemoryInv, Storing, StoreMitmCount, Opened, TypeOK
  <1>n. /\ m \in Nat /\ RsCountPosition = 3 + m /\ mitmcache_head \in Seq(Entries)
        /\ cell \in Cells /\ (cell.kind = "count" => cell.n <= puts) /\ puts \in Nat
    BY <1>0, ListTypes, CellKinds
  <1>1. /\ Proceed("rs_zero", 1) /\ UNCHANGED <<dirty, needs_rewriting>>
        /\ Reaches(WriteAt(2, cell))
    BY DEF StoreMitmCount
  <1>e. cell = Count(m)
    OBVIOUS
  <1> HIDE DEF cell, m
  <1>2. /\ file' = WriteAt(2, cell) \/ file' = file
        /\ lost' \in BOOLEAN /\ (~lost' => ~lost /\ file' = WriteAt(2, cell))
    BY <1>0, <1>1, ReachesFile DEF TypeOK
  <1>3. file' \in Seq(Cells) /\ (puts' = puts => CountsFit(file)')
    <2>1. puts' = puts /\ CountsFit(file)
      BY <1>0, <1>1 DEF MemoryInv, Proceed
    <2> QED BY <1>0, <1>2, <1>n, <2>1, WriteFits
  <1>r. \A j \in 1..m : Reached("mitm", j)
    BY <1>0, <1>n DEF Reached
  <1>5. \A j \in dirty["mitm"] : ~Reached("mitm", j)'
    <2>1. \A j \in dirty["mitm"] : j \in Nat \ {0} /\ j <= m /\ ~Reached("mitm", j)
      BY <1>0, CountedSecrets DEF MemoryInv, Held, TypeOK, m
    <2> QED BY <1>n, <1>r, <2>1
  <1>6. Goes("rs_zero", 1)
    BY <1>0, <1>1, <1>2, <1>3, <1>5, CountedSecrets DEF Goes, TypeOK
  <1>7. /\ MemoryInv' /\ StoredWhenOk'
        /\ up' = "up" /\ pc' = "rs_zero" /\ elem' = 1
        /\ UNCHANGED <<cache_head, mitmcache_head, needs_rewriting, recent, puts>>
        /\ RsCountPosition' = RsCountPosition
        /\ \A j : MitmPosition(j)' = MitmPosition(j) /\ RsPosition(j)' = RsPosition(j)
    BY <1>0, <1>6, GoesKeeps
  <1>f. SUFFICES ASSUME FileInv, file' = WriteAt(2, cell) PROVE FileInv'
    BY <1>2, <1>7 DEF CacheInv
  <1>g. /\ elem = m + 1 /\ CellIs(file, 2, Count(0))
        /\ needs_rewriting => Len(file) = elem + 1
    BY <1>0, <1>f, <1>n DEF FileInv, Progress, m
  <1>w. Writes(2, cell)
    BY <1>0, <1>f, <1>n, WriteAtWrites
  <1>k. \A j, c : j # 2 /\ CellIs(file, j, c) => CellIs(file', j, c)
    BY <1>w, CellsKept
  <1>v. VersionFirst(file')
    BY <1>f, <1>g, <1>w, VersionStays DEF FileInv
  <1>4. /\ CellIs(file', 2, Count(m)) /\ Len(file') = Len(file)
        /\ \A j \in 1..Len(file) : j # 2 => file'[j] = file[j]
    <2>1. 2 <= Len(file)
      BY <1>g DEF CellIs
    <2> QED BY <1>0, <1>w, <1>e, <2>1 DEF Writes
  <1>8. Progress'
    <2>1. needs_rewriting => Len(file') = RsCountPosition - 1
      BY <1>g, <1>4, <1>n
    <2> QED BY <1>4, <1>7, <2>1 DEF Progress, m
  <1>9. \A j \in 1..m : CellIs(file', MitmPosition(j), Entry(mitmcache_head[j]))
    <2> TAKE j \in 1..m
    <2>1. CellIs(file, MitmPosition(j), Entry(mitmcache_head[j]))
      BY <1>0, <1>f, <1>r DEF FileInv, InPlace, Clean, m
    <2>2. MitmPosition(j) # 2
      BY <1>n DEF MitmPosition
    <2> QED BY <1>k, <2>1, <2>2
  <1>10. InPlace'
    <2>1. ASSUME NEW j \in 1..Len(cache_head), Clean("rs", j)'
          PROVE  CellIs(file', RsPosition(j), Entry(cache_head[j]))
      <3>1. Clean("rs", j)
        BY <1>0, <1>1, <1>7, <2>1 DEF Clean, MustFlush, Reached
      <3>2. CellIs(file, RsPosition(j), Entry(cache_head[j]))
        BY <1>0, <1>f, <3>1 DEF FileInv, InPlace
      <3>3. RsPosition(j) # 2
        BY <1>n DEF RsPosition
      <3> QED BY <1>k, <3>2, <3>3
    <2> QED BY <1>7, <1>9, <2>1 DEF InPlace, m
  <1>11. Visible'
    <2> DEFINE k == RsCountPosition
    <2>0. k \in Nat /\ k > 2 /\ \A i \in Nat : RsPosition(i) = k + i
      BY <1>n DEF RsPosition
    <2>1. SUFFICES ASSUME ~needs_rewriting, k <= Len(file), file'[k].kind = "count"
                   PROVE  \A i \in 1..file'[k].n :
                              RsPosition(i) <= Len(file) /\ file'[RsPosition(i)].kind = "entry" =>
                                  file'[RsPosition(i)].entry \in recent
      BY <1>4, <1>7 DEF Visible
    <2>2. k \in 1..Len(file) /\ file'[k] = file[k]
      <3>1. k \in 1..Len(file) /\ k # 2
        BY <1>0, <2>0, <2>1
      <3> QED BY <1>4, <3>1
    <2>3. \A i \in 1..file[k].n :
              RsPosition(i) <= Len(file) /\ file[RsPosition(i)].kind = "entry" =>
                  file[RsPosition(i)].entry \in recent
      BY <1>0, <1>f, <2>1, <2>2 DEF FileInv, Visible
    <2>4. \A i \in Nat : RsPosition(i) <= Len(file) => file'[RsPosition(i)] = file[RsPosition(i)]
      <3> SUFFICES ASSUME NEW i \in Nat, RsPosition(i) <= Len(file)
                   PROVE  file'[RsPosition(i)] = file[RsPosition(i)]
        OBVIOUS
      <3>0. RsPosition(i) = k + i /\ k + i \in Nat /\ k + i > 2
        BY <2>0
      <3>1. RsPosition(i) \in 1..Len(file) /\ RsPosition(i) > 2
        BY <1>0, <3>0
      <3> QED BY <1>4, <3>1
    <2>5. \A i \in 1..file[k].n : i \in Nat
      OBVIOUS
    <2> QED BY <2>2, <2>3, <2>4, <2>5
  <1>12. NoMitmCount'
    <2>1. mitmcache_head = <<>> => m = 0
      BY DEF m
    <2> QED BY <1>4, <1>7, <2>1 DEF NoMitmCount
  <1>13. LoadedHeld'
    <2>1. CASE ~needs_rewriting
      <3>1. \A i \in 1..Len(mitmcache_head') : CellIs(file', 2 + i, Entry(mitmcache_head'[i]))
        BY <1>7, <1>9 DEF MitmPosition, m
      <3>2. CellIs(file', 2, Count(Len(mitmcache_head')))
        BY <1>4, <1>7 DEF m
      <3>3. up' = "up" /\ ~needs_rewriting' /\ TypeOK' /\ Held'
        BY <1>7, <2>1 DEF MemoryInv
      <3> QED BY <1>11, <1>v, <3>1, <3>2, <3>3, VisibleLoads
    <2>2. CASE needs_rewriting
      <3>1. \A i \in 1..Len(mitmcache_head) : CellIs(file', 2 + i, Entry(mitmcache_head[i]))
        BY <1>9 DEF MitmPosition, m
      <3>2. ReadableIn(file') <=> BlockIn(file', 3 + m)
        BY <1>4, <1>n, <1>v, <3>1, MitmReads DEF m
      <3>3. ~BlockIn(file', 3 + m)
        BY <1>g, <1>4, <1>n, <2>2 DEF BlockIn
      <3> QED BY <3>2, <3>3, ReadingFile DEF LoadedHeld
    <2> QED BY <2>1, <2>2
  <1> QED BY <1>7, <1>8, <1>v, <1>10, <1>11, <1>12, <1>13 DEF FileInv

\* While the regular entries are written their count is 0, so a reader finds none.
LEMMA NoneVisible ==
    ASSUME TypeOK', Held', up' = "up", VersionFirst(file'),
           CellIs(file', 2, Count(Len(mitmcache_head'))),
           CellIs(file', RsCountPosition', Count(0)),
           \A i \in 1..Len(mitmcache_head') : CellIs(file', MitmPosition(i)', Entry(mitmcache_head'[i]))
    PROVE  Visible' /\ NoMitmCount' /\ LoadedHeld' /\ Readable'
  <1>1. /\ mitmcache_head' \in Seq(Entries) /\ Len(mitmcache_head') \in Nat
        /\ cache_head' \in Seq(Entries) /\ Len(cache_head') \in Nat
    BY DEF TypeOK, Content
  <1>2. RsCountPosition' = 3 + Len(mitmcache_head') /\ \A i : MitmPosition(i)' = 2 + i
    BY DEF RsCountPosition, MitmPosition
  <1>3. file'[RsCountPosition'] = Count(0) /\ file' \in Seq(Cells)
    BY DEF CellIs
  <1>4. Visible'
    <2>1. Count(0).n = 0
      BY CellKinds
    <2> QED BY <1>1, <1>3, <2>1 DEF Visible
  <1>5. NoMitmCount'
    <2>1. mitmcache_head' = <<>> => Len(mitmcache_head') = 0
      OBVIOUS
    <2> QED BY <2>1 DEF NoMitmCount
  <1> DEFINE k == 3 + Len(mitmcache_head')
  <1>6. BlockIn(file', k) /\ Members(EntriesIn(file', k)) = {}
    BY <1>1, <1>2, <1>3, NoneRead
  <1>7. /\ ReadableIn(file') <=> BlockIn(file', k)
        /\ LoadedIn(file') = [rs |-> EntriesIn(file', k), mitm |-> mitmcache_head']
    BY <1>1, <1>2, MitmReads
  <1> HIDE DEF k
  <1>8. (Readable' <=> ReadableIn(file')) /\ Loaded' = LoadedIn(file')
    BY ReadingFile
  <1>9. Members(mitmcache_head') \subseteq recent'
    BY DEF Held
  <1>10. Loaded'.rs = EntriesIn(file', k) /\ Loaded'.mitm = mitmcache_head'
    BY <1>7, <1>8
  <1> QED BY <1>4, <1>5, <1>6, <1>7, <1>8, <1>9, <1>10 DEF LoadedHeld

LEMMA RsZeroKeeps == CacheInv /\ StoreRsZero => CacheInv'
  <1> SUFFICES ASSUME CacheInv, StoreRsZero PROVE CacheInv'
    OBVIOUS
  <1> DEFINE k == RsCountPosition
             cell == Count(0)
  <1>0. /\ MemoryInv /\ TypeOK /\ pc = "rs_zero" /\ up = "up"
        /\ file \in Seq(Cells) /\ Len(file) \in Nat
    BY DEF CacheInv, MemoryInv, Storing, StoreRsZero, Opened
  <1>n. /\ Len(mitmcache_head) \in Nat /\ k = 3 + Len(mitmcache_head)
        /\ k \in Nat \ {0} /\ k # 1 /\ k # 2 /\ puts \in Nat
        /\ cell \in Cells /\ (cell.kind = "count" => cell.n <= puts)
    BY <1>0, ListTypes, CellKinds
  <1>1. /\ Proceed("rs", 1) /\ UNCHANGED <<dirty, needs_rewriting>>
        /\ Reaches(WriteAt(k, cell))
    BY DEF StoreRsZero, InterimCount
  <1>e. cell = Count(0)
    OBVIOUS
  <1> HIDE DEF k, cell
  <1>2. /\ file' = WriteAt(k, cell) \/ file' = file
        /\ lost' \in BOOLEAN /\ (~lost' => ~lost /\ file' = WriteAt(k, cell))
    BY <1>0, <1>1, ReachesFile DEF TypeOK
  <1>3. file' \in Seq(Cells) /\ (puts' = puts => CountsFit(file)')
    <2>1. puts' = puts /\ CountsFit(file)
      BY <1>0, <1>1 DEF MemoryInv, Proceed
    <2> QED BY <1>0, <1>2, <1>n, <2>1, WriteFits
  <1>5. \A j : Reached("mitm", j) /\ Reached("mitm", j)'
    BY <1>0, <1>1 DEF Reached, Proceed
  <1>6. dirty["mitm"] = {}
    BY <1>0, <1>5 DEF MemoryInv, Held
  <1>7. Goes("rs", 1)
    BY <1>0, <1>1, <1>2, <1>3, <1>6, CountedSecrets DEF Goes, TypeOK
  <1>8. /\ MemoryInv' /\ StoredWhenOk'
        /\ up' = "up" /\ pc' = "rs" /\ elem' = 1
        /\ UNCHANGED <<cache_head, mitmcache_head, needs_rewriting, recent, puts>>
        /\ RsCountPosition' = RsCountPosition
        /\ \A j : MitmPosition(j)' = MitmPosition(j) /\ RsPosition(j)' = RsPosition(j)
    BY <1>0, <1>7, GoesKeeps
  <1>f. SUFFICES ASSUME FileInv, file' = WriteAt(k, cell) PROVE FileInv'
    BY <1>2, <1>8 DEF CacheInv
  <1>g. CellIs(file, 2, Count(Len(mitmcache_head)))
    BY <1>0, <1>f DEF FileInv, Progress
  <1>w. Writes(k, cell)
    BY <1>0, <1>f, <1>n, WriteAtWrites
  <1>k. \A j, c : j # k /\ CellIs(file, j, c) => CellIs(file', j, c)
    BY <1>n, <1>w, CellsKept
  <1>v. VersionFirst(file')
    BY <1>f, <1>g, <1>n, <1>w, VersionStays DEF FileInv
  <1>4. CellIs(file', k, Count(0)) /\ CellIs(file', 2, Count(Len(mitmcache_head)))
    BY <1>e, <1>g, <1>k, <1>n, <1>w DEF Writes
  <1>9. Progress'
    BY <1>4, <1>8 DEF Progress, k
  <1>10. \A j \in 1..Len(mitmcache_head) : CellIs(file', MitmPosition(j), Entry(mitmcache_head[j]))
    <2> TAKE j \in 1..Len(mitmcache_head)
    <2>1. CellIs(file, MitmPosition(j), Entry(mitmcache_head[j]))
      BY <1>0, <1>5, <1>f DEF FileInv, InPlace, Clean
    <2>2. MitmPosition(j) # k
      BY <1>n DEF MitmPosition
    <2> QED BY <1>k, <2>1, <2>2
  <1>11. InPlace'
    <2>1. ASSUME NEW j \in 1..Len(cache_head), Clean("rs", j)'
          PROVE  CellIs(file', RsPosition(j), Entry(cache_head[j]))
      <3>1. ~Reached("rs", j)'
        BY <1>8 DEF Reached
      <3>2. Clean("rs", j)
        BY <1>1, <2>1, <3>1 DEF Clean, MustFlush
      <3>3. CellIs(file, RsPosition(j), Entry(cache_head[j]))
        BY <1>0, <1>f, <3>2 DEF FileInv, InPlace
      <3>4. RsPosition(j) # k
        BY <1>n DEF RsPosition, k
      <3> QED BY <1>k, <3>3, <3>4
    <2> QED BY <1>8, <1>10, <2>1 DEF InPlace
  <1>12. Visible' /\ NoMitmCount' /\ LoadedHeld'
    <2>1. CellIs(file', RsCountPosition', Count(0))
      BY <1>4, <1>8 DEF k
    <2>2. CellIs(file', 2, Count(Len(mitmcache_head')))
      BY <1>4, <1>8
    <2>3. \A j \in 1..Len(mitmcache_head') : CellIs(file', MitmPosition(j)', Entry(mitmcache_head'[j]))
      BY <1>8, <1>10
    <2>4. TypeOK' /\ Held'
      BY <1>8 DEF MemoryInv
    <2> QED BY <1>8, <1>v, <2>1, <2>2, <2>3, <2>4, NoneVisible
  <1> QED BY <1>8, <1>9, <1>v, <1>11, <1>12 DEF FileInv

\* An entry of the regular list, written if it is dirty or the file is written anew.
LEMMA RsKeeps == CacheInv /\ StoreRs => CacheInv'
  <1> SUFFICES ASSUME CacheInv, StoreRs PROVE CacheInv'
    OBVIOUS
  <1> DEFINE k == RsPosition(elem)
             cell == Entry(cache_head[elem])
  <1>0. /\ MemoryInv /\ TypeOK /\ pc = "rs" /\ up = "up" /\ elem <= Len(cache_head)
        /\ file \in Seq(Cells) /\ Len(file) \in Nat
    BY DEF CacheInv, MemoryInv, Storing, StoreRs, Flush, Opened
  <1>n. /\ Len(mitmcache_head) \in Nat /\ RsCountPosition = 3 + Len(mitmcache_head)
        /\ elem \in Nat \ {0} /\ elem \in 1..Len(cache_head) /\ cache_head[elem] \in Entries
        /\ k = RsCountPosition + elem /\ k \in Nat \ {0} /\ k # 1 /\ Len(cache_head) \in Nat
        /\ Len(cache_head) <= MaxPuts /\ MaxPuts \in Nat /\ puts \in Nat
    <2>1. elem \in 1..Len(cache_head) /\ cache_head \in Seq(Entries)
      BY <1>0, ListTypes, CountedSecrets DEF TypeOK
    <2>2. Len(cache_head) <= MaxPuts
      BY <1>0, ListTypes, CountedSecrets
    <2> QED BY <1>0, <2>1, <2>2, ListTypes, CountedSecrets DEF RsPosition
  <1>1. /\ Proceed("rs", elem + 1) /\ needs_rewriting' = needs_rewriting
        /\ MustFlush("rs", elem) => /\ Reaches(WriteAt(k, cell))
                                    /\ dirty' = [dirty EXCEPT !["rs"] = dirty["rs"] \ {elem}]
        /\ ~MustFlush("rs", elem) => UNCHANGED <<file, dirty, lost>>
    BY <1>0 DEF StoreRs, Flush
  <1>c. cell \in Cells /\ (cell.kind = "count" => cell.n <= puts)
    BY <1>n, CellKinds
  <1> HIDE DEF k, cell
  <1>2. /\ file' = WriteAt(k, cell) \/ file' = file
        /\ lost' \in BOOLEAN
        /\ ~lost' => ~lost /\ (MustFlush("rs", elem) => file' = WriteAt(k, cell))
                           /\ (~MustFlush("rs", elem) => file' = file)
    <2>1. lost \in BOOLEAN
      BY <1>0 DEF TypeOK
    <2>2. CASE MustFlush("rs", elem)
      BY <1>1, <2>1, <2>2, ReachesFile
    <2>3. CASE ~MustFlush("rs", elem)
      BY <1>1, <2>1, <2>3
    <2> QED BY <2>2, <2>3
  <1>3. file' \in Seq(Cells) /\ (puts' = puts => CountsFit(file)')
    <2>1. puts' = puts /\ CountsFit(file)
      BY <1>0, <1>1 DEF MemoryInv, Proceed
    <2> QED BY <1>0, <1>2, <1>c, <1>n, <2>1, WriteFits
  <1>d. dirty \in [{"rs", "mitm"} -> SUBSET (1..MaxPuts)]
    BY <1>0 DEF TypeOK
  <1>5. /\ dirty' \in [{"rs", "mitm"} -> SUBSET (1..MaxPuts)]
        /\ dirty'["mitm"] = dirty["mitm"]
        /\ dirty'["rs"] = dirty["rs"] \ {elem}
    <2>1. CASE MustFlush("rs", elem)
      BY <1>1, <1>d, <2>1
    <2>2. CASE ~MustFlush("rs", elem)
      BY <1>1, <1>d, <2>2 DEF MustFlush
    <2> QED BY <2>1, <2>2
  <1>r. /\ \A j : Reached("mitm", j)
        /\ \A j \in Nat : Reached("rs", j)' => Reached("rs", j) \/ j = elem
    BY <1>0, <1>1, <1>n DEF Reached, Proceed
  <1>6. dirty["mitm"] = {}
    BY <1>0, <1>r DEF MemoryInv, Held
  <1>7. Goes("rs", elem + 1)
    <2>1. elem + 1 \in 1..(MaxPuts + 1)
      BY <1>n
    <2> QED BY <1>0, <1>1, <1>2, <1>3, <1>5, <1>6, <2>1 DEF Goes
  <1>8. /\ MemoryInv' /\ StoredWhenOk'
        /\ up' = "up" /\ pc' = "rs" /\ elem' = elem + 1
        /\ UNCHANGED <<cache_head, mitmcache_head, needs_rewriting, recent, puts>>
        /\ RsCountPosition' = RsCountPosition
        /\ \A j : MitmPosition(j)' = MitmPosition(j) /\ RsPosition(j)' = RsPosition(j)
    BY <1>0, <1>7, GoesKeeps
  <1>f. SUFFICES ASSUME FileInv,
                        MustFlush("rs", elem) => file' = WriteAt(k, cell),
                        ~MustFlush("rs", elem) => file' = file
                 PROVE  FileInv'
    BY <1>2, <1>8 DEF CacheInv
  <1>g. CellIs(file, 2, Count(Len(mitmcache_head))) /\ CellIs(file, RsCountPosition, Count(0))
    BY <1>0, <1>f DEF FileInv, Progress
  <1>w. MustFlush("rs", elem) => Writes(k, cell)
    BY <1>0, <1>f, <1>n, <1>c, WriteAtWrites
  <1>k. \A j, c : j # k /\ CellIs(file, j, c) => CellIs(file', j, c)
    <2>1. CASE MustFlush("rs", elem)
      BY <1>n, <1>w, <2>1, CellsKept
    <2>2. CASE ~MustFlush("rs", elem)
      BY <1>f, <2>2
    <2> QED BY <2>1, <2>2
  <1>v. VersionFirst(file')
    <2>1. CASE MustFlush("rs", elem)
      BY <1>f, <1>g, <1>n, <1>w, <2>1, VersionStays DEF FileInv
    <2>2. CASE ~MustFlush("rs", elem)
      BY <1>f, <2>2 DEF FileInv
    <2> QED BY <2>1, <2>2
  <1>9. /\ CellIs(file', 2, Count(Len(mitmcache_head)))
        /\ CellIs(file', RsCountPosition, Count(0))
    BY <1>g, <1>k, <1>n
  <1>10. Progress'
    BY <1>8, <1>9 DEF Progress
  <1>11. \A j \in 1..Len(mitmcache_head) : CellIs(file', MitmPosition(j), Entry(mitmcache_head[j]))
    <2> TAKE j \in 1..Len(mitmcache_head)
    <2>1. CellIs(file, MitmPosition(j), Entry(mitmcache_head[j]))
      BY <1>0, <1>f, <1>r DEF FileInv, InPlace, Clean
    <2>2. MitmPosition(j) # k
      BY <1>n DEF MitmPosition
    <2> QED BY <1>k, <2>1, <2>2
  <1>12. InPlace'
    <2>1. ASSUME NEW j \in 1..Len(cache_head), Clean("rs", j)'
          PROVE  CellIs(file', RsPosition(j), Entry(cache_head[j]))
      <3>1. CASE j = elem /\ MustFlush("rs", elem)
        BY <1>w, <3>1 DEF Writes, k, cell
      <3>2. CASE j # elem \/ ~MustFlush("rs", elem)
        <4>1. Clean("rs", j)
          BY <1>1, <1>5, <1>r, <2>1, <3>2 DEF Clean, MustFlush
        <4>2. CellIs(file, RsPosition(j), Entry(cache_head[j]))
          BY <1>0, <1>f, <4>1 DEF FileInv, InPlace
        <4>3. RsPosition(j) = k => j = elem
          BY <1>n DEF RsPosition
        <4> QED BY <1>f, <1>k, <3>2, <4>2, <4>3
      <3> QED BY <3>1, <3>2
    <2> QED BY <1>8, <1>11, <2>1 DEF InPlace
  <1>13. Visible' /\ NoMitmCount' /\ LoadedHeld'
    <2>1. CellIs(file', RsCountPosition', Count(0)) /\ CellIs(file', 2, Count(Len(mitmcache_head')))
      BY <1>8, <1>9
    <2>2. \A j \in 1..Len(mitmcache_head') : CellIs(file', MitmPosition(j)', Entry(mitmcache_head'[j]))
      BY <1>8, <1>11
    <2>3. TypeOK' /\ Held'
      BY <1>8 DEF MemoryInv
    <2> QED BY <1>8, <1>v, <2>1, <2>2, <2>3, NoneVisible
  <1> QED BY <1>8, <1>10, <1>v, <1>12, <1>13 DEF FileInv

\* The count that ends a store shows what memory has.
LEMMA RsCountKeeps == CacheInv /\ StoreRsCount => CacheInv'
  <1> SUFFICES ASSUME CacheInv, StoreRsCount PROVE CacheInv'
    OBVIOUS
  <1> DEFINE k == RsCountPosition
             n == Len(cache_head)
             m == Len(mitmcache_head)
             cell == Count(n)
  <1>0. /\ MemoryInv /\ TypeOK /\ pc = "rs" /\ up = "up" /\ elem > n
        /\ file \in Seq(Cells) /\ Len(file) \in Nat
        /\ content = [rs |-> cache_head, mitm |-> mitmcache_head]
    BY DEF CacheInv, MemoryInv, Storing, StoreRsCount, Opened, Held
  <1>n. /\ m \in Nat /\ n \in Nat /\ k = 3 + m /\ elem \in Nat /\ 1 \in 1..(MaxPuts + 1)
        /\ k \in Nat \ {0} /\ k # 1 /\ k # 2 /\ puts \in Nat
        /\ cell \in Cells /\ (cell.kind = "count" => cell.n <= puts)
        /\ cache_head \in Seq(Entries) /\ mitmcache_head \in Seq(Entries)
    BY <1>0, ListTypes, CellKinds, CountedSecrets DEF TypeOK
  <1>1. /\ Reaches(WriteAt(k, cell))
        /\ needs_rewriting' = FALSE /\ dirty' = dirty
        /\ recent' = Members(cache_head) \cup Members(mitmcache_head)
        /\ pc' = "idle" /\ elem' = 1 /\ closing' = FALSE /\ outcome' = "ok"
        /\ UNCHANGED <<auto_store, puts, content>>
    BY DEF StoreRsCount, Return
  <1>2. \/ /\ up' = "down" /\ cache_head' = <<>> /\ mitmcache_head' = <<>>
        \/ UNCHANGED <<up, cache_head, mitmcache_head>>
    BY <1>0 DEF StoreRsCount, Return
  <1>e. cell = Count(n)
    OBVIOUS
  <1> HIDE DEF k, cell
  <1>b. /\ file' = WriteAt(k, cell) \/ file' = file
        /\ lost' \in BOOLEAN /\ (~lost' => ~lost /\ file' = WriteAt(k, cell))
    BY <1>0, <1>1, ReachesFile DEF TypeOK
  <1>c. file' \in Seq(Cells) /\ CountsFit(file)'
    <2>1. puts' = puts /\ CountsFit(file)
      BY <1>0, <1>1 DEF MemoryInv
    <2> QED BY <1>0, <1>b, <1>n, <2>1, WriteFits
  <1>3. TypeOK'
    <2>1. Members(cache_head) \subseteq Entries /\ Members(mitmcache_head) \subseteq Entries
      BY <1>n, MembersOf
    <2>2. [rs |-> cache_head', mitm |-> mitmcache_head'] \in Content
      BY <1>2, <1>n, EmptyLists DEF Content
    <2>3. DOMAIN cache_head' \cup DOMAIN mitmcache_head' \subseteq 1..puts'
      BY <1>0, <1>1, <1>2, EmptyLists DEF TypeOK
    <2>4. up' \in {"down", "up", "failed"}
      BY <1>0, <1>2
    <2> QED BY <1>0, <1>1, <1>b, <1>c, <1>n, <2>1, <2>2, <2>3, <2>4 DEF TypeOK
  <1>4. Storing' /\ Opened' /\ Progress'
    BY <1>1 DEF Storing, Opened, Progress
  <1>r. /\ \A j : Reached("mitm", j)
        /\ \A j \in 1..n : Reached("rs", j)
        /\ \A l, j : ~Reached(l, j)'
    BY <1>0, <1>1, <1>n DEF Reached
  <1>5. Held'
    <2>1. dirty["mitm"] = {}
      BY <1>0, <1>r DEF MemoryInv, Held
    <2> QED BY <1>0, <1>1, <1>2, <2>1 DEF Held
  <1>6. MemoryInv'
    BY <1>3, <1>4, <1>5, <1>c DEF MemoryInv
  <1>f. SUFFICES ASSUME FileInv, file' = WriteAt(k, cell) PROVE FileInv'
    BY <1>6, <1>b DEF CacheInv
  <1>g. CellIs(file, 2, Count(m)) /\ CellIs(file, k, Count(0))
    BY <1>0, <1>f DEF FileInv, Progress, k
  <1>w. Writes(k, cell)
    BY <1>0, <1>f, <1>n, WriteAtWrites
  <1>k. \A j, c : j # k /\ CellIs(file, j, c) => CellIs(file', j, c)
    BY <1>n, <1>w, CellsKept
  <1>v. VersionFirst(file')
    BY <1>f, <1>g, <1>n, <1>w, VersionStays DEF FileInv
  <1> HIDE DEF n, m
  <1>7. CellIs(file', k, Count(n)) /\ CellIs(file', 2, Count(m))
    BY <1>e, <1>g, <1>k, <1>n, <1>w DEF Writes
  <1>8. \A j \in 1..m : CellIs(file', 2 + j, Entry(mitmcache_head[j]))
    <2> TAKE j \in 1..m
    <2>1. CellIs(file, MitmPosition(j), Entry(mitmcache_head[j]))
      BY <1>0, <1>f, <1>r DEF FileInv, InPlace, Clean, m
    <2>2. MitmPosition(j) # k /\ MitmPosition(j) = 2 + j
      BY <1>n DEF MitmPosition
    <2> QED BY <1>k, <2>1, <2>2
  <1>9. \A j \in 1..n : CellIs(file', k + j, Entry(cache_head[j]))
    <2> TAKE j \in 1..n
    <2>1. CellIs(file, RsPosition(j), Entry(cache_head[j]))
      BY <1>0, <1>f, <1>r DEF FileInv, InPlace, Clean, n
    <2>2. RsPosition(j) # k /\ RsPosition(j) = k + j
      BY <1>n DEF RsPosition, k
    <2> QED BY <1>k, <2>1, <2>2
  <1>10. BlockIn(file', k) /\ file'[k].n = n /\ EntriesIn(file', k) = cache_head
    BY <1>7, <1>9, <1>c, <1>n, ListIsBlock DEF n
  <1>11. ReadableIn(file') /\ LoadedIn(file') = [rs |-> cache_head, mitm |-> mitmcache_head]
    <2>1. /\ ReadableIn(file') <=> BlockIn(file', 3 + m)
          /\ LoadedIn(file') = [rs |-> EntriesIn(file', 3 + m), mitm |-> mitmcache_head]
      BY <1>7, <1>8, <1>n, <1>v, MitmReads DEF m
    <2> QED BY <1>10, <1>n, <2>1
  <1>12. Readable' /\ Loaded' = content
    BY <1>0, <1>11, ReadingFile
  <1>13. StoredWhenOk' /\ LoadedHeld'
    <2>1. Loaded'.rs = cache_head /\ Loaded'.mitm = mitmcache_head
      BY <1>0, <1>12
    <2> QED BY <1>1, <1>12, <2>1 DEF StoredWhenOk, LoadedHeld
  <1>14. CASE up' = "down"
    BY <1>4, <1>13, <1>14, <1>v DEF FileInv, InPlace, Visible, NoMitmCount
  <1>15. CASE UNCHANGED <<up, cache_head, mitmcache_head>>
    <2>1. /\ RsCountPosition' = k
          /\ \A j : MitmPosition(j)' = 2 + j /\ RsPosition(j)' = k + j
      BY <1>15 DEF RsCountPosition, MitmPosition, RsPosition, k
    <2>2. InPlace'
      BY <1>8, <1>9, <1>15, <2>1 DEF InPlace, n, m
    <2>3. Visible'
      <3>1. \A j \in 1..n : cache_head[j] \in recent' /\ cache_head[j] \in Entries
        BY <1>1, <1>n, MembersOf DEF n
      <3>2. \A j \in 1..n : file'[k + j].entry = cache_head[j]
        BY <1>9, <3>1, CellKinds DEF CellIs
      <3> QED BY <1>10, <1>15, <2>1, <3>1, <3>2 DEF Visible
    <2>4. NoMitmCount'
      <3>1. mitmcache_head = <<>> => m = 0
        BY DEF m
      <3> QED BY <1>7, <1>15, <3>1 DEF NoMitmCount
    <2> QED BY <1>4, <1>13, <1>v, <2>2, <2>3, <2>4 DEF FileInv
  <1> QED BY <1>2, <1>14, <1>15

-----------------------------------------------------------------------------
(* The theorems.                                                           *)

LEMMA StoreKeeps == CacheInv /\ Store => CacheInv'
  BY OpenKeeps, HeaderKeeps, MitmKeeps, MitmCountKeeps, RsZeroKeeps, RsKeeps, RsCountKeeps,
     FailsKeeps DEF Store

LEMMA CacheNext == CacheInv /\ [Next]_vars => CacheInv'
  <1> SUFFICES ASSUME CacheInv, [Next]_vars PROVE CacheInv'
    OBVIOUS
  <1>1. CASE Create
    BY <1>1, CreateKeeps
  <1>2. CASE Destroy
    BY <1>2, DestroyKeeps
  <1>3. CASE Crash
    BY <1>3, CrashKeeps
  <1>4. CASE Store
    BY <1>4, StoreKeeps
  <1>5. ASSUME NEW p \in Peers, Put(p) \/ PutMitm(p) \/ TouchUnknown(p)
        PROVE  CacheInv'
    BY <1>5, PutKeeps, PutMitmKeeps, TouchUnknownKeeps
  <1>6. ASSUME NEW p \in Peers, NEW v \in BOOLEAN, SetVerified(p, v)
        PROVE  CacheInv'
    BY <1>6, SetVerifiedKeeps
  <1>7. CASE UNCHANGED vars
    BY <1>7, StutterKeeps
  <1> QED BY <1>1, <1>2, <1>3, <1>4, <1>5, <1>6, <1>7 DEF Next

\* The memory is in order whatever fails, and memory and file fit together at
\* every step of a store, whatever failed noticed or crashed before, from the
\* moment the file was last emptied to the next write that stdio loses
\* (zrtp_cache_store_to_file, zrtp_cache_file_create).
THEOREM CacheInvariant == Spec => []CacheInv
  <1>1. Init => CacheInv
    BY CacheInit
  <1>2. CacheInv /\ [Next]_vars => CacheInv'
    BY CacheNext
  <1> QED BY <1>1, <1>2, PTL DEF Spec

\* The type invariant, whatever becomes of the writes: also a file that misses
\* some never gives a restart a list longer than there were secrets.
THEOREM TypesAlwaysOK == Spec => []TypeOK
  <1>1. CacheInv => TypeOK
    BY DEF CacheInv, MemoryInv
  <1> QED BY <1>1, CacheInvariant, PTL

\* Once zrtp_cache_store_to_file has succeeded, reading the file gives what
\* memory has, whatever stores failed half-way before, unless a write was lost
\* unnoticed and the file has not been written anew.
THEOREM StoredIsRead == Spec => []InSync
  <1>1. CacheInv => InSync
    BY DEF CacheInv, FileInv, StoredWhenOk, InSync
  <1> QED BY <1>1, CacheInvariant, PTL

\* A restart, wherever it comes in a store, takes no secret that was replaced
\* before the last store that succeeded, unless a write was lost unnoticed and
\* the file has not been written anew.
THEOREM ReplacedStaysAway == Spec => []NoStaleSecret
  <1>1. CacheInv => NoStaleSecret
    BY DEF CacheInv, FileInv, LoadedHeld, NoStaleSecret
  <1> QED BY <1>1, CacheInvariant, PTL

-----------------------------------------------------------------------------
(* A file without MitM entries stays readable.                             *)

\* Only cells 1 and 2 are written, with the version and the 0 they have.
LEMMA SameBlocks ==
    ASSUME file' \in Seq(Cells), CellIs(file, 2, Count(0)), CellIs(file', 2, Count(0)),
           VersionFirst(file), Len(file') = Len(file),
           \A j \in 1..Len(file) : j > 2 => file'[j] = file[j],
           Readable
    PROVE  Readable'
  <1>1. /\ file \in Seq(Cells) /\ Len(file) \in Nat /\ 2 <= Len(file)
        /\ file[2].kind = "count" /\ file[2].n = 0 /\ file'[2] = file[2]
    BY CellKinds DEF CellIs
  <1>2. ~BlankFile(file)
    BY <1>1, NotBlank
  <1>3. BlockIn(file, 3)
    <2>1. BlockIn(file, 3 + file[2].n)
      BY <1>2, ReadingFile DEF ReadableIn
    <2> QED BY <1>1, <2>1
  <1>4. BlockIn(file', 2)
    BY <1>1 DEF BlockIn
  <1>5. BlockIn(file', 3)
    <2>1. 3 \in 1..Len(file) /\ file'[3] = file[3]
      BY <1>1, <1>3 DEF BlockIn
    <2>2. file[3].n \in Nat /\ 3 + file[3].n <= Len(file)
      <3>1. 3 \in Nat \ {0}
        OBVIOUS
      <3>2. file[3].n \in Nat
        BY <1>1, <1>3, <3>1, BlockIsList
      <3> QED BY <1>3, <3>2 DEF BlockIn
    <2>3. \A i \in 1..file[3].n : file'[3 + i] = file[3 + i]
      <3> TAKE i \in 1..file[3].n
      <3>1. 3 + i \in 1..Len(file) /\ 3 + i > 2
        BY <1>1, <2>2
      <3> QED BY <3>1
    <2> QED BY <1>3, <2>1, <2>3 DEF BlockIn
  <1>6. 3 + file'[2].n = 3
    BY <1>1
  <1>7. ReadableIn(file')
    BY <1>4, <1>5, <1>6 DEF ReadableIn
  <1> QED BY <1>7, ReadingFile

LEMMA StepsStayReadable ==
    ASSUME CacheInv, CacheInv', [Next]_vars, ~lost,
           ~Blank, Readable, mitmcache_head = <<>>, ~needs_rewriting
    PROVE  Readable'
  <1>0. MemoryInv /\ FileInv /\ MemoryInv' /\ (~lost' => FileInv')
    BY DEF CacheInv
  <1>1. CASE file' = file
    BY <1>1, ReadingFile
  <1>2. CASE file' # file /\ pc # "idle" /\ Store
    <2>0. /\ TypeOK /\ up = "up" /\ file \in Seq(Cells) /\ Len(file) \in Nat
          /\ CellIs(file, 2, Count(0)) /\ Len(mitmcache_head) = 0 /\ VersionFirst(file)
      <3>1. TypeOK /\ up = "up"
        BY <1>0, <1>2 DEF MemoryInv, Storing
      <3>2. CellIs(file, 2, Count(0)) /\ VersionFirst(file)
        BY <1>0, <3>1 DEF FileInv, NoMitmCount
      <3> QED BY <3>1, <3>2 DEF CellIs
    <2>r. \A new : Reaches(new) => file' = new /\ lost' = lost
      BY <1>2 DEF Reaches
    <2>1. CASE StoreOpen
      BY <1>2, <2>1 DEF StoreOpen, Blank
    <2>2. CASE StoreHeader
      <3>1. /\ pc' = "mitm"
            /\ file' = [i \in 1..(IF Len(file) < 2 THEN 2 ELSE Len(file)) |->
                          CASE i = 1 -> Version [] i = 2 -> Count(0) [] OTHER -> file[i]]
            /\ lost' = lost
        BY <2>2, <2>r DEF StoreHeader, Proceed
      <3>2. CellIs(file', 2, Count(0)) /\ file' \in Seq(Cells)
        BY <1>0, <3>1 DEF FileInv, Progress, CellIs
      <3>3. 2 <= Len(file)
        BY <2>0 DEF CellIs
      <3>4. file' = [i \in 1..Len(file) |->
                        CASE i = 1 -> Version [] i = 2 -> Count(0) [] OTHER -> file[i]]
        BY <2>0, <3>1, <3>3
      <3>5. Len(file') = Len(file)
        BY <2>0, <3>2, <3>4
      <3>6. \A j \in 1..Len(file) : j > 2 => file'[j] = file[j]
        BY <2>0, <3>4
      <3> QED BY <2>0, <3>2, <3>5, <3>6, SameBlocks
    <2>3. CASE StoreMitm
      <3>1. elem >= 1 /\ elem <= 0
        BY <2>0, <2>3, CountedSecrets DEF StoreMitm, Flush, TypeOK
      <3>2. elem \in Nat
        BY <2>0, CountedSecrets DEF TypeOK
      <3> QED BY <3>1, <3>2
    <2>4. CASE StoreMitmCount
      <3>1. file' = WriteAt(2, Count(0))
        BY <2>0, <2>4, <2>r DEF StoreMitmCount
      <3>2. Count(0) \in Cells /\ 2 \in Nat \ {0}
        BY CellKinds
      <3>3. Writes(2, Count(0))
        BY <2>0, <3>1, <3>2, WriteAtWrites
      <3>4. 2 <= Len(file)
        BY <2>0 DEF CellIs
      <3>5. /\ file' \in Seq(Cells) /\ CellIs(file', 2, Count(0)) /\ Len(file') = Len(file)
            /\ \A j \in 1..Len(file) : j > 2 => file'[j] = file[j]
        BY <2>0, <3>3, <3>4 DEF Writes
      <3> QED BY <2>0, <3>5, SameBlocks
    <2>5. CASE StoreRsZero \/ StoreRs
      <3>1. /\ pc' = "rs" /\ mitmcache_head' = <<>> /\ up' = "up"
            /\ lost' = lost
        BY <1>2, <2>0, <2>5, <2>r DEF StoreRsZero, StoreRs, Flush, Proceed
      <3>2. Len(mitmcache_head') = 0
        BY <3>1
      <3>3. /\ TypeOK' /\ Held' /\ VersionFirst(file')
            /\ CellIs(file', 2, Count(Len(mitmcache_head')))
            /\ CellIs(file', RsCountPosition', Count(0))
        BY <1>0, <3>1 DEF MemoryInv, FileInv, Progress
      <3>4. \A i \in 1..Len(mitmcache_head') :
               CellIs(file', MitmPosition(i)', Entry(mitmcache_head'[i]))
        BY <3>2
      <3> QED BY <3>1, <3>3, <3>4, NoneVisible
    <2>6. CASE StoreRsCount
      <3>1. outcome' = "ok" /\ lost' = lost
        BY <2>6, <2>r DEF StoreRsCount, Return
      <3> QED BY <1>0, <3>1 DEF FileInv, StoredWhenOk
    <2>7. CASE StoreFails
      BY <1>2, <2>7 DEF StoreFails
    <2> QED BY <1>2, <2>1, <2>2, <2>3, <2>4, <2>5, <2>6, <2>7 DEF Store
  <1>3. file' = file \/ (pc # "idle" /\ Store)
    <2>1. CASE Create \/ Destroy \/ Crash
      BY <2>1 DEF Create, Destroy, Crash
    <2>2. CASE Store
      BY <2>2 DEF Store, StoreOpen, StoreHeader, StoreMitm, StoreMitmCount, StoreRsZero, StoreRs,
                  StoreRsCount, StoreFails
    <2>3. ASSUME NEW p \in Peers,
                 Put(p) \/ PutMitm(p) \/ TouchUnknown(p) \/ \E v \in BOOLEAN : SetVerified(p, v)
          PROVE  file' = file
      BY <2>3 DEF Put, PutMitm, TouchUnknown, SetVerified, StoreIfAuto
    <2>4. CASE UNCHANGED vars
      BY <2>4 DEF vars
    <2> QED BY <2>1, <2>2, <2>3, <2>4 DEF Next
  <1> QED BY <1>1, <1>2, <1>3

\* Without MitM entries no step of a store leaves a file that zrtp_init fails
\* on, as long as none of its writes was lost before: a failed write or a crash
\* may lose regular secrets, not the cache.
THEOREM FileStaysReadable == Spec => StaysReadable
  <1>1. CacheInv /\ CacheInv' /\ [Next]_vars =>
            ((~Blank /\ Readable /\ mitmcache_head = <<>> /\ ~needs_rewriting /\ ~lost)
                => Readable')
    BY StepsStayReadable
  <1>2. CacheInv /\ CacheInv' /\ [Next]_vars =>
            [(~Blank /\ Readable /\ mitmcache_head = <<>> /\ ~needs_rewriting /\ ~lost)
                => Readable']_vars
    BY <1>1
  <1> QED BY <1>2, CacheInvariant, PTL DEF Spec, StaysReadable

-----------------------------------------------------------------------------
(* What the loss of a write costs: without one the status of a store tells *)
(* the truth.                                                              *)

LEMMA NothingLost ==
    ASSUME "flush" \notin Faults
    PROVE  Spec => [](lost = FALSE)
  <1>1. Init => lost = FALSE
    BY DEF Init
  <1>2. lost = FALSE /\ [Next]_vars => (lost = FALSE)'
    <2> SUFFICES ASSUME lost = FALSE, [Next]_vars PROVE lost' = FALSE
      OBVIOUS
    <2>1. CASE Create \/ Destroy \/ Crash
      BY <2>1 DEF Create, Destroy, Crash
    <2>2. CASE Store
      <3>1. CASE StoreOpen
        <4>1. lost' = (lost /\ ~needs_rewriting)
          BY <3>1 DEF StoreOpen
        <4> QED BY <4>1
      <3>2. CASE StoreFails
        BY <3>2 DEF StoreFails
      <3>3. \A new : Reaches(new) => lost' = lost
        BY DEF Reaches
      <3>4. CASE StoreHeader \/ StoreMitm \/ StoreMitmCount \/ StoreRsZero \/ StoreRs \/ StoreRsCount
        BY <3>3, <3>4 DEF StoreHeader, StoreMitm, StoreMitmCount, StoreRsZero, StoreRs,
                          StoreRsCount, Flush
      <3> QED BY <2>2, <3>1, <3>2, <3>4 DEF Store
    <2>3. ASSUME NEW p \in Peers,
                 Put(p) \/ PutMitm(p) \/ TouchUnknown(p) \/ \E v \in BOOLEAN : SetVerified(p, v)
          PROVE  lost' = FALSE
      BY <2>3 DEF Put, PutMitm, TouchUnknown, SetVerified, StoreIfAuto
    <2>4. CASE UNCHANGED vars
      BY <2>4 DEF vars
    <2> QED BY <2>1, <2>2, <2>3, <2>4 DEF Next
  <1> QED BY <1>1, <1>2, PTL DEF Spec

\* As long as stdio loses no write, a store that returns zrtp_status_ok
\* (src/zrtp_cache_file.c:865) has left in the file what memory has, crashes and
\* failures of fopen and fwrite before it or not: what StoredWhenOk does not hold
\* for (MCZrtpCacheFile_flush.cfg) takes a flush that fails.
THEOREM StatusTellsTruth ==
    ASSUME "flush" \notin Faults
    PROVE  Spec => []StoredWhenOk
  <1>1. CacheInv /\ lost = FALSE => StoredWhenOk
    BY DEF CacheInv, FileInv
  <1> QED BY <1>1, CacheInvariant, NothingLost, PTL

-----------------------------------------------------------------------------
(* When the file is in step at the end.  With cache_auto_store             *)
(* zrtp_cache_file_destroy stores nothing, "as it should be already in     *)
(* sync" (src/zrtp_cache_file.c:510), which failed writes make untrue.     *)

\* Between operations of a library that is up, or of one that never crashed,
\* the last store succeeded.
LastStoreOk ==
    auto_store /\ pc = "idle" /\ (up = "up" \/ "crash" \notin Faults) => outcome = "ok"

LEMMA LastStoreOkNext ==
    ASSUME "write" \notin Faults
    PROVE  CacheInv /\ LastStoreOk /\ [Next]_vars => LastStoreOk'
  <1> SUFFICES ASSUME CacheInv, LastStoreOk, [Next]_vars PROVE LastStoreOk'
    OBVIOUS
  <1>1. CASE Create
    <2>1. pc' = pc /\ auto_store' = auto_store
      BY <1>1 DEF Create
    <2>2. (up' = "up" /\ outcome' = "ok") \/ (up' = "failed" /\ outcome' = outcome)
      BY <1>1 DEF Create, history
    <2> QED BY <2>1, <2>2 DEF LastStoreOk
  <1>2. CASE Destroy
    <2>1. CASE auto_store
      <3>1. up = "up" /\ UNCHANGED <<auto_store, pc, outcome>>
        BY <1>2, <2>1 DEF Destroy, Ready
      <3> QED BY <3>1 DEF LastStoreOk
    <2>2. CASE ~auto_store
      BY <1>2, <2>2 DEF Destroy, LastStoreOk
    <2> QED BY <2>1, <2>2
  <1>3. CASE Crash
    BY <1>3 DEF Crash, LastStoreOk
  <1>4. CASE Store
    <2>1. CASE StoreRsCount
      BY <2>1 DEF StoreRsCount, Return, LastStoreOk
    <2>2. pc' # "idle" \/ StoreRsCount
      BY <1>4 DEF Store, StoreOpen, StoreHeader, StoreMitm, StoreMitmCount, StoreRsZero,
                  StoreRs, StoreFails, Flush, Proceed
    <2> QED BY <2>1, <2>2 DEF LastStoreOk
  <1>5. ASSUME NEW p \in Peers,
               Put(p) \/ PutMitm(p) \/ TouchUnknown(p) \/ \E v \in BOOLEAN : SetVerified(p, v)
        PROVE  LastStoreOk'
    <2>1. StoreIfAuto
      BY <1>5 DEF Put, PutMitm, TouchUnknown, SetVerified
    <2>2. auto_store' = auto_store /\ (auto_store => pc' = "open")
      BY <2>1 DEF StoreIfAuto
    <2> QED BY <2>2 DEF LastStoreOk
  <1>6. CASE UNCHANGED vars
    BY <1>6 DEF vars, history, LastStoreOk
  <1> QED BY <1>1, <1>2, <1>3, <1>4, <1>5, <1>6 DEF Next

LEMMA LastStoreOkInit == Init => LastStoreOk
  BY DEF Init, LastStoreOk

LEMMA LastStoreStaysOk ==
    ASSUME "write" \notin Faults
    PROVE  Spec => []LastStoreOk
  BY CacheInvariant, LastStoreOkInit, LastStoreOkNext, PTL DEF Spec

\* zrtp_cache_file_destroy that stores nothing leaves a file which zrtp_init
\* reads as what memory held.
DestroyKeepsAll ==
    [][auto_store /\ Destroy =>
          Readable' /\ Loaded' = [rs |-> cache_head, mitm |-> mitmcache_head]]_vars

\* As long as no write and no flush fails, destroy needs no store, crashes or
\* not: a crash leaves nothing in memory that the next zrtp_init has not read.
THEOREM DestroyLosesNothing ==
    ASSUME "write" \notin Faults, "flush" \notin Faults
    PROVE  Spec => DestroyKeepsAll
  <1>1. CacheInv /\ lost = FALSE /\ LastStoreOk =>
            (auto_store /\ Destroy =>
                Readable' /\ Loaded' = [rs |-> cache_head, mitm |-> mitmcache_head])
    <2> SUFFICES ASSUME CacheInv, lost = FALSE, LastStoreOk, auto_store, Destroy
                 PROVE  Readable' /\ Loaded' = [rs |-> cache_head, mitm |-> mitmcache_head]
      OBVIOUS
    <2>1. up = "up" /\ pc = "idle" /\ file' = file
      BY DEF Destroy, Ready
    <2>2. outcome = "ok"
      BY <2>1 DEF LastStoreOk
    <2>3. Readable /\ Loaded = content
      BY <2>2 DEF CacheInv, FileInv, StoredWhenOk
    <2>4. content = [rs |-> cache_head, mitm |-> mitmcache_head]
      BY <2>1 DEF CacheInv, MemoryInv, Held
    <2>5. Readable' <=> Readable
      BY <2>1 DEF Readable, Blank, BlockReadable, RsBlock
    <2>6. Loaded' = Loaded
      BY <2>1 DEF Loaded, Blank, Block, RsBlock
    <2> QED BY <2>3, <2>4, <2>5, <2>6
  <1>2. CacheInv /\ lost = FALSE /\ LastStoreOk => [auto_store /\ Destroy =>
            Readable' /\ Loaded' = [rs |-> cache_head, mitm |-> mitmcache_head]]_vars
    BY <1>1
  <1> QED BY <1>2, CacheInvariant, NothingLost, LastStoreStaysOk, PTL
          DEF Spec, DestroyKeepsAll

\* Where neither a write or a flush fails nor the process dies, the comment on
\* zrtp_cache_file_destroy is true: what it does not hold for
\* (MCZrtpCacheFile_destroy.cfg) takes a fault.
THEOREM DestroyInSyncWithoutFaults ==
    ASSUME Faults = {}
    PROVE  Spec => []DestroyInSync
  <1>1. "write" \notin Faults /\ "crash" \notin Faults /\ "flush" \notin Faults
    OBVIOUS
  <1>2. CacheInv /\ lost = FALSE /\ LastStoreOk => DestroyInSync
    <2> SUFFICES ASSUME CacheInv, lost = FALSE, LastStoreOk, auto_store, up = "down"
                 PROVE  Readable /\ Loaded = content
      BY DEF DestroyInSync
    <2>1. pc = "idle"
      BY DEF CacheInv, MemoryInv, Storing
    <2>2. outcome = "ok"
      BY <1>1, <2>1 DEF LastStoreOk
    <2> QED BY <2>2 DEF CacheInv, FileInv, StoredWhenOk
  <1> QED BY <1>1, <1>2, CacheInvariant, NothingLost, LastStoreStaysOk, PTL

=============================================================================
