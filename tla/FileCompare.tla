------------------------------ MODULE FileCompare ------------------------------
(***************************************************************************)
(* CompareFiles of OTUSLesson17 (bayan).  A file is a sequence of bytes    *)
(* that can be opened or not, named by its place in the list compare()     *)
(* gets, which has no duplicates.  A FileHasher reads its file a block at  *)
(* a time, keeps the hashes, and closes the file after each comparison: a  *)
(* later one seeks to where the cache ends.                                *)
(***************************************************************************)
EXTENDS Integers, Sequences, FiniteSets

CONSTANTS
  BlockSize,
  Contents,  \* what a file may hold
  Hashes,    \* the hash functions, from blocks; they may collide
  MaxFiles   \* bound: the length of the list

\* The constructor of FileHasher throws for a block size of 0.
ASSUME FileCompareAssumption ==
  BlockSize \in Nat \ {0} /\ Contents \subseteq Seq(Int) /\ MaxFiles \in Nat

VARIABLES
  files,       \* the list: what each file holds and whether it can be opened
  hash,        \* the hasher
  hashers,     \* size_to_filehash: by size, the unique files with their groups
  empty_files,
  duplicates,
  cmpAt        \* how many files of the list are done; 0 before compare() starts

cmpVars == <<files, hash, hashers, empty_files, duplicates, cmpAt>>

NotInGroup == 0

CompareInit ==
  /\ files = <<>> /\ hash = <<>>
  /\ hashers = [size \in {} |-> <<>>]
  /\ empty_files = {} /\ duplicates = <<>>
  /\ cmpAt = 0

-----------------------------------------------------------------------------
\* BlockFile and FileHasher: open, valid and at are those of in_.

NewHasher(name) ==
  [name |-> name, cache |-> <<>>, open |-> FALSE, valid |-> TRUE, at |-> 0, readed |-> 0]

SizeOf(fh) == Len(files[fh.name].bytes)

Opened(fh) ==
  IF fh.open THEN fh
  ELSE [fh EXCEPT !.open = files[fh.name].readable, !.valid = files[fh.name].readable, !.at = 0]

Closed(fh) == IF fh.open THEN [fh EXCEPT !.open = FALSE, !.readed = 0] ELSE fh

\* Mutant of Shifted: the blocks are counted but not skipped.
CountedOnly(fh, blocks) == IF blocks > fh.readed THEN [fh EXCEPT !.readed = blocks] ELSE fh

Shifted(fh, blocks) ==
  IF blocks > fh.readed
    THEN [fh EXCEPT !.at = (blocks - fh.readed) * BlockSize, !.readed = blocks] ELSE fh

\* read(), and the block's hash goes to the cache; a block is padded with zeros.
WithNextBlock(fh) ==
  LET size == SizeOf(fh)
      done == fh.readed * BlockSize
      n == IF done + BlockSize <= size THEN BlockSize ELSE IF size > done THEN size - done ELSE 0
      block == [i \in 1 .. BlockSize |-> IF i <= n THEN files[fh.name].bytes[fh.at + i] ELSE 0]
  IN  [fh EXCEPT !.at = @ + n, !.readed = @ + 1, !.cache = Append(@, hash[block])]

\* The loop of readBlock, which adds a block a turn: after k + 1 of them it is over.
Filled(fh, k) ==
  LET filled[n \in 0 .. k + 1] ==
        IF n = 0 THEN fh
        ELSE LET before == filled[n - 1]
             IN  IF Len(before.cache) <= k /\ before.valid THEN WithNextBlock(before) ELSE before
  IN  filled[k + 1]

\* readBlock(k): the hasher after it; it gives the k-th hash if there is one.
AfterRead(fh, k) ==
  IF k < Len(fh.cache) \/ k * BlockSize >= SizeOf(fh) \/ ~fh.valid THEN fh
  ELSE Filled(Shifted(Opened(fh), Len(fh.cache)), k)

HasBlock(fh, k) == k < Len(fh.cache)

\* A turn of the loop of operator==, for block k.
Turn(w, k) ==
  LET l == AfterRead(w.lhs, k)
      r == AfterRead(w.rhs, k)
      both == HasBlock(l, k) /\ HasBlock(r, k)
  IN  IF w.over THEN w
      ELSE [lhs |-> l, rhs |-> r, over |-> ~both \/ l.cache[k + 1] # r.cache[k + 1], same |-> ~both]

\* The loop: no file has more blocks than bytes.
Walk(lhs, rhs) ==
  LET walk[n \in 0 .. SizeOf(lhs) + 1] ==
        IF n = 0 THEN [lhs |-> lhs, rhs |-> rhs, over |-> FALSE, same |-> TRUE] ELSE Turn(walk[n - 1], n - 1)
  IN  walk[SizeOf(lhs) + 1]

Equal(lhs, rhs) ==
  LET w == Walk(lhs, rhs)
  IN  IF SizeOf(lhs) # SizeOf(rhs) THEN [lhs |-> lhs, rhs |-> rhs, same |-> FALSE]
      ELSE [lhs |-> Closed(w.lhs), rhs |-> Closed(w.rhs), same |-> w.same]

-----------------------------------------------------------------------------
\* CompareFiles::compare.

\* A file is compared with the k-th of those listed unless it has equalled one.
Compared(s, k) ==
  LET cmp == Equal(s.cur, s.list[k].fh)
  IN  IF s.found THEN s
      ELSE [cur |-> cmp.lhs, list |-> [s.list EXCEPT ![k].fh = cmp.rhs], found |-> cmp.same, at |-> k]

Search(cur, list) ==
  LET search[n \in 0 .. Len(list)] ==
        IF n = 0 THEN [cur |-> cur, list |-> list, found |-> FALSE, at |-> 0] ELSE Compared(search[n - 1], n)
  IN  search[Len(list)]

HashersOf(size) == IF size \in DOMAIN hashers THEN hashers[size] ELSE <<>>

WithHashers(size, list) ==
  [s \in DOMAIN hashers \cup {size} |-> IF s = size THEN list ELSE hashers[s]]

\* A list of less than two files is answered at once.
StartCompare(list, h) ==
  /\ cmpAt = 0
  /\ files' = list /\ hash' = h
  /\ cmpAt' = IF Len(list) < 2 THEN Len(list) + 2 ELSE 1
  /\ UNCHANGED <<hashers, empty_files, duplicates>>

\* The body of the loop.
CompareFile ==
  /\ cmpAt \in DOMAIN files
  /\ cmpAt' = cmpAt + 1
  /\ UNCHANGED <<files, hash>>
  /\ LET fh == NewHasher(cmpAt)
         size == SizeOf(fh)
     IN  IF size = 0
           THEN empty_files' = empty_files \cup {cmpAt} /\ UNCHANGED <<hashers, duplicates>>
           ELSE \E search \in {Search(fh, HashersOf(size))} :
             LET group == search.list[search.at].group
             IN  /\ UNCHANGED empty_files
                 /\ hashers' = WithHashers(size,
                      IF ~search.found THEN Append(search.list, [group |-> NotInGroup, fh |-> search.cur])
                      ELSE IF group = NotInGroup THEN [search.list EXCEPT ![search.at].group = Len(duplicates) + 1]
                      ELSE search.list)
                 /\ duplicates' =
                      IF ~search.found THEN duplicates
                      ELSE IF group = NotInGroup
                        THEN Append(duplicates, {search.list[search.at].fh.name, cmpAt})
                        ELSE [duplicates EXCEPT ![group] = @ \cup {cmpAt}]

\* After the loop the empty files are a group of their own.
CompareEnd ==
  /\ cmpAt > 1 /\ cmpAt = Len(files) + 1
  /\ duplicates' = IF empty_files = {} THEN duplicates ELSE Append(duplicates, empty_files)
  /\ empty_files' = {}
  /\ cmpAt' = cmpAt + 1
  /\ UNCHANGED <<files, hash, hashers>>

CompareNext ==
  \/ \E n \in 0 .. MaxFiles, h \in Hashes :
       \E list \in [1 .. n -> [bytes : Contents, readable : BOOLEAN]] : StartCompare(list, h)
  \/ CompareFile
  \/ CompareEnd

CompareSpec == CompareInit /\ [][CompareNext]_cmpVars

-----------------------------------------------------------------------------

BlockOf(bytes, k) ==
  [i \in 1 .. BlockSize |-> IF k * BlockSize + i <= Len(bytes) THEN bytes[k * BlockSize + i] ELSE 0]

HashOf(f, k) == hash[BlockOf(f.bytes, k)]

\* The same size and the same sequence of the blocks' hashes: identical, in the task's words.
SameHashes(f, g) ==
  /\ Len(f.bytes) = Len(g.bytes)
  /\ \A k \in 0 .. Len(f.bytes) : k * BlockSize < Len(f.bytes) => HashOf(f, k) = HashOf(g, k)

NonEmpty == {f \in DOMAIN files : files[f].bytes # <<>>}

\* No two identical files that can be read are missed, and a group of files that
\* can be read is of identical ones, however the comparisons before filled the
\* caches and moved the streams; no file is in two groups, nor alone in one
\* (TASK.md:14, 50, 75 by file_hasher.cpp:47-67, 77-99; file_cmp.cpp:14-64).  The
\* code groups more than it should: a file that cannot be opened with any of its
\* size, and an empty file with none.
DuplicatesByTheBook ==
  cmpAt = Len(files) + 2 =>
    /\ \A f, g \in DOMAIN files :
         files[f].readable /\ files[g].readable /\ f # g /\ SameHashes(files[f], files[g]) =>
           \E i \in DOMAIN duplicates : {f, g} \subseteq duplicates[i]
    /\ \A i \in DOMAIN duplicates :
         /\ \A f, g \in duplicates[i] : Len(files[f].bytes) = Len(files[g].bytes)
         /\ (\A f \in duplicates[i] : files[f].readable) =>
              \A f, g \in duplicates[i] : SameHashes(files[f], files[g])
         /\ \A f \in duplicates[i] \cap NonEmpty : \E g \in duplicates[i] : g # f
         /\ \A j \in DOMAIN duplicates : i # j => duplicates[i] \cap duplicates[j] = {}
=============================================================================
