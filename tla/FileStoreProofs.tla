-------------------------- MODULE FileStoreProofs ---------------------------
(***************************************************************************)
(* Proofs about FileStore, for every block size, every bound and any set   *)
(* of instances: its three safety invariants, and that every file is the   *)
(* plain byte sequence of FileContents.                                    *)
(*                                                                         *)
(* Local(i) is what one instance keeps about its own store, its capture    *)
(* and its mapping; Arrays(i) is why sharing is harmless: a descriptor     *)
(* names an array of its own instance, or of one whose root is owned and   *)
(* which therefore never writes again.                                     *)
(***************************************************************************)
EXTENDS FileStore, SequenceTheorems, TLAPS

BlockMap == UNION {[D -> [array : Instance, valid : 0 .. BlockSize]] : D \in SUBSET Index}

File ==
  [size : 0 .. MaxSize, blocks : BlockMap, private : SUBSET Index, mapping : BOOLEAN,
   limit : 0 .. MaxSize, sealed : BOOLEAN]

Captures ==
  [requested : BOOLEAN, abandoned : BOOLEAN, bound : BOOLEAN, native : BOOLEAN,
   taken : BOOLEAN, stamp : [size : 0 .. MaxSize, blocks : BlockMap]]

Lives == {"unborn", "running", "ended", "sealed", "exited", "failed"}
Stages == {"idle", "finishing", "done"}

TypeOK ==
  /\ file \in [Instance -> File]
  /\ pc \in [Instance -> Lives]
  /\ mapped \subseteq Instance
  /\ capture \in [Instance -> Captures]
  /\ host \in [Instance -> Stages]
  /\ owned \subseteq Instance
  /\ ops \in Nat

(* A block begins before the end of the file and holds nothing behind it;  *)
(* borrowed pages are pages of the image.                                  *)
Layout(f) ==
  /\ \A b \in DOMAIN f.blocks :
       /\ b * BlockSize < f.size
       /\ b * BlockSize + f.blocks[b].valid <= f.size
  /\ f.private \subseteq DOMAIN f.blocks
  /\ f.limit <= f.size
  /\ f.limit <= Len(Image)

(* The storage of i follows its life.                                      *)
Storage(i) ==
  /\ file[i].mapping => i \in mapped /\ pc[i] \in {"running", "ended"}
  /\ file[i].sealed => pc[i] \in {"sealed", "exited"}
  /\ pc[i] = "sealed" => file[i].sealed
  /\ pc[i] \in {"unborn", "failed"} => file[i] = NewFileStore
  /\ pc[i] = "exited" => file[i] = NewFileStore \/ capture[i].native \/ i \in owned

(* A root is held by the capture until the host takes or discards it.      *)
Handover(i) ==
  /\ capture[i].native => host[i] = "finishing"
  /\ i \in owned => host[i] = "done"
  /\ capture[i].native \/ i \in owned =>
       /\ pc[i] = "exited"
       /\ file[i].sealed
       /\ Stamp(file[i]) = capture[i].stamp
  /\ capture[i].requested => host[i] # "idle"
  /\ capture[i].abandoned => host[i] = "done" /\ i \notin owned
  /\ host[i] = "done" => capture[i].abandoned \/ capture[i].taken
  /\ capture[i].taken => host[i] = "done"

Local(i) == Layout(file[i]) /\ Storage(i) /\ Handover(i)

(* A running store writes in place only what no one else can see.          *)
Arrays(i) ==
  \A b \in DOMAIN file[i].blocks :
    LET a == file[i].blocks[b].array IN
    /\ a = i \/ a \in owned
    /\ b \in file[i].private => a = i
    /\ a = i /\ pc[i] \in {"running", "ended"} => b \in file[i].private

StoreInvariant == TypeOK /\ \A i \in Instance : Local(i) /\ Arrays(i)

-----------------------------------------------------------------------------
(* Arithmetic of blocks                                                    *)

\* An offset is a block and a place within it.
LEMMA SplitOffset ==
  ASSUME NEW k \in Nat
  PROVE  /\ k \div BlockSize \in Nat /\ k % BlockSize \in Within
         /\ k = (k \div BlockSize) * BlockSize + (k % BlockSize)
<1> DEFINE d == BlockSize
           q == k \div d
           r == k - q * d
<1>1. d \in Nat \ {0}
  BY SizeAssumption
<1>2. q \in Nat /\ q * d <= k /\ k < q * d + d
  BY <1>1
<1>3. q * d \in Nat
  BY <1>1, <1>2
<1>4. r \in 0 .. d - 1 /\ k = q * d + r
  BY <1>1, <1>2, <1>3
<1>5. k % d = r
  BY <1>1, <1>2, <1>4
<1>6. q \in Nat /\ k % d \in 0 .. d - 1
  BY <1>2, <1>4, <1>5
<1>7. k = q * d + (k % d)
  BY <1>4, <1>5, Zenon
<1> QED
  BY <1>6, <1>7, Zenon DEF Within

\* ... in one way only.
LEMMA JoinOffset ==
  ASSUME NEW b \in Nat, NEW j \in Within
  PROVE  /\ b * BlockSize + j \in Nat
         /\ (b * BlockSize + j) \div BlockSize = b
         /\ (b * BlockSize + j) % BlockSize = j
BY SizeAssumption DEF Within

\* A block ends where the next one begins.
LEMMA NextBlock ==
  ASSUME NEW a \in Nat, NEW b \in Nat
  PROVE  /\ a * BlockSize \in Nat
         /\ a < b <=> a * BlockSize + BlockSize <= b * BlockSize
<1>1. BlockSize \in Nat \ {0}
  BY SizeAssumption
<1>2. a < b => (a + 1) * BlockSize <= b * BlockSize
  BY <1>1
<1>3. b <= a => b * BlockSize <= a * BlockSize
  BY <1>1
<1>4. (a + 1) * BlockSize = a * BlockSize + BlockSize
  BY <1>1
<1>5. a * BlockSize \in Nat /\ b * BlockSize \in Nat
  BY <1>1
<1> QED
  BY <1>1, <1>2, <1>3, <1>4, <1>5

\* The lesser of two.
LEMMA MinOf ==
  ASSUME NEW a \in Int, NEW b \in Int
  PROVE  Min({a, b}) = IF a <= b THEN a ELSE b
BY DEF Min

\* The greater of two.
LEMMA MaxOf ==
  ASSUME NEW a \in Int, NEW b \in Int
  PROVE  Max({a, b}) = IF a <= b THEN b ELSE a
BY DEF Max

\* A file has exactly the blocks that begin before its end.
LEMMA BlocksCover ==
  ASSUME NEW n \in Nat, NEW b \in Nat
  PROVE  Blocks(n) \in Nat /\ (b < Blocks(n) <=> b * BlockSize < n)
<1> DEFINE q == n \div BlockSize
           r == n % BlockSize
<1>1. q \in Nat /\ r \in Within /\ n = q * BlockSize + r
  BY SplitOffset, Zenon
<1>2. r \in Nat /\ r < BlockSize /\ BlockSize \in Nat
  BY <1>1, SizeAssumption DEF Within
<1>3. Blocks(n) = q + (IF r <= 1 THEN r ELSE 1)
  BY <1>2, MinOf, MaxOf DEF Blocks
<1>4. b * BlockSize \in Nat /\ q * BlockSize \in Nat
  BY <1>1, NextBlock
<1>5. b < q <=> b * BlockSize + BlockSize <= q * BlockSize
  BY <1>1, NextBlock
<1>6. q < b <=> q * BlockSize + BlockSize <= b * BlockSize
  BY <1>1, NextBlock
<1> HIDE DEF q, r
<1> QED
  BY <1>1, <1>2, <1>3, <1>4, <1>5, <1>6

\* The blocks a write touches are those it overlaps, and blocks of the file.
LEMMA TouchedOverlap ==
  ASSUME NEW off \in Nat, NEW p \in Seq(Byte), Len(p) >= 1, off + Len(p) <= MaxSize
  PROVE  /\ Touched(off, p) \subseteq Index
         /\ \A b \in Nat : b \in Touched(off, p)
              <=> b * BlockSize < off + Len(p) /\ off < b * BlockSize + BlockSize
<1> DEFINE e == off + Len(p) - 1
           m == MaxSize - 1
<1>1. e \in Nat /\ m \in Nat /\ e <= m /\ e + 1 = off + Len(p) /\ off <= e
  BY SizeAssumption
<1> HIDE DEF e, m
<1> DEFINE lo == off \div BlockSize
           hi == e \div BlockSize
           top == m \div BlockSize
<1>2. lo \in Nat /\ \E r \in Within : off = lo * BlockSize + r
  BY SplitOffset
<1>3. hi \in Nat /\ \E r \in Within : e = hi * BlockSize + r
  BY <1>1, SplitOffset
<1>4. top \in Nat /\ \E r \in Within : m = top * BlockSize + r
  BY <1>1, SplitOffset
<1>5. Touched(off, p) = lo .. hi /\ Index = 0 .. top
  BY DEF Touched, Index, e, m
<1> HIDE DEF lo, hi, top
<1>6. BlockSize \in Nat \ {0}
  BY SizeAssumption
<1>7. ASSUME NEW b \in Nat
      PROVE  /\ lo <= b <=> off < b * BlockSize + BlockSize
             /\ b <= hi <=> b * BlockSize <= e
             /\ b <= top <=> b * BlockSize <= m
  <2> DEFINE B == b * BlockSize
             L == lo * BlockSize
             H == hi * BlockSize
             T == top * BlockSize
  <2>1. B \in Nat /\ L \in Nat /\ H \in Nat /\ T \in Nat
    BY <1>2, <1>3, <1>4, NextBlock
  <2>2. /\ b < lo <=> B + BlockSize <= L
        /\ hi < b <=> H + BlockSize <= B
        /\ top < b <=> T + BlockSize <= B
    BY <1>2, <1>3, <1>4, NextBlock
  <2>3. /\ L <= off /\ off < L + BlockSize
        /\ H <= e /\ e < H + BlockSize
        /\ T <= m /\ m < T + BlockSize
    BY <1>2, <1>3, <1>4, <1>6, <2>1 DEF Within
  <2>4. b < lo <=> ~(off < B + BlockSize)
    <3>1. b < lo => ~(off < B + BlockSize)
      BY <1>6, <2>1, <2>2, <2>3
    <3>2. lo <= b => L <= B
      BY <1>2, NextBlock, <1>6, <2>1
    <3> HIDE DEF B, L
    <3> QED
      BY <1>2, <1>6, <2>1, <2>3, <3>1, <3>2
  <2> HIDE DEF B, L, H, T
  <2>5. hi < b <=> ~(B <= e)
    <3>2. b <= hi => B <= H
      BY <1>3, NextBlock, <1>6, <2>1 DEF B, H
    <3> QED
      BY <1>1, <1>3, <1>6, <2>1, <2>2, <2>3, <3>2
  <2>6. top < b <=> ~(B <= m)
    <3>2. b <= top => B <= T
      BY <1>4, NextBlock, <1>6, <2>1 DEF B, T
    <3> QED
      BY <1>1, <1>4, <1>6, <2>1, <2>2, <2>3, <3>2
  <2> QED
    BY <1>2, <1>3, <1>4, <2>4, <2>5, <2>6 DEF B
<1>8. hi <= top
  <2>1. hi * BlockSize <= e
    BY <1>3, <1>7
  <2> QED
    BY <1>1, <1>3, <1>7, <2>1, NextBlock
<1>9. ASSUME NEW b \in Nat
      PROVE  b \in Touched(off, p)
               <=> b * BlockSize < off + Len(p) /\ off < b * BlockSize + BlockSize
  <2>1. b * BlockSize \in Nat
    BY NextBlock
  <2>2. b * BlockSize <= e <=> b * BlockSize < off + Len(p)
    BY <1>1, <2>1
  <2> QED
    BY <1>2, <1>3, <1>5, <1>7, <2>2
<1> QED
  BY <1>2, <1>3, <1>4, <1>5, <1>8, <1>9

-----------------------------------------------------------------------------
(* Files                                                                   *)

\* NewFileStore is a file, and has nothing to be laid out.
LEMMA NewIsFile ==
  /\ << >> \in BlockMap /\ DOMAIN << >> = {}
  /\ NewFileStore \in File /\ Layout(NewFileStore)
  /\ Capture \in Captures
<1>1. DOMAIN << >> = {}
  OBVIOUS
<1>2. << >> = [b \in {} |-> 0]
  OBVIOUS
<1>3. << >> \in [{} -> [array : Instance, valid : 0 .. BlockSize]]
  BY <1>1, <1>2
<1>4. << >> \in BlockMap
  BY <1>3 DEF BlockMap
<1>5. 0 \in 0 .. MaxSize
  BY SizeAssumption
<1>6. NewFileStore \in File
  BY <1>4, <1>5 DEF NewFileStore, File
<1>7. Len(Image) \in Nat
  BY ImageAssumption
<1>8. Layout(NewFileStore)
  BY <1>1, <1>7 DEF NewFileStore, Layout
<1>9. Capture \in Captures
  BY <1>4, <1>5 DEF Capture, Captures, NoStamp
<1> QED
  BY <1>1, <1>4, <1>6, <1>8, <1>9

\* What a file consists of.
LEMMA FileParts ==
  ASSUME NEW f \in File
  PROVE  /\ f.size \in Nat /\ f.size <= MaxSize
         /\ f.limit \in Nat /\ f.limit <= MaxSize
         /\ DOMAIN f.blocks \subseteq Index
         /\ \A b \in DOMAIN f.blocks :
              /\ b \in Nat /\ b * BlockSize \in Nat
              /\ f.blocks[b].array \in Instance
              /\ f.blocks[b].valid \in Nat /\ f.blocks[b].valid <= BlockSize
<1>1. /\ f.size \in 0 .. MaxSize /\ f.limit \in 0 .. MaxSize /\ f.blocks \in BlockMap
  BY DEF File
<1>2. PICK D \in SUBSET Index : f.blocks \in [D -> [array : Instance, valid : 0 .. BlockSize]]
  BY <1>1 DEF BlockMap
<1>3. Index \subseteq Nat
  BY DEF Index
<1>4. \A b \in DOMAIN f.blocks : b \in Nat /\ b * BlockSize \in Nat
  BY <1>2, <1>3, NextBlock
<1> QED
  BY <1>1, <1>2, <1>4, SizeAssumption

\* Functions on some blocks, with descriptors for values, are block maps.
LEMMA BlockMapIntro ==
  ASSUME NEW D \in SUBSET Index, NEW g,
         g \in [D -> [array : Instance, valid : 0 .. BlockSize]]
  PROVE  g \in BlockMap
BY DEF BlockMap

\* The layout is what Root.Check asks for.
LEMMA LayoutIsSound ==
  ASSUME NEW f \in File, Layout(f), f.sealed, ~f.mapping
  PROVE  Sound(f)
<1>1. ASSUME NEW b \in DOMAIN f.blocks
      PROVE  b < Blocks(f.size) /\ f.blocks[b].valid \in 0 .. BlockSize
  <2>1. /\ b \in Nat /\ f.size \in Nat
        /\ f.blocks[b].valid \in Nat /\ f.blocks[b].valid <= BlockSize
    BY FileParts
  <2>2. b * BlockSize < f.size
    BY DEF Layout
  <2> QED
    BY <2>1, <2>2, BlocksCover, SizeAssumption
<1> QED
  BY <1>1 DEF Sound

\* A child starts from the blocks of its root.
LEMMA ForkIsFile ==
  ASSUME NEW f \in File, Layout(f)
  PROVE  Fork(f) \in File /\ Layout(Fork(f))
<1>1. /\ Fork(f).size = f.size /\ Fork(f).blocks = f.blocks
      /\ Fork(f).private = NewFileStore.private /\ Fork(f).mapping = NewFileStore.mapping
      /\ Fork(f).limit = NewFileStore.limit /\ Fork(f).sealed = NewFileStore.sealed
  BY NewIsFile DEF Fork, File
<1>2. NewFileStore.private = {} /\ NewFileStore.limit = 0
  BY DEF NewFileStore
<1>3. Fork(f) \in File
  BY NewIsFile DEF Fork, File
<1>4. Layout(Fork(f))
  BY <1>1, <1>2, FileParts, ImageAssumption DEF Layout
<1> QED
  BY <1>3, <1>4

\* What a mapped start begins with.
MappedFile ==
  [NewFileStore EXCEPT !.mapping = Image # << >>, !.size = Len(Image), !.limit = Len(Image)]

\* It is a file with the image behind it and no block of its own.
LEMMA MappedIsFile == MappedFile \in File /\ Layout(MappedFile)
<1>1. /\ MappedFile.size = Len(Image) /\ MappedFile.limit = Len(Image)
      /\ MappedFile.blocks = NewFileStore.blocks /\ MappedFile.private = NewFileStore.private
  BY NewIsFile DEF MappedFile, File
<1>2. NewFileStore.private = {} /\ NewFileStore.blocks = << >>
  BY DEF NewFileStore
<1>5. Len(Image) \in 0 .. MaxSize
  BY ImageAssumption, SizeAssumption
<1>3. MappedFile \in File
  BY <1>5, NewIsFile DEF MappedFile, File
<1>4. Layout(MappedFile)
  BY <1>1, <1>2, <1>5, NewIsFile DEF Layout
<1> QED
  BY <1>3, <1>4

\* A resize cuts off what begins behind the new end and hides what lies behind
\* it in the boundary block.
Resized(f, n) == IF n < f.size THEN Shrunk(f, n) ELSE [f EXCEPT !.size = n]

\* A file that was cut off is a file, with as much of the image as its new length.
LEMMA ShrunkIsFile ==
  ASSUME NEW f \in File, Layout(f), NEW n \in Nat, n < f.size
  PROVE  /\ Shrunk(f, n) \in File /\ Layout(Shrunk(f, n))
         /\ Shrunk(f, n).size = n
         /\ Shrunk(f, n).mapping = f.mapping /\ Shrunk(f, n).sealed = f.sealed
         /\ Shrunk(f, n).limit = (IF f.limit <= n THEN f.limit ELSE n)
         /\ DOMAIN Shrunk(f, n).blocks = {b \in DOMAIN f.blocks : b * BlockSize < n}
         /\ \A b \in DOMAIN Shrunk(f, n).blocks :
              /\ Shrunk(f, n).blocks[b].array = f.blocks[b].array
              /\ Shrunk(f, n).blocks[b].valid =
                   IF f.blocks[b].valid <= n - b * BlockSize
                   THEN f.blocks[b].valid ELSE n - b * BlockSize
         /\ Shrunk(f, n).private = f.private \cap DOMAIN Shrunk(f, n).blocks
<1> DEFINE kept == {b \in DOMAIN f.blocks : b < Blocks(n)}
           cut(b) == IF b = n \div BlockSize
                     THEN [f.blocks[b] EXCEPT !.valid = Min({@, n % BlockSize})]
                     ELSE f.blocks[b]
           map == [b \in kept |-> cut(b)]
<1>1. /\ f.size \in Nat /\ f.size <= MaxSize /\ f.limit \in Nat /\ f.limit <= MaxSize
      /\ DOMAIN f.blocks \subseteq Index
  BY FileParts
<1>2. \A b \in DOMAIN f.blocks : b \in Nat /\ b * BlockSize \in Nat
  BY FileParts
<1>3. kept = {b \in DOMAIN f.blocks : b * BlockSize < n}
  BY <1>2, BlocksCover
<1>4. ASSUME NEW b \in kept
      PROVE  /\ cut(b).array = f.blocks[b].array
             /\ cut(b) \in [array : Instance, valid : 0 .. BlockSize]
             /\ cut(b).valid = IF f.blocks[b].valid <= n - b * BlockSize
                               THEN f.blocks[b].valid ELSE n - b * BlockSize
  <2>1. /\ b \in Nat /\ b * BlockSize \in Nat /\ b * BlockSize < n
        /\ f.blocks[b].array \in Instance
        /\ f.blocks[b].valid \in Nat /\ f.blocks[b].valid <= BlockSize
    BY <1>3, FileParts
  <2>2. f.blocks[b] \in [array : Instance, valid : 0 .. BlockSize]
    BY DEF File, BlockMap
  <2> DEFINE q == n \div BlockSize
             r == n % BlockSize
  <2>3. q \in Nat /\ r \in 0 .. BlockSize - 1 /\ n = q * BlockSize + r
    BY SplitOffset DEF Within
  <2>4. BlockSize \in Nat \ {0} /\ q * BlockSize \in Nat
    BY <2>3, NextBlock, SizeAssumption
  <2>5. CASE b = q
    <3>1. cut(b) = [f.blocks[b] EXCEPT !.valid = Min({@, r})]
      BY <2>5
    <3>2. Min({f.blocks[b].valid, r}) = IF f.blocks[b].valid <= r THEN f.blocks[b].valid ELSE r
      BY <2>1, <2>3, MinOf, MaxOf
    <3>3. r = n - b * BlockSize
      BY <2>1, <2>3, <2>4, <2>5
    <3> HIDE DEF cut, r, q
    <3> QED
      BY <2>1, <2>2, <2>3, <2>4, <3>1, <3>2, <3>3
  <2>6. CASE b # q
    <3>1. cut(b) = f.blocks[b]
      BY <2>6
    <3>2. b < q
      <4> HIDE DEF q, r
      <4>1. q < b => q * BlockSize + BlockSize <= b * BlockSize
        BY <2>1, <2>3, NextBlock
      <4> QED
        BY <2>1, <2>3, <2>4, <2>6, <4>1
    <3>3. b * BlockSize + BlockSize <= q * BlockSize
      BY <2>1, <2>3, <3>2, NextBlock
    <3> HIDE DEF cut, r, q
    <3>4. BlockSize <= n - b * BlockSize
      BY <2>1, <2>3, <2>4, <3>3
    <3> QED
      BY <2>1, <2>2, <2>4, <3>1, <3>4
  <2> QED
    BY <2>5, <2>6
<1>5. /\ Shrunk(f, n) = [f EXCEPT !.blocks = map, !.private = f.private \cap kept,
                                   !.limit = Min({f.limit, n}), !.size = n]
      /\ Shrunk(f, n).size = n /\ Shrunk(f, n).blocks = map
      /\ Shrunk(f, n).private = f.private \cap kept
      /\ Shrunk(f, n).mapping = f.mapping /\ Shrunk(f, n).sealed = f.sealed
      /\ Shrunk(f, n).limit = Min({f.limit, n})
  <2>1. Shrunk(f, n) = [f EXCEPT !.blocks = map, !.private = f.private \cap kept,
                                 !.limit = Min({f.limit, n}), !.size = n]
    BY DEF Shrunk
  <2> HIDE DEF map, kept
  <2> QED
    BY <2>1 DEF File
<1>6. Min({f.limit, n}) = IF f.limit <= n THEN f.limit ELSE n
  BY <1>1, MinOf, MaxOf
<1> HIDE DEF cut, kept
<1>7. map \in BlockMap
  <2>1. map \in [kept -> [array : Instance, valid : 0 .. BlockSize]]
    BY <1>4
  <2>2. kept \in SUBSET Index
    BY <1>1, <1>3
  <2> HIDE DEF map
  <2> QED
    BY <2>1, <2>2, BlockMapIntro
<1>8. DOMAIN map = kept /\ \A b \in kept : map[b] = cut(b)
  OBVIOUS
<1> HIDE DEF map
<1>9. Shrunk(f, n) \in File
  <2>1. n \in 0 .. MaxSize /\ Min({f.limit, n}) \in 0 .. MaxSize
    BY <1>1, <1>6, SizeAssumption
  <2>2. f.private \cap kept \in SUBSET Index
    BY DEF File
  <2>3. Shrunk(f, n) = [f EXCEPT !.blocks = map, !.private = f.private \cap kept,
                                 !.limit = Min({f.limit, n}), !.size = n]
    BY <1>5
  <2> QED
    BY <1>7, <2>1, <2>2, <2>3 DEF File
<1>10. Layout(Shrunk(f, n))
  <2>1. ASSUME NEW b \in kept
        PROVE  b * BlockSize < n /\ b * BlockSize + map[b].valid <= n
    BY <1>2, <1>3, <1>4, <1>8, FileParts
  <2>2. f.private \cap kept \subseteq kept
    OBVIOUS
  <2>3. (IF f.limit <= n THEN f.limit ELSE n) <= n
    BY <1>1
  <2>4. (IF f.limit <= n THEN f.limit ELSE n) <= Len(Image)
    BY <1>1, ImageAssumption DEF Layout
  <2> QED
    BY <1>5, <1>6, <1>8, <2>1, <2>2, <2>3, <2>4 DEF Layout
<1> QED
  BY <1>3, <1>4, <1>5, <1>6, <1>8, <1>9, <1>10

\* ... and a growth adds nothing but holes.
LEMMA GrownIsFile ==
  ASSUME NEW f \in File, Layout(f), NEW n \in Nat, f.size <= n, n <= MaxSize
  PROVE  [f EXCEPT !.size = n] \in File /\ Layout([f EXCEPT !.size = n])
<1> DEFINE g == [f EXCEPT !.size = n]
<1>1. g \in File
  BY SizeAssumption DEF File
<1>2. /\ g.size = n /\ g.blocks = f.blocks /\ g.private = f.private /\ g.limit = f.limit
  BY DEF File
<1>3. Layout(g)
  BY <1>2, FileParts DEF Layout
<1> QED
  BY <1>1, <1>3

\* How much of a block that is not private a copy of it holds.
LEMMA ValidInFits ==
  ASSUME NEW f \in File, NEW b \in Nat
  PROVE  /\ ValidIn(f, b) \in 0 .. BlockSize
         /\ ValidIn(f, b) = IF f.size <= b * BlockSize THEN 0
                            ELSE IF BlockSize <= f.size - b * BlockSize THEN BlockSize
                            ELSE f.size - b * BlockSize
<1>1. f.size \in Nat /\ b * BlockSize \in Nat /\ BlockSize \in Nat \ {0}
  BY FileParts, NextBlock, SizeAssumption
<1> DEFINE rest == f.size - b * BlockSize
           m == IF 0 <= rest THEN rest ELSE 0
<1>2. rest \in Int
  BY <1>1
<1>3. Max({0, rest}) = m /\ m \in Int
  BY <1>2, MinOf, MaxOf
<1>4. Min({BlockSize, m}) = IF BlockSize <= m THEN BlockSize ELSE m
  BY <1>1, <1>3, MinOf, MaxOf
<1>5. ValidIn(f, b) = IF BlockSize <= m THEN BlockSize ELSE m
  BY <1>3, <1>4 DEF ValidIn
<1> QED
  BY <1>1, <1>5

\* What a write of p at off covers of a block that it touches.
LEMMA CoveredPart ==
  ASSUME NEW off \in Nat, NEW p \in Seq(Byte), Len(p) >= 1, off + Len(p) <= MaxSize,
         NEW b \in Touched(off, p)
  PROVE  /\ b \in Nat /\ b * BlockSize \in Nat
         /\ First(off, b) = IF off <= b * BlockSize THEN 0 ELSE off - b * BlockSize
         /\ Last(off, p, b) = IF BlockSize <= off + Len(p) - b * BlockSize THEN BlockSize
                              ELSE off + Len(p) - b * BlockSize
         /\ First(off, b) \in Nat /\ Last(off, p, b) \in Nat
         /\ First(off, b) < Last(off, p, b) /\ Last(off, p, b) <= BlockSize
<1>1. b \in Nat
  BY TouchedOverlap DEF Index
<1>2. b * BlockSize < off + Len(p) /\ off < b * BlockSize + BlockSize
  BY <1>1, TouchedOverlap
<1> DEFINE B == b * BlockSize
<1>3. B \in Nat /\ BlockSize \in Nat \ {0} /\ Len(p) \in Nat
  BY <1>1, NextBlock, SizeAssumption
<1>4. Max({off - B, 0}) = IF off - B <= 0 THEN 0 ELSE off - B
  BY <1>3, MinOf, MaxOf
<1>5. Min({off + Len(p) - B, BlockSize})
        = IF off + Len(p) - B <= BlockSize THEN off + Len(p) - B ELSE BlockSize
  BY <1>3, MinOf, MaxOf
<1> HIDE DEF B
<1>6. First(off, b) = (IF off - B <= 0 THEN 0 ELSE off - B)
  BY <1>4 DEF First, B
<1>7. Last(off, p, b) = (IF off + Len(p) - B <= BlockSize THEN off + Len(p) - B ELSE BlockSize)
  BY <1>5 DEF Last, B
<1>8. B < off + Len(p) /\ off < B + BlockSize
  BY <1>2 DEF B
<1>9. /\ First(off, b) = IF off <= B THEN 0 ELSE off - B
      /\ Last(off, p, b) = IF BlockSize <= off + Len(p) - B THEN BlockSize ELSE off + Len(p) - B
      /\ First(off, b) \in Nat /\ Last(off, p, b) \in Nat
      /\ First(off, b) < Last(off, p, b) /\ Last(off, p, b) <= BlockSize
  BY <1>3, <1>6, <1>7, <1>8
<1> QED
  BY <1>1, <1>3, <1>9 DEF B

\* What WriteAt makes of the file of i.
Before(i, b) == IF b \in file[i].private THEN file[i].blocks[b].valid ELSE ValidIn(file[i], b)

WrittenMap(i, off, p) ==
  [b \in DOMAIN file[i].blocks \cup Touched(off, p) |->
     IF b \in Touched(off, p)
     THEN [array |-> Writable(i, b).array, valid |-> Max({Writable(i, b).valid, Last(off, p, b)})]
     ELSE file[i].blocks[b]]

WrittenFile(i, off, p) ==
  [file[i] EXCEPT !.blocks = WrittenMap(i, off, p),
                  !.private = @ \cup Touched(off, p),
                  !.size = Max({@, off + Len(p)})]

\* What a write makes of a file: a file of its own arrays where it was touched, as long
\* as the written bytes need.
Wrote(i, off, p) ==
  LET f == file[i]
      g == WrittenFile(i, off, p)
  IN /\ g \in File /\ Layout(g)
     /\ g.size = (IF f.size <= off + Len(p) THEN off + Len(p) ELSE f.size)
     /\ g.mapping = f.mapping /\ g.sealed = f.sealed /\ g.limit = f.limit
     /\ g.private = f.private \cup Touched(off, p)
     /\ DOMAIN g.blocks = DOMAIN f.blocks \cup Touched(off, p)
     /\ \A b \in Touched(off, p) :
          /\ Writable(i, b).array = i
          /\ Writable(i, b).valid = Before(i, b) /\ Before(i, b) \in 0 .. BlockSize
          /\ Before(i, b) = 0 \/ b * BlockSize + Before(i, b) <= f.size
          /\ g.blocks[b].array = i
          /\ g.blocks[b].valid = IF Before(i, b) <= Last(off, p, b)
                                 THEN Last(off, p, b) ELSE Before(i, b)
     /\ \A b \in DOMAIN f.blocks \ Touched(off, p) : g.blocks[b] = f.blocks[b]

\* A file that was written to is a file that reads as the bytes put into it.
LEMMA WrittenIsFile ==
  ASSUME TypeOK, NEW i \in Instance, Layout(file[i]), Arrays(i),
         NEW off \in Nat, NEW p \in Seq(Byte), Len(p) >= 1, off + Len(p) <= MaxSize
  PROVE  Wrote(i, off, p)
<1> DEFINE f == file[i]
           g == WrittenFile(i, off, p)
           map == WrittenMap(i, off, p)
           T == Touched(off, p)
           end == off + Len(p)
           size == IF f.size <= end THEN end ELSE f.size
           extent(b) == IF Before(i, b) <= Last(off, p, b) THEN Last(off, p, b) ELSE Before(i, b)
<1>1. f \in File
  BY DEF TypeOK
<1>2. /\ f.size \in Nat /\ f.size <= MaxSize /\ DOMAIN f.blocks \subseteq Index
      /\ f.limit \in Nat
  BY <1>1, FileParts
<1>3. end \in Nat /\ end <= MaxSize /\ BlockSize \in Nat \ {0}
  BY SizeAssumption
<1>4. Max({f.size, end}) = size
  BY <1>2, <1>3, MinOf, MaxOf
<1>5. ASSUME NEW b \in T
      PROVE  /\ Writable(i, b).array = i
             /\ Writable(i, b).valid = Before(i, b)
             /\ Before(i, b) \in 0 .. BlockSize
             /\ Before(i, b) = 0 \/ b * BlockSize + Before(i, b) <= f.size
  <2>1. CASE b \in f.private
    <3>1. b \in DOMAIN f.blocks
      BY <2>1 DEF Layout
    <3>2. /\ f.blocks[b].valid \in 0 .. BlockSize /\ f.blocks[b].array = i
          /\ b * BlockSize + f.blocks[b].valid <= f.size
      BY <1>1, <1>3, <2>1, <3>1, FileParts DEF Arrays, Layout
    <3>3. Writable(i, b).array = f.blocks[b].array /\ Writable(i, b).valid = f.blocks[b].valid
      BY <2>1 DEF Writable
    <3> QED
      BY <2>1, <3>2, <3>3 DEF Before
  <2>2. CASE b \notin f.private
    <3>1. b \in Nat /\ b * BlockSize \in Nat
      BY CoveredPart
    <3>2. Writable(i, b).array = i /\ Writable(i, b).valid = ValidIn(f, b)
      BY <2>2 DEF Writable
    <3>3. /\ ValidIn(f, b) \in 0 .. BlockSize
          /\ ValidIn(f, b) = 0 \/ b * BlockSize + ValidIn(f, b) <= f.size
      BY <1>1, <1>2, <1>3, <3>1, ValidInFits
    <3> QED
      BY <2>2, <3>2, <3>3 DEF Before
  <2> QED
    BY <2>1, <2>2
<1> HIDE DEF f, size
<1>6. ASSUME NEW b \in T
      PROVE  /\ map[b] = [array |-> i, valid |-> extent(b)]
             /\ map[b] \in [array : Instance, valid : 0 .. BlockSize]
             /\ b * BlockSize < size /\ b * BlockSize + map[b].valid <= size
  <2>1. /\ b * BlockSize \in Nat /\ Last(off, p, b) \in Nat
        /\ Last(off, p, b) <= BlockSize /\ b * BlockSize + Last(off, p, b) <= end
        /\ 0 < Last(off, p, b)
    BY CoveredPart, <1>3
  <2>2. Before(i, b) \in 0 .. BlockSize
    BY <1>5
  <2>3. Max({Before(i, b), Last(off, p, b)}) = extent(b)
    BY <2>1, <2>2, <1>3, MinOf, MaxOf
  <2>4. map[b] = [array |-> i, valid |-> extent(b)]
    BY <1>5, <2>3 DEF WrittenMap
  <2>5. end <= size /\ f.size <= size /\ size \in Nat
    BY <1>2, <1>3 DEF size
  <2>6. extent(b) \in 0 .. BlockSize /\ b * BlockSize < size /\ b * BlockSize + extent(b) <= size
    BY <1>2, <1>3, <1>5, <2>1, <2>2, <2>5 DEF f
  <2> HIDE DEF extent, map
  <2> QED
    BY <2>4, <2>6
<1> HIDE DEF T
<1>7. DOMAIN map = DOMAIN f.blocks \cup T /\ \A b \in DOMAIN f.blocks \ T : map[b] = f.blocks[b]
  BY DEF WrittenMap, f, T
<1> HIDE DEF map, extent
<1>8. T \subseteq Index
  BY TouchedOverlap DEF T
<1>9. map \in BlockMap
  <2> DEFINE R == [array : Instance, valid : 0 .. BlockSize]
  <2>1. ASSUME NEW b \in DOMAIN f.blocks \cup T PROVE map[b] \in R
    <3>1. CASE b \in T
      BY <1>6, <3>1
    <3>2. CASE b \notin T
      <4>1. f.blocks[b] \in R
        BY <1>1, <3>2 DEF File, BlockMap
      <4> QED
        BY <1>7, <3>2, <4>1
    <3> QED
      BY <3>1, <3>2
  <2>2. map = [b \in DOMAIN f.blocks \cup T |-> map[b]]
    BY <1>7 DEF map, WrittenMap
  <2> HIDE DEF R
  <2>3. map \in [DOMAIN f.blocks \cup T -> R]
    BY <2>1, <2>2
  <2>4. DOMAIN f.blocks \cup T \in SUBSET Index
    BY <1>2, <1>8
  <2> QED
    BY <2>3, <2>4, BlockMapIntro DEF R
<1>10. g = [f EXCEPT !.blocks = map, !.private = f.private \cup T, !.size = size]
  BY <1>4 DEF WrittenFile, f, map, T
<1>11. /\ g.size = size /\ g.blocks = map /\ g.private = f.private \cup T
       /\ g.mapping = f.mapping /\ g.sealed = f.sealed /\ g.limit = f.limit
  BY <1>1, <1>10 DEF File
<1>12. size \in 0 .. MaxSize /\ f.size <= size
  BY <1>2, <1>3, SizeAssumption DEF size
<1>13. g \in File
  <2>1. f.private \cup T \in SUBSET Index
    BY <1>1, <1>8 DEF File
  <2> QED
    BY <1>1, <1>9, <1>10, <1>12, <2>1 DEF File
<1>14. Layout(g)
  <2>1. ASSUME NEW b \in DOMAIN f.blocks \cup T
        PROVE  b * BlockSize < size /\ b * BlockSize + map[b].valid <= size
    <3>1. CASE b \in T
      BY <1>6, <3>1
    <3>2. CASE b \notin T
      <4>1. /\ b * BlockSize < f.size /\ b * BlockSize + f.blocks[b].valid <= f.size
            /\ b * BlockSize \in Nat /\ f.blocks[b].valid \in Nat
        BY <1>1, <3>2, FileParts DEF Layout, f
      <4> QED
        BY <1>2, <1>7, <1>12, <3>2, <4>1
    <3> QED
      BY <3>1, <3>2
  <2>2. f.private \cup T \subseteq DOMAIN f.blocks \cup T
    BY DEF Layout, f
  <2>3. f.limit <= size /\ f.limit <= Len(Image)
    BY <1>2, <1>12 DEF Layout, f
  <2> QED
    BY <1>7, <1>11, <2>1, <2>2, <2>3 DEF Layout
<1>15. size = (IF f.size <= off + Len(p) THEN off + Len(p) ELSE f.size)
  BY DEF size
<1> HIDE DEF g
<1> QED
  BY <1>5, <1>6, <1>7, <1>11, <1>13, <1>14, <1>15 DEF Wrote, f, g, T, extent

\* What Seal makes of the file of i, and of the blocks it copies.
Copied(f) ==
  IF f.mapping THEN {b \in Index : b * BlockSize < Min({f.limit, f.size})} \ DOMAIN f.blocks
  ELSE {}

SealedFile(f, i) ==
  [f EXCEPT !.blocks = [b \in DOMAIN f.blocks \cup Copied(f) |->
               IF b \in Copied(f) THEN [array |-> i, valid |-> ValidIn(f, b)] ELSE f.blocks[b]],
            !.mapping = FALSE, !.limit = 0, !.sealed = TRUE, !.private = {}]

\* A sealed file is a file of the same size that needs the image no longer.
LEMMA SealedIsFile ==
  ASSUME NEW i \in Instance, NEW f \in File, Layout(f)
  PROVE  /\ SealedFile(f, i) \in File /\ Layout(SealedFile(f, i))
         /\ SealedFile(f, i).size = f.size /\ SealedFile(f, i).sealed = TRUE
         /\ SealedFile(f, i).mapping = FALSE /\ SealedFile(f, i).private = {}
         /\ DOMAIN SealedFile(f, i).blocks = DOMAIN f.blocks \cup Copied(f)
         /\ \A b \in Copied(f) :
              /\ b \in Index /\ b \notin DOMAIN f.blocks /\ b * BlockSize < f.size
              /\ SealedFile(f, i).blocks[b].array = i
              /\ SealedFile(f, i).blocks[b].valid = ValidIn(f, b)
         /\ \A b \in DOMAIN f.blocks : SealedFile(f, i).blocks[b] = f.blocks[b]
         /\ \A b \in DOMAIN SealedFile(f, i).blocks :
              SealedFile(f, i).blocks[b].array = i \/ b \in DOMAIN f.blocks
<1> DEFINE g == SealedFile(f, i)
           C == Copied(f)
           R == [array : Instance, valid : 0 .. BlockSize]
           map == [b \in DOMAIN f.blocks \cup C |->
                     IF b \in C THEN [array |-> i, valid |-> ValidIn(f, b)] ELSE f.blocks[b]]
<1>1. /\ f.size \in Nat /\ f.size <= MaxSize /\ DOMAIN f.blocks \subseteq Index
      /\ f.limit \in Nat
  BY FileParts
<1>2. Min({f.limit, f.size}) = IF f.limit <= f.size THEN f.limit ELSE f.size
  BY <1>1, MinOf
<1>3. ASSUME NEW b \in C
      PROVE  /\ b \in Index /\ b \in Nat /\ b \notin DOMAIN f.blocks
             /\ b * BlockSize \in Nat /\ b * BlockSize < f.size
  <2>1. b \in Index /\ b \notin DOMAIN f.blocks /\ b * BlockSize < Min({f.limit, f.size})
    BY DEF Copied
  <2>2. b \in Nat /\ b * BlockSize \in Nat
    BY <2>1, NextBlock DEF Index
  <2> QED
    BY <1>1, <1>2, <2>1, <2>2
<1>4. ASSUME NEW b \in C
      PROVE  /\ ValidIn(f, b) \in 0 .. BlockSize
             /\ b * BlockSize + ValidIn(f, b) <= f.size
  BY <1>1, <1>3, ValidInFits, SizeAssumption
<1> HIDE DEF C
<1>5. /\ DOMAIN map = DOMAIN f.blocks \cup C
      /\ \A b \in C : map[b] = [array |-> i, valid |-> ValidIn(f, b)]
      /\ \A b \in DOMAIN f.blocks : map[b] = f.blocks[b]
  BY <1>3
<1>6. map \in BlockMap
  <2>1. \A b \in DOMAIN f.blocks : f.blocks[b] \in R
    BY DEF File, BlockMap
  <2>2. \A b \in DOMAIN f.blocks \cup C : map[b] \in R
    BY <1>4, <1>5, <2>1
  <2>3. map \in [DOMAIN f.blocks \cup C -> R]
    <3> HIDE DEF R
    <3>1. map = [b \in DOMAIN f.blocks \cup C |-> map[b]]
      OBVIOUS
    <3> QED
      BY <2>2, <3>1
  <2>4. DOMAIN f.blocks \cup C \in SUBSET Index
    BY <1>1, <1>3
  <2> HIDE DEF map
  <2> QED
    BY <2>3, <2>4, BlockMapIntro
<1>7. g = [f EXCEPT !.blocks = map, !.mapping = FALSE, !.limit = 0, !.sealed = TRUE,
                    !.private = {}]
  BY DEF SealedFile, C
<1> HIDE DEF map, g
<1>8. /\ g.size = f.size /\ g.blocks = map /\ g.private = {} /\ g.limit = 0
      /\ g.mapping = FALSE /\ g.sealed = TRUE
  BY <1>7 DEF File
<1>9. g \in File
  <2>1. 0 \in 0 .. MaxSize /\ {} \in SUBSET Index
    BY SizeAssumption
  <2> QED
    BY <1>6, <1>7, <2>1 DEF File
<1>10. Layout(g)
  <2>1. ASSUME NEW b \in DOMAIN f.blocks \cup C
        PROVE  b * BlockSize < f.size /\ b * BlockSize + map[b].valid <= f.size
    BY <1>3, <1>4, <1>5 DEF Layout
  <2> QED
    BY <1>1, <1>5, <1>8, <2>1, ImageAssumption DEF Layout
<1> QED
  BY <1>3, <1>5, <1>8, <1>9, <1>10 DEF g, C

-----------------------------------------------------------------------------
(* The invariant                                                           *)

\* A step of one instance leaves the others as they are: what they rely on is
\* theirs, and a root, once owned, stays owned.
LEMMA OneStore ==
  ASSUME StoreInvariant, NEW i \in Instance,
         NEW f \in File, file' = [file EXCEPT ![i] = f],
         NEW s \in Lives, pc' = [pc EXCEPT ![i] = s],
         NEW c \in Captures, capture' = [capture EXCEPT ![i] = c],
         NEW h \in Stages, host' = [host EXCEPT ![i] = h],
         mapped' \in {mapped, mapped \cup {i}, mapped \ {i}},
         owned' \in {owned, owned \cup {i}},
         ops' \in Nat,
         Local(i)', Arrays(i)'
  PROVE  StoreInvariant'
<1>1. TypeOK
  BY DEF StoreInvariant
<1>2. TypeOK'
  BY <1>1 DEF TypeOK
<1>3. ASSUME NEW j \in Instance, j # i
      PROVE  Local(j)' /\ Arrays(j)'
  <2>1. /\ file'[j] = file[j] /\ pc'[j] = pc[j] /\ capture'[j] = capture[j]
        /\ host'[j] = host[j] /\ (j \in mapped' <=> j \in mapped)
        /\ (j \in owned' <=> j \in owned) /\ owned \subseteq owned'
    BY <1>1, <1>3 DEF TypeOK
  <2>2. Local(j) /\ Arrays(j)
    BY DEF StoreInvariant
  <2>3. Layout(file[j])' /\ Storage(j)' /\ Handover(j)'
    BY <2>1, <2>2 DEF Local, Layout, Storage, Handover, Stamp
  <2>4. Arrays(j)'
    BY <2>1, <2>2 DEF Arrays
  <2> QED
    BY <2>3, <2>4 DEF Local
<1> QED
  BY <1>2, <1>3 DEF StoreInvariant

\* Initially no instance has begun.
LEMMA InitStoreInvariant == Init => StoreInvariant
<1> SUFFICES ASSUME Init PROVE StoreInvariant
  OBVIOUS
<1>1. TypeOK
  BY NewIsFile DEF Init, TypeOK, Lives, Stages
<1>2. ASSUME NEW i \in Instance PROVE Local(i) /\ Arrays(i)
  <2>1. /\ file[i] = NewFileStore /\ pc[i] = "unborn" /\ capture[i] = Capture
        /\ host[i] = "idle" /\ owned = {}
    BY DEF Init
  <2>2. Layout(file[i])
    BY <2>1, NewIsFile
  <2>3. Storage(i)
    BY <2>1 DEF Storage, NewFileStore
  <2>4. Handover(i)
    BY <2>1 DEF Handover, Capture
  <2>5. Arrays(i)
    BY <2>1, NewIsFile DEF Arrays, NewFileStore
  <2> QED
    BY <2>2, <2>3, <2>4, <2>5 DEF Local
<1> QED
  BY <1>1, <1>2 DEF StoreInvariant

\* The parts of the invariant that a step of i begins from.
LEMMA Parts ==
  ASSUME StoreInvariant, NEW i \in Instance
  PROVE  /\ TypeOK /\ file[i] \in File /\ pc[i] \in Lives /\ capture[i] \in Captures
         /\ host[i] \in Stages /\ ops \in Nat
         /\ Layout(file[i]) /\ Storage(i) /\ Handover(i) /\ Arrays(i)
         /\ file = [file EXCEPT ![i] = file[i]] /\ pc = [pc EXCEPT ![i] = pc[i]]
         /\ capture = [capture EXCEPT ![i] = capture[i]] /\ host = [host EXCEPT ![i] = host[i]]
<1>1. TypeOK /\ Local(i) /\ Arrays(i)
  BY DEF StoreInvariant
<1> QED
  BY <1>1 DEF TypeOK, Local

\* startInstance: the arrays of the file it begins with belong to owned roots.
LEMMA BeginKeeps ==
  ASSUME StoreInvariant, NEW i \in Instance,
         NEW f \in File, Layout(f), f.private = {}, ~f.sealed, Begin(i, f),
         \A b \in DOMAIN f.blocks : f.blocks[b].array \in owned,
         mapped' \in {mapped, mapped \cup {i}}, f.mapping => i \in mapped'
  PROVE  StoreInvariant'
<1> DEFINE c == [capture[i] EXCEPT !.bound = TRUE]
<1>1. TypeOK /\ pc[i] = "unborn" /\ ops \in Nat
  BY Parts DEF Begin
<1>2. /\ file' = [file EXCEPT ![i] = f] /\ pc' = [pc EXCEPT ![i] = "running"]
      /\ capture' = [capture EXCEPT ![i] = c] /\ host' = [host EXCEPT ![i] = host[i]]
      /\ owned' = owned /\ ops' = ops
  BY Parts DEF Begin
<1>3. c \in Captures /\ c.native = capture[i].native /\ c.requested = capture[i].requested
      /\ c.abandoned = capture[i].abandoned /\ c.taken = capture[i].taken
  BY Parts DEF Captures
<1> HIDE DEF c
<1>4. file'[i] = f /\ pc'[i] = "running" /\ capture'[i] = c /\ host'[i] = host[i]
  BY <1>1, <1>2 DEF TypeOK
<1>5. \A r \in owned : pc[r] = "exited"
  BY DEF StoreInvariant, TypeOK, Local, Handover
<1>6. i \notin owned
  BY <1>1, <1>5
<1>7. ~capture[i].native
  BY <1>1, Parts DEF Handover
<1>8. Storage(i)'
  BY <1>4 DEF Storage
<1>9. Handover(i)'
  BY <1>2, <1>3, <1>4, <1>6, <1>7, Parts DEF Handover
<1>10. Arrays(i)'
  BY <1>2, <1>4, <1>6 DEF Arrays
<1>11. Local(i)'
  BY <1>4, <1>8, <1>9 DEF Local
<1>12. "running" \in Lives /\ host[i] \in Stages
  BY Parts DEF Lives
<1> QED
  BY <1>1, <1>2, <1>3, <1>10, <1>11, <1>12, OneStore

\* An instance that ends without a root drops its storage.
LEMMA ExitKeeps ==
  ASSUME StoreInvariant, NEW i \in Instance, pc[i] \in {"running", "ended", "sealed"},
         NEW how \in {"exited", "failed"}, Exit(i, how, FALSE),
         UNCHANGED <<capture, host, owned, ops>>
  PROVE  StoreInvariant'
<1>1. TypeOK /\ ops' \in Nat
  BY Parts
<1>2. /\ file' = [file EXCEPT ![i] = NewFileStore] /\ pc' = [pc EXCEPT ![i] = how]
      /\ capture' = [capture EXCEPT ![i] = capture[i]] /\ host' = [host EXCEPT ![i] = host[i]]
      /\ owned' = owned /\ mapped' = mapped \ {i}
  BY Parts DEF Exit
<1>3. /\ file'[i] = NewFileStore /\ pc'[i] = how /\ capture'[i] = capture[i]
      /\ host'[i] = host[i]
  BY <1>1, <1>2 DEF TypeOK
<1>4. ~capture[i].native /\ i \notin owned
  BY Parts DEF Handover
<1>5. Storage(i)'
  BY <1>3 DEF Storage, NewFileStore
<1>6. Handover(i)'
  BY <1>2, <1>3, <1>4, Parts DEF Handover
<1>7. Arrays(i)'
  BY <1>3, NewIsFile DEF Arrays, NewFileStore
<1>8. Local(i)'
  BY <1>3, <1>5, <1>6, NewIsFile DEF Local
<1>9. how \in Lives
  BY DEF Lives
<1> QED
  BY <1>1, <1>2, <1>7, <1>8, <1>9, NewIsFile, Parts, OneStore

\* A write leaves the blocks it touches private, in arrays of its own.
LEMMA WriteKeeps ==
  ASSUME StoreInvariant, NEW i \in Instance,
         NEW off \in Nat, NEW p \in Seq(Byte), Len(p) >= 1, off + Len(p) <= MaxSize,
         WriteAt(i, off, p)
  PROVE  StoreInvariant'
<1> DEFINE g == WrittenFile(i, off, p)
<1>1. TypeOK /\ ops' \in Nat /\ pc[i] = "running" /\ ~file[i].sealed
  <2>1. Mutates /\ pc[i] = "running" /\ ~file[i].sealed
    BY Zenon DEF WriteAt
  <2> QED
    BY <2>1, Parts DEF Mutates
<1>2. /\ file' = [file EXCEPT ![i] = g] /\ pc' = [pc EXCEPT ![i] = pc[i]]
      /\ capture' = [capture EXCEPT ![i] = capture[i]] /\ host' = [host EXCEPT ![i] = host[i]]
      /\ owned' = owned /\ mapped' = mapped
  <2>1. file' = [file EXCEPT ![i] = g]
    BY <1>1 DEF WriteAt, WrittenFile, WrittenMap, TypeOK
  <2> QED
    BY <2>1, Parts DEF WriteAt
<1>3. /\ g \in File /\ Layout(g) /\ g.mapping = file[i].mapping /\ g.sealed = file[i].sealed
      /\ g.private = file[i].private \cup Touched(off, p)
      /\ DOMAIN g.blocks = DOMAIN file[i].blocks \cup Touched(off, p)
      /\ \A b \in Touched(off, p) : g.blocks[b].array = i
      /\ \A b \in DOMAIN file[i].blocks \ Touched(off, p) : g.blocks[b] = file[i].blocks[b]
  <2>1. Layout(file[i]) /\ Arrays(i)
    BY Parts
  <2>2. Wrote(i, off, p)
    BY <1>1, <2>1, WrittenIsFile
  <2> QED
    BY <2>2 DEF Wrote
<1> HIDE DEF g
<1>4. file'[i] = g /\ pc'[i] = "running" /\ capture'[i] = capture[i] /\ host'[i] = host[i]
  BY <1>1, <1>2 DEF TypeOK
<1>5. ~capture[i].native /\ i \notin owned
  BY <1>1, Parts DEF Handover
<1>6. Storage(i)'
  BY <1>1, <1>2, <1>3, <1>4, Parts DEF Storage
<1>7. Handover(i)'
  BY <1>2, <1>4, <1>5, Parts DEF Handover
<1>8. Arrays(i)'
  <2>1. Arrays(i)
    BY Parts
  <2> QED
    BY <1>1, <1>2, <1>3, <1>4, <2>1 DEF Arrays
<1>9. Local(i)'
  BY <1>3, <1>4, <1>6, <1>7 DEF Local
<1> QED
  BY <1>1, <1>2, <1>3, <1>8, <1>9, Parts, OneStore

\* A resize drops blocks or adds holes.
LEMMA ResizeKeeps ==
  ASSUME StoreInvariant, NEW i \in Instance, NEW n \in 0 .. MaxSize, Resize(i, n)
  PROVE  StoreInvariant'
<1> DEFINE f == file[i]
           g == Resized(f, n)
<1>1. TypeOK /\ ops' \in Nat /\ pc[i] = "running" /\ ~f.sealed
  <2>1. Mutates /\ pc[i] = "running" /\ ~file[i].sealed
    BY Zenon DEF Resize
  <2> QED
    BY <2>1, Parts DEF Mutates
<1>2. /\ file' = [file EXCEPT ![i] = g] /\ pc' = [pc EXCEPT ![i] = pc[i]]
      /\ capture' = [capture EXCEPT ![i] = capture[i]] /\ host' = [host EXCEPT ![i] = host[i]]
      /\ owned' = owned /\ mapped' = mapped
  BY Parts DEF Resize, Resized
<1>3. f \in File /\ Layout(f) /\ f.size \in Nat /\ n \in Nat /\ n <= MaxSize
  BY Parts, FileParts, SizeAssumption
<1>4. /\ g \in File /\ Layout(g) /\ g.mapping = f.mapping /\ g.sealed = f.sealed
      /\ DOMAIN g.blocks \subseteq DOMAIN f.blocks
      /\ \A b \in DOMAIN g.blocks : g.blocks[b].array = f.blocks[b].array
      /\ g.private = f.private \cap DOMAIN g.blocks
  <2>1. CASE n < f.size
    <3>1. g = Shrunk(f, n)
      BY <2>1 DEF Resized
    <3> HIDE DEF f, g
    <3> QED
      BY <1>3, <2>1, <3>1, ShrunkIsFile
  <2>2. CASE ~(n < f.size)
    <3>1. g = [f EXCEPT !.size = n]
      BY <2>2 DEF Resized
    <3> HIDE DEF g
    <3>2. g \in File /\ Layout(g)
      BY <1>3, <2>2, <3>1, GrownIsFile
    <3>3. /\ g.blocks = f.blocks /\ g.private = f.private /\ g.mapping = f.mapping
          /\ g.sealed = f.sealed
      BY <1>3, <3>1 DEF File
    <3> QED
      BY <1>3, <3>2, <3>3 DEF Layout
  <2> QED
    BY <2>1, <2>2
<1> HIDE DEF g
<1>5. file'[i] = g /\ pc'[i] = "running" /\ capture'[i] = capture[i] /\ host'[i] = host[i]
  BY <1>1, <1>2 DEF TypeOK
<1>6. ~capture[i].native /\ i \notin owned
  BY <1>1, Parts DEF Handover
<1>7. Storage(i)'
  BY <1>1, <1>2, <1>4, <1>5, Parts DEF Storage
<1>8. Handover(i)'
  BY <1>2, <1>5, <1>6, Parts DEF Handover
<1>9. Arrays(i)'
  <2>1. Arrays(i)
    BY Parts
  <2> QED
    BY <1>1, <1>2, <1>4, <1>5, <2>1 DEF Arrays
<1>10. Local(i)'
  BY <1>4, <1>5, <1>7, <1>8 DEF Local
<1> QED
  BY <1>1, <1>2, <1>4, <1>9, <1>10, Parts, OneStore

\* The guest's end leaves its storage as it is.
LEMMA GuestEndsKeeps ==
  ASSUME StoreInvariant, NEW i \in Instance, GuestEnds(i)
  PROVE  StoreInvariant'
<1>1. TypeOK /\ ops' \in Nat /\ pc[i] = "running"
  BY Parts DEF GuestEnds
<1>2. /\ file' = [file EXCEPT ![i] = file[i]] /\ pc' = [pc EXCEPT ![i] = "ended"]
      /\ capture' = [capture EXCEPT ![i] = capture[i]] /\ host' = [host EXCEPT ![i] = host[i]]
      /\ owned' = owned /\ mapped' = mapped
  BY Parts DEF GuestEnds
<1>3. /\ file'[i] = file[i] /\ pc'[i] = "ended" /\ capture'[i] = capture[i]
      /\ host'[i] = host[i]
  BY <1>1, <1>2 DEF TypeOK
<1>4. Storage(i)'
  BY <1>1, <1>2, <1>3, Parts DEF Storage
<1>5. Handover(i)'
  BY <1>1, <1>2, <1>3, Parts DEF Handover
<1>6. Arrays(i)'
  <2>1. Arrays(i)
    BY Parts
  <2> QED
    BY <1>1, <1>2, <1>3, <2>1 DEF Arrays
<1>7. Local(i)'
  BY <1>3, <1>4, <1>5, Parts DEF Local
<1>8. "ended" \in Lives
  BY DEF Lives
<1> QED
  BY <1>1, <1>2, <1>6, <1>7, <1>8, Parts, OneStore

\* Seal copies what the mapping lends, so the mapping may go.
LEMMA FreezeKeeps ==
  ASSUME StoreInvariant, NEW i \in Instance, FreezeRoot(i)
  PROVE  StoreInvariant'
<1> DEFINE f == file[i]
           g == SealedFile(f, i)
<1>1. TypeOK /\ ops' \in Nat /\ pc[i] = "ended"
  BY Parts DEF FreezeRoot
<1>2. /\ file' = [file EXCEPT ![i] = g] /\ pc' = [pc EXCEPT ![i] = "sealed"]
      /\ capture' = [capture EXCEPT ![i] = capture[i]] /\ host' = [host EXCEPT ![i] = host[i]]
      /\ owned' = owned /\ mapped' = mapped
  <2>1. file' = [file EXCEPT ![i] = g]
    BY DEF FreezeRoot, Seal, SealedFile, Copied
  <2> QED
    BY <2>1, Parts DEF FreezeRoot
<1>3. /\ g \in File /\ Layout(g) /\ g.mapping = FALSE /\ g.sealed = TRUE /\ g.private = {}
      /\ \A b \in DOMAIN f.blocks : g.blocks[b] = f.blocks[b]
      /\ \A b \in DOMAIN g.blocks : g.blocks[b].array = i \/ b \in DOMAIN f.blocks
  <2>1. f \in File /\ Layout(f)
    BY Parts
  <2> HIDE DEF f
  <2> QED
    BY <2>1, SealedIsFile
<1> HIDE DEF g
<1>4. /\ file'[i] = g /\ pc'[i] = "sealed" /\ capture'[i] = capture[i]
      /\ host'[i] = host[i]
  BY <1>1, <1>2 DEF TypeOK
<1>5. ~capture[i].native /\ i \notin owned
  BY <1>1, Parts DEF Handover
<1>6. Storage(i)'
  BY <1>3, <1>4 DEF Storage
<1>7. Handover(i)'
  BY <1>2, <1>4, <1>5, Parts DEF Handover
<1>8. Arrays(i)'
  <2>1. Arrays(i)
    BY Parts
  <2> QED
    BY <1>2, <1>3, <1>4, <2>1 DEF Arrays
<1>9. Local(i)'
  BY <1>3, <1>4, <1>6, <1>7 DEF Local
<1>10. "sealed" \in Lives
  BY DEF Lives
<1> QED
  BY <1>1, <1>2, <1>3, <1>8, <1>9, <1>10, Parts, OneStore

\* CompleteRoot keeps the storage only for a capture that is still wanted.
LEMMA CompleteKeeps ==
  ASSUME StoreInvariant, NEW i \in Instance, CompleteRoot(i)
  PROVE  StoreInvariant'
<1>1. TypeOK /\ ops' \in Nat /\ pc[i] = "sealed" /\ UNCHANGED <<host, owned, ops>>
  BY Parts DEF CompleteRoot
<1>2. CASE CanComplete(capture[i]) /\ Sound(file[i])
  <2> DEFINE c == [capture[i] EXCEPT !.native = TRUE, !.stamp = Stamp(file[i])]
  <2>1. /\ capture' = [capture EXCEPT ![i].native = TRUE, ![i].stamp = Stamp(file[i])]
        /\ Exit(i, "exited", TRUE)
    BY <1>2 DEF CompleteRoot
  <2>2. /\ file' = [file EXCEPT ![i] = file[i]] /\ pc' = [pc EXCEPT ![i] = "exited"]
        /\ host' = [host EXCEPT ![i] = host[i]]
        /\ owned' = owned /\ mapped' = mapped \ {i}
    BY <1>1, <2>1, Parts DEF Exit
  <2>3. capture' = [capture EXCEPT ![i] = c]
    BY <2>1, Parts DEF TypeOK, Captures
  <2>4. Stamp(file[i]) \in [size : 0 .. MaxSize, blocks : BlockMap]
    BY Parts DEF Stamp, File
  <2>5. c \in Captures /\ c.native /\ c.stamp = Stamp(file[i])
        /\ c.requested = capture[i].requested /\ c.abandoned = capture[i].abandoned
        /\ c.taken = capture[i].taken
    BY <2>4, Parts DEF Captures
  <2> HIDE DEF c
  <2>6. /\ file'[i] = file[i] /\ pc'[i] = "exited" /\ capture'[i] = c
        /\ host'[i] = host[i]
    BY <1>1, <2>2, <2>3 DEF TypeOK
  <2>7. file[i].sealed /\ ~file[i].mapping
    BY <1>2 DEF Sound
  <2>8. i \notin owned /\ host[i] = "finishing"
    BY <1>1, <1>2, Parts DEF Handover, CanComplete, Stages
  <2>9. Storage(i)'
    BY <2>5, <2>6, <2>7 DEF Storage
  <2>10. Handover(i)'
    <3>1. Stamp(file[i])' = Stamp(file[i])
      BY <2>6 DEF Stamp
    <3>2. ~c.abandoned /\ ~c.taken
      BY <1>2, <2>5 DEF CanComplete
    <3> QED
      BY <2>2, <2>5, <2>6, <2>7, <2>8, <3>1, <3>2 DEF Handover
  <2>11. Arrays(i)'
    <3>1. Arrays(i)
      BY Parts
    <3> QED
      BY <2>2, <2>6, <3>1 DEF Arrays
  <2>12. Local(i)'
    BY <2>6, <2>9, <2>10, Parts DEF Local
  <2>13. "exited" \in Lives
    BY DEF Lives
  <2> QED
    BY <1>1, <2>2, <2>3, <2>5, <2>11, <2>12, <2>13, Parts, OneStore
<1>3. CASE ~(CanComplete(capture[i]) /\ Sound(file[i]))
  <2>1. Exit(i, "failed", FALSE) /\ UNCHANGED capture
    BY <1>3 DEF CompleteRoot
  <2> QED
    BY <1>1, <2>1, ExitKeeps
<1> QED
  BY <1>2, <1>3

\* SnapshotHeap asks for a capture once.
LEMMA RequestKeeps ==
  ASSUME StoreInvariant, NEW i \in Instance, RequestCapture(i)
  PROVE  StoreInvariant'
<1> DEFINE c == [capture[i] EXCEPT !.requested = TRUE]
<1>1. TypeOK /\ ops' \in Nat /\ host[i] = "idle"
  BY Parts DEF RequestCapture
<1>2. /\ file' = [file EXCEPT ![i] = file[i]] /\ pc' = [pc EXCEPT ![i] = pc[i]]
      /\ capture' = [capture EXCEPT ![i] = c] /\ host' = [host EXCEPT ![i] = "finishing"]
      /\ owned' = owned /\ mapped' = mapped
  BY Parts DEF RequestCapture
<1>3. c \in Captures /\ c.native = capture[i].native /\ c.stamp = capture[i].stamp
      /\ c.abandoned = capture[i].abandoned /\ c.taken = capture[i].taken
  BY Parts DEF Captures
<1> HIDE DEF c
<1>4. /\ file'[i] = file[i] /\ pc'[i] = pc[i] /\ capture'[i] = c
      /\ host'[i] = "finishing"
  BY <1>1, <1>2 DEF TypeOK
<1>5. ~capture[i].native /\ i \notin owned /\ ~capture[i].abandoned /\ ~capture[i].taken
  BY <1>1, Parts DEF Handover
<1>6. Storage(i)'
  BY <1>2, <1>3, <1>4, Parts DEF Storage
<1>7. Handover(i)'
  BY <1>2, <1>3, <1>4, <1>5 DEF Handover
<1>8. Arrays(i)'
  <2>1. Arrays(i)
    BY Parts
  <2> QED
    BY <1>2, <1>4, <2>1 DEF Arrays
<1>9. Local(i)'
  BY <1>4, <1>6, <1>7, Parts DEF Local
<1>10. "finishing" \in Stages
  BY DEF Stages
<1> QED
  BY <1>1, <1>2, <1>3, <1>8, <1>9, <1>10, Parts, OneStore

\* Discard leaves nothing of a root that was there.
LEMMA DiscardKeeps ==
  ASSUME StoreInvariant, NEW i \in Instance, Discard(i)
  PROVE  StoreInvariant'
<1> DEFINE c == [capture[i] EXCEPT !.abandoned = TRUE, !.native = FALSE, !.bound = FALSE,
                                   !.stamp = NoStamp]
           f == IF capture[i].native THEN NewFileStore ELSE file[i]
<1>1. TypeOK /\ ops' \in Nat /\ host[i] = "finishing"
  BY Parts DEF Discard
<1>2. /\ file' = [file EXCEPT ![i] = f] /\ pc' = [pc EXCEPT ![i] = pc[i]]
      /\ capture' = [capture EXCEPT ![i] = c] /\ host' = [host EXCEPT ![i] = "done"]
      /\ owned' = owned /\ mapped' = mapped
  <2>1. file' = [file EXCEPT ![i] = f]
    BY Parts DEF Discard, Released
  <2> QED
    BY <2>1, Parts DEF Discard
<1>3. c \in Captures /\ c.native = FALSE /\ c.abandoned = TRUE
      /\ c.taken = capture[i].taken /\ c.requested = capture[i].requested
  <2>1. NoStamp \in [size : 0 .. MaxSize, blocks : BlockMap]
    BY NewIsFile, SizeAssumption DEF NoStamp
  <2> QED
    BY <2>1, Parts DEF Captures
<1>4. f \in File /\ Layout(f)
  BY Parts, NewIsFile
<1>5. i \notin owned
  BY <1>1, Parts DEF Handover
<1> HIDE DEF c, f
<1>6. /\ file'[i] = f /\ pc'[i] = pc[i] /\ capture'[i] = c
      /\ host'[i] = "done"
  BY <1>1, <1>2 DEF TypeOK
<1>7. ASSUME capture[i].native
      PROVE  Storage(i)' /\ Arrays(i)'
  <2>1. f = NewFileStore /\ pc[i] = "exited"
    BY <1>7, Parts DEF f, Handover
  <2>2. Storage(i)'
    BY <1>6, <2>1 DEF Storage, NewFileStore
  <2>3. Arrays(i)'
    BY <1>6, <2>1, NewIsFile DEF Arrays, NewFileStore
  <2> QED
    BY <2>2, <2>3
<1>8. ASSUME ~capture[i].native
      PROVE  Storage(i)' /\ Arrays(i)'
  <2>1. f = file[i]
    BY <1>8 DEF f
  <2>2. Storage(i)'
    BY <1>2, <1>5, <1>6, <1>8, <2>1, Parts DEF Storage
  <2>3. Arrays(i)'
    <3>1. Arrays(i)
      BY Parts
    <3> QED
      BY <1>2, <1>6, <2>1, <3>1 DEF Arrays
  <2> QED
    BY <2>2, <2>3
<1>9. Handover(i)'
  BY <1>2, <1>3, <1>5, <1>6, Parts DEF Handover
<1>10. Local(i)' /\ Arrays(i)'
  BY <1>4, <1>6, <1>7, <1>8, <1>9 DEF Local
<1>11. "done" \in Stages
  BY DEF Stages
<1> QED
  BY <1>1, <1>2, <1>3, <1>4, <1>10, <1>11, Parts, OneStore

\* A root held by the capture passes Root.Check when the host takes it.
LEMMA NativePasses ==
  ASSUME StoreInvariant, NEW i \in Instance, capture[i].native \/ i \in owned
  PROVE  Check(i)
<1>1. /\ pc[i] = "exited" /\ file[i].sealed /\ Stamp(file[i]) = capture[i].stamp
  BY Parts DEF Handover
<1>2. ~file[i].mapping
  BY <1>1, Parts DEF Storage
<1> QED
  BY <1>1, <1>2, Parts, LayoutIsSound DEF Check

\* TakeRoot moves the root from the capture to its owner.
LEMMA TakeKeeps ==
  ASSUME StoreInvariant, NEW i \in Instance, TakeRoot(i)
  PROVE  StoreInvariant' /\ UNCHANGED <<file, bytes>>
<1> DEFINE c == [capture[i] EXCEPT !.native = FALSE, !.bound = FALSE, !.taken = TRUE]
<1>1. TypeOK /\ ops' \in Nat /\ host[i] = "finishing" /\ pc[i] = "exited"
  BY Parts DEF TakeRoot
<1>2. /\ pc' = [pc EXCEPT ![i] = pc[i]]
      /\ capture' = [capture EXCEPT ![i] = c] /\ host' = [host EXCEPT ![i] = "done"]
      /\ mapped' = mapped
  <2>1. capture' = [capture EXCEPT ![i] = c]
    BY <1>1 DEF TakeRoot, TypeOK
  <2> QED
    BY <2>1, Parts DEF TakeRoot
<1>3. c \in Captures /\ c.native = FALSE /\ c.taken = TRUE /\ c.stamp = capture[i].stamp
      /\ c.abandoned = capture[i].abandoned /\ c.requested = capture[i].requested
  BY Parts DEF Captures
<1> HIDE DEF c
<1>4. i \notin owned /\ ~capture[i].abandoned /\ ~capture[i].taken
  BY <1>1, Parts DEF Handover
<1>5. capture[i].native => Check(i)
  BY NativePasses
<1>6. /\ file' = file /\ bytes' = bytes
      /\ owned' = (IF capture[i].native THEN owned \cup {i} ELSE owned)
  BY <1>4, <1>5 DEF TakeRoot, Released
<1>7. /\ file'[i] = file[i] /\ pc'[i] = pc[i] /\ capture'[i] = c
      /\ host'[i] = "done" /\ (i \in owned' <=> capture[i].native)
  BY <1>1, <1>2, <1>4, <1>6 DEF TypeOK
<1>8. Storage(i)'
  BY <1>1, <1>2, <1>4, <1>7, Parts DEF Storage
<1>9. Handover(i)'
  <2>1. Stamp(file[i])' = Stamp(file[i])
    BY <1>7 DEF Stamp
  <2>2. capture[i].native => file[i].sealed /\ Stamp(file[i]) = capture[i].stamp
    BY Parts DEF Handover
  <2> QED
    BY <1>1, <1>3, <1>4, <1>7, <2>1, <2>2 DEF Handover
<1>10. Arrays(i)'
  <2>1. Arrays(i)
    BY Parts
  <2> QED
    BY <1>1, <1>6, <1>7, <2>1 DEF Arrays
<1>11. Local(i)'
  BY <1>7, <1>8, <1>9, Parts DEF Local
<1>12. "done" \in Stages /\ file' = [file EXCEPT ![i] = file[i]]
  BY <1>6, Parts DEF Stages
<1>13. StoreInvariant'
  BY <1>1, <1>2, <1>3, <1>6, <1>10, <1>11, <1>12, Parts, OneStore
<1> QED
  BY <1>6, <1>13

\* What is written is a sequence of bytes.
LEMMA DataIsSeq ==
  ASSUME NEW p \in Data
  PROVE  p \in Seq(Byte) /\ Len(p) >= 1 /\ Len(p) \in Nat
<1>1. PICK n \in 1 .. MaxWrite : p \in [1 .. n -> Byte]
  BY DEF Data
<1>2. n \in Nat /\ n >= 1
  BY SizeAssumption
<1> QED
  BY <1>1, <1>2

\* A child begins with blocks of owned roots only.
LEMMA StartForkKeeps ==
  ASSUME StoreInvariant, NEW i \in Instance, NEW r \in Instance, StartFork(i, r)
  PROVE  StoreInvariant'
<1> DEFINE f == Fork(file[r])
<1>1. r \in owned /\ Begin(i, f) /\ mapped' = mapped
  BY DEF StartFork
<1>2. f \in File /\ Layout(f)
  BY ForkIsFile, Parts
<1>3. f.private = {} /\ ~f.sealed /\ ~f.mapping /\ f.blocks = file[r].blocks
  <2>1. NewFileStore.private = {} /\ NewFileStore.sealed = FALSE /\ NewFileStore.mapping = FALSE
    BY DEF NewFileStore
  <2> QED
    BY <2>1, NewIsFile DEF Fork, File
<1> HIDE DEF f
<1>4. \A b \in DOMAIN f.blocks : f.blocks[b].array \in owned
  <2>1. Arrays(r)
    BY Parts
  <2> QED
    BY <1>1, <1>3, <2>1 DEF Arrays
<1> QED
  BY <1>1, <1>2, <1>3, <1>4, BeginKeeps

\* The first instance begins with no blocks at all.
LEMMA StartOriginKeeps ==
  ASSUME StoreInvariant, NEW i \in Instance, StartFresh(i) \/ StartMapped(i)
  PROVE  StoreInvariant'
<1>1. /\ NewFileStore.private = {} /\ NewFileStore.sealed = FALSE
      /\ NewFileStore.mapping = FALSE /\ NewFileStore.blocks = << >>
  BY DEF NewFileStore
<1>2. CASE StartFresh(i)
  <2>1. Begin(i, NewFileStore) /\ mapped' = mapped
    BY <1>2 DEF StartFresh
  <2> QED
    BY <1>1, <2>1, NewIsFile, BeginKeeps
<1>3. CASE StartMapped(i)
  <2>1. Begin(i, MappedFile) /\ mapped' = IF Image # << >> THEN mapped \cup {i} ELSE mapped
    BY <1>3 DEF StartMapped, MappedFile
  <2>2. /\ MappedFile.private = {} /\ MappedFile.sealed = FALSE
        /\ MappedFile.mapping = (Image # << >>) /\ MappedFile.blocks = << >>
    BY <1>1, NewIsFile DEF MappedFile, File
  <2>3. /\ mapped' \in {mapped, mapped \cup {i}} /\ MappedFile.mapping => i \in mapped'
    BY <2>1, <2>2
  <2> QED
    BY <2>1, <2>2, <2>3, NewIsFile, MappedIsFile, BeginKeeps
<1> QED
  BY <1>2, <1>3

\* Every step keeps the invariant.
LEMMA NextStoreInvariant == StoreInvariant /\ [Next]_vars => StoreInvariant'
<1> SUFFICES ASSUME StoreInvariant, [Next]_vars PROVE StoreInvariant'
  OBVIOUS
<1>1. CASE UNCHANGED vars
  BY <1>1 DEF StoreInvariant, vars, TypeOK, Local, Layout, Storage, Handover, Stamp, Arrays
<1>2. CASE Next
  <2>1. PICK i \in Instance :
          \/ StartFresh(i) \/ StartMapped(i)
          \/ \E r \in Instance : StartFork(i, r)
          \/ \E off \in 0 .. MaxSize - 1, p \in Data :
                 off + Len(p) <= MaxSize /\ WriteAt(i, off, p)
          \/ \E n \in 0 .. MaxSize : Resize(i, n)
          \/ GuestFails(i) \/ GuestEnds(i) \/ NothingRequested(i)
          \/ FreezeRoot(i) \/ CompleteRoot(i)
          \/ RequestCapture(i) \/ Discard(i) \/ TakeRoot(i)
    BY <1>2, Zenon DEF Next
  <2>2. CASE StartFresh(i) \/ StartMapped(i)
    BY <2>2, StartOriginKeeps
  <2>3. CASE \E r \in Instance : StartFork(i, r)
    BY <2>3, StartForkKeeps
  <2>4. ASSUME NEW off \in 0 .. MaxSize - 1, NEW p \in Data,
               off + Len(p) <= MaxSize /\ WriteAt(i, off, p)
        PROVE  StoreInvariant'
    <3>1. off \in Nat
      BY SizeAssumption
    <3> QED
      BY <2>4, <3>1, DataIsSeq, WriteKeeps
  <2>5. CASE \E n \in 0 .. MaxSize : Resize(i, n)
    BY <2>5, ResizeKeeps
  <2>6. CASE GuestFails(i)
    <3>1. pc[i] = "running" /\ Exit(i, "failed", FALSE) /\ UNCHANGED <<capture, host, owned, ops>>
      BY <2>6 DEF GuestFails
    <3> QED
      BY <3>1, ExitKeeps
  <2>7. CASE GuestEnds(i)
    BY <2>7, GuestEndsKeeps
  <2>8. CASE NothingRequested(i)
    <3>1. pc[i] = "ended" /\ Exit(i, "exited", FALSE) /\ UNCHANGED <<capture, host, owned, ops>>
      BY <2>8 DEF NothingRequested
    <3> QED
      BY <3>1, ExitKeeps
  <2>9. CASE FreezeRoot(i)
    BY <2>9, FreezeKeeps
  <2>10. CASE CompleteRoot(i)
    BY <2>10, CompleteKeeps
  <2>11. CASE RequestCapture(i)
    BY <2>11, RequestKeeps
  <2>12. CASE Discard(i)
    BY <2>12, DiscardKeeps
  <2>13. CASE TakeRoot(i)
    BY <2>13, TakeKeeps
  <2> QED
    BY <2>1, <2>2, <2>3, <2>4, <2>5, <2>6, <2>7, <2>8, <2>9, <2>10, <2>11, <2>12, <2>13
<1> QED
  BY <1>1, <1>2

\* The inductive invariant of the block storage.
THEOREM StoreInvariantHolds == Spec => []StoreInvariant
<1> QED
  BY InitStoreInvariant, NextStoreInvariant, PTL DEF Spec

\* Every variable keeps its type.
THEOREM TypeCorrect == Spec => []TypeOK
<1>1. StoreInvariant => TypeOK
  BY DEF StoreInvariant
<1> QED
  BY <1>1, StoreInvariantHolds, PTL

\* A sealed file has the layout CompleteRoot asks for, and a root passes
\* Root.Check for as long as somebody may borrow it.
THEOREM RootsPassCheckHolds == Spec => []RootsPassCheck
<1>1. ASSUME StoreInvariant PROVE RootsPassCheck
  <2>1. ASSUME NEW i \in Instance, pc[i] = "sealed" PROVE Sound(file[i])
    <3>1. file[i].sealed /\ ~file[i].mapping
      BY <1>1, <2>1, Parts DEF Storage
    <3> QED
      BY <1>1, <3>1, Parts, LayoutIsSound
  <2>2. ASSUME NEW i \in Instance, capture[i].native \/ i \in owned PROVE Check(i)
    BY <1>1, <2>2, NativePasses
  <2> QED
    BY <2>1, <2>2 DEF RootsPassCheck
<1> QED
  BY <1>1, StoreInvariantHolds, PTL

\* A prepared image stays mapped while a store may read through it.
THEOREM MappingOutlivesReadersHolds == Spec => []MappingOutlivesReaders
<1>1. StoreInvariant => MappingOutlivesReaders
  BY DEF StoreInvariant, Local, Storage, MappingOutlivesReaders
<1> QED
  BY <1>1, StoreInvariantHolds, PTL

\* A capture the host has given up keeps no storage alive.
THEOREM DiscardLeavesNothingHolds == Spec => []DiscardLeavesNothing
<1>1. StoreInvariant => DiscardLeavesNothing
  BY DEF StoreInvariant, Local, Storage, Handover, DiscardLeavesNothing
<1> QED
  BY <1>1, StoreInvariantHolds, PTL

-----------------------------------------------------------------------------
(* Contents!Spec: reading back                                             *)

(* rootRead from the arrays in B.                                          *)
ReadIn(B, f, k) ==
  LET b == k \div BlockSize IN
  IF b \in DOMAIN f.blocks
  THEN IF k % BlockSize < f.blocks[b].valid
       THEN B[f.blocks[b].array][b][k % BlockSize] ELSE 0
  ELSE IF f.mapping /\ k < f.limit THEN Image[k + 1] ELSE 0

\* The content of a file, before and after a step.
LEMMA ContentIs ==
  ASSUME NEW i \in Instance
  PROVE  /\ Content(i) = [k \in 1 .. file[i].size |-> ReadIn(bytes, file[i], k - 1)]
         /\ Content(i)' = [k \in 1 .. file'[i].size |-> ReadIn(bytes', file'[i], k - 1)]
BY DEF Content, rootRead, ReadIn

\* ... is a sequence as long as the file.
LEMMA ContentLen ==
  ASSUME TypeOK, NEW i \in Instance
  PROVE  /\ file[i].size \in Nat /\ Len(Content(i)) = file[i].size
         /\ \A k \in 1 .. file[i].size : Content(i)[k] = ReadIn(bytes, file[i], k - 1)
<1> DEFINE n == file[i].size
           s == Content(i)
           S == {s[k] : k \in 1 .. n}
<1>1. n \in Nat
  BY FileParts DEF TypeOK
<1>2. s = [k \in 1 .. n |-> ReadIn(bytes, file[i], k - 1)]
  BY ContentIs
<1> HIDE DEF s, n
<1>3. s \in [1 .. n -> S]
  BY <1>2
<1>4. s \in Seq(S)
  BY <1>1, <1>3
<1>5. Len(s) = n
  BY <1>1, <1>2, <1>4
<1>6. \A k \in 1 .. n : s[k] = ReadIn(bytes, file[i], k - 1)
  BY <1>2
<1> QED
  BY <1>1, <1>5, <1>6 DEF s, n

\* Nothing is read behind the end of a file.
LEMMA BeyondEnd ==
  ASSUME NEW f \in File, Layout(f), NEW k \in Nat, f.size <= k, NEW B
  PROVE  ReadIn(B, f, k) = 0
<1> DEFINE b == k \div BlockSize
           r == k % BlockSize
<1>1. b \in Nat /\ r \in Within /\ k = b * BlockSize + r
  BY SplitOffset
<1> HIDE DEF b, r
<1>2. f.size \in Nat /\ f.limit \in Nat /\ f.limit <= f.size
  BY FileParts DEF Layout
<1>3. ASSUME b \in DOMAIN f.blocks PROVE ~(r < f.blocks[b].valid)
  <2>1. /\ b * BlockSize + f.blocks[b].valid <= f.size /\ f.blocks[b].valid \in Nat
        /\ b * BlockSize \in Nat /\ r \in Nat
    BY <1>1, <1>3, FileParts DEF Layout, Within
  <2> QED
    BY <1>1, <1>2, <2>1
<1>4. ReadIn(B, f, k) = IF b \in DOMAIN f.blocks
                        THEN IF r < f.blocks[b].valid THEN B[f.blocks[b].array][b][r] ELSE 0
                        ELSE IF f.mapping /\ k < f.limit THEN Image[k + 1] ELSE 0
  BY DEF ReadIn, b, r
<1> QED
  BY <1>2, <1>3, <1>4

\* A file whose descriptors and arrays stay the same reads the same.
LEMMA SameContent ==
  ASSUME NEW i \in Instance, file'[i] = file[i],
         \A b \in DOMAIN file[i].blocks :
           bytes'[file[i].blocks[b].array][b] = bytes[file[i].blocks[b].array][b]
  PROVE  Content(i)' = Content(i)
<1>1. ASSUME NEW k PROVE ReadIn(bytes', file[i], k) = ReadIn(bytes, file[i], k)
  BY DEF ReadIn
<1>2. [k \in 1 .. file[i].size |-> ReadIn(bytes', file[i], k - 1)]
        = [k \in 1 .. file[i].size |-> ReadIn(bytes, file[i], k - 1)]
  BY <1>1
<1>3. Content(i)' = [k \in 1 .. file[i].size |-> ReadIn(bytes', file[i], k - 1)]
  BY ContentIs
<1> QED
  BY <1>2, <1>3, ContentIs

\* Shrinking a file hides what lies behind its end, and nothing else.
LEMMA ShrunkReads ==
  ASSUME NEW f \in File, Layout(f), NEW n \in Nat, n < f.size, NEW B,
         NEW k \in Nat, k < n
  PROVE  ReadIn(B, Shrunk(f, n), k) = ReadIn(B, f, k)
<1> DEFINE b == k \div BlockSize
           r == k % BlockSize
           g == Shrunk(f, n)
<1>1. b \in Nat /\ r \in Within /\ k = b * BlockSize + r
  BY SplitOffset
<1>2. /\ g.mapping = f.mapping
      /\ g.limit = (IF f.limit <= n THEN f.limit ELSE n)
      /\ DOMAIN g.blocks = {a \in DOMAIN f.blocks : a * BlockSize < n}
      /\ \A a \in DOMAIN g.blocks :
           /\ g.blocks[a].array = f.blocks[a].array
           /\ g.blocks[a].valid = IF f.blocks[a].valid <= n - a * BlockSize
                                  THEN f.blocks[a].valid ELSE n - a * BlockSize
  BY ShrunkIsFile
<1> HIDE DEF b, r, g
<1>3. b * BlockSize \in Nat /\ r \in Nat /\ b * BlockSize < n
  BY <1>1, NextBlock, SizeAssumption DEF Within
<1>4. b \in DOMAIN g.blocks <=> b \in DOMAIN f.blocks
  BY <1>2, <1>3
<1>5. ASSUME b \in DOMAIN f.blocks
      PROVE  /\ g.blocks[b].array = f.blocks[b].array
             /\ r < g.blocks[b].valid <=> r < f.blocks[b].valid
  <2>1. f.blocks[b].valid \in Nat
    BY <1>5, FileParts
  <2> QED
    BY <1>1, <1>2, <1>3, <1>4, <1>5, <2>1
<1>6. k < g.limit <=> k < f.limit
  BY <1>2, FileParts
<1>7. /\ ReadIn(B, f, k) = IF b \in DOMAIN f.blocks
                           THEN IF r < f.blocks[b].valid THEN B[f.blocks[b].array][b][r] ELSE 0
                           ELSE IF f.mapping /\ k < f.limit THEN Image[k + 1] ELSE 0
      /\ ReadIn(B, g, k) = IF b \in DOMAIN g.blocks
                           THEN IF r < g.blocks[b].valid THEN B[g.blocks[b].array][b][r] ELSE 0
                           ELSE IF g.mapping /\ k < g.limit THEN Image[k + 1] ELSE 0
  BY DEF ReadIn, b, r
<1> QED
  BY <1>2, <1>4, <1>5, <1>6, <1>7 DEF g

\* The byte of a block that is not in the store yet, where the file has one.
LEMMA BlockReads ==
  ASSUME NEW f \in File, NEW b \in Nat, NEW r \in Within, r < ValidIn(f, b)
  PROVE  /\ b * BlockSize + r < f.size
         /\ ReadBlock(f, b)[r] = ReadIn(bytes, f, b * BlockSize + r)
<1>1. f.size \in Nat /\ b * BlockSize \in Nat /\ r \in Nat /\ BlockSize \in Nat
  BY FileParts, NextBlock, SizeAssumption DEF Within
<1>2. b * BlockSize + r < f.size
  BY <1>1, ValidInFits
<1>3. ReadBlock(f, b)[r] = rootRead(f, b * BlockSize + r)
  BY <1>2 DEF ReadBlock
<1> QED
  BY <1>2, <1>3 DEF rootRead, ReadIn

\* Sealing copies what the mapping lends: every byte reads as before.
LEMMA SealedReads ==
  ASSUME NEW i \in Instance, NEW f \in File, Layout(f), NEW B,
         \A b \in Copied(f) : B[i][b] = ReadBlock(f, b),
         \A b \in DOMAIN f.blocks : B[f.blocks[b].array][b] = bytes[f.blocks[b].array][b],
         NEW k \in Nat, k < f.size
  PROVE  ReadIn(B, SealedFile(f, i), k) = ReadIn(bytes, f, k)
<1> DEFINE b == k \div BlockSize
           r == k % BlockSize
           g == SealedFile(f, i)
           C == Copied(f)
<1>1. b \in Nat /\ r \in Within /\ k = b * BlockSize + r
  BY SplitOffset
<1>2. /\ g.mapping = FALSE /\ DOMAIN g.blocks = DOMAIN f.blocks \cup C
      /\ \A a \in C : /\ a \notin DOMAIN f.blocks
                      /\ g.blocks[a].array = i /\ g.blocks[a].valid = ValidIn(f, a)
      /\ \A a \in DOMAIN f.blocks : g.blocks[a] = f.blocks[a]
  <2>1. g.mapping = FALSE /\ DOMAIN g.blocks = DOMAIN f.blocks \cup C
    BY SealedIsFile
  <2>2. ASSUME NEW a \in C
        PROVE  /\ a \notin DOMAIN f.blocks
               /\ g.blocks[a].array = i /\ g.blocks[a].valid = ValidIn(f, a)
    <3>1. a \notin DOMAIN f.blocks
      BY DEF Copied
    <3>2. g.blocks[a].array = i /\ g.blocks[a].valid = ValidIn(f, a)
      BY SealedIsFile, Zenon
    <3> QED
      BY <3>1, <3>2
  <2>3. \A a \in DOMAIN f.blocks : g.blocks[a] = f.blocks[a]
    BY SealedIsFile
  <2> QED
    BY <2>1, <2>2, <2>3
<1>3. /\ ReadIn(bytes, f, k) =
             IF b \in DOMAIN f.blocks
             THEN IF r < f.blocks[b].valid THEN bytes[f.blocks[b].array][b][r] ELSE 0
             ELSE IF f.mapping /\ k < f.limit THEN Image[k + 1] ELSE 0
      /\ ReadIn(B, g, k) = IF b \in DOMAIN g.blocks
                           THEN IF r < g.blocks[b].valid THEN B[g.blocks[b].array][b][r] ELSE 0
                           ELSE IF g.mapping /\ k < g.limit THEN Image[k + 1] ELSE 0
  BY DEF ReadIn
<1> HIDE DEF b, r, g
<1>4. CASE b \in DOMAIN f.blocks
  BY <1>2, <1>3, <1>4 DEF g
<1>5. CASE b \in C
  <2>1. b * BlockSize \in Nat /\ r \in Nat /\ r < BlockSize /\ f.size \in Nat
    BY <1>1, NextBlock, FileParts, SizeAssumption DEF Within
  <2>2. r < ValidIn(f, b)
    BY <1>1, <2>1, ValidInFits, SizeAssumption
  <2>3. B[i][b][r] = ReadIn(bytes, f, k)
    <3>1. ReadBlock(f, b)[r] = ReadIn(bytes, f, b * BlockSize + r)
      BY <1>1, <2>2, BlockReads
    <3> QED
      BY <1>1, <1>5, <3>1
  <2> HIDE DEF C
  <2>4. ReadIn(B, g, k) = B[i][b][r]
    BY <1>2, <1>3, <1>5, <2>2
  <2> QED
    BY <2>3, <2>4 DEF g
<1>6. CASE b \notin DOMAIN f.blocks \cup C
  <2>1. ~(f.mapping /\ k < f.limit)
    <3> SUFFICES ASSUME f.mapping, k < f.limit PROVE b \in C
      BY <1>6
    <3>1. /\ f.size \in Nat /\ f.size <= MaxSize /\ f.limit \in Nat
          /\ b * BlockSize \in Nat /\ r \in Nat
      BY <1>1, FileParts, NextBlock DEF Within
    <3>2. b * BlockSize < Min({f.limit, f.size})
      BY <1>1, <3>1, MinOf
    <3>3. b \in Index
      <4> DEFINE m == MaxSize - 1
                 top == m \div BlockSize
      <4>1. m \in Nat /\ k <= m
        BY <3>1, SizeAssumption
      <4> HIDE DEF m
      <4>2. top \in Nat /\ \E q \in Within : m = top * BlockSize + q
        BY <4>1, SplitOffset
      <4>3. Index = 0 .. top
        BY DEF Index, m
      <4> HIDE DEF top
      <4>4. top < b => top * BlockSize + BlockSize <= b * BlockSize
        BY <1>1, <4>2, NextBlock
      <4>5. top * BlockSize \in Nat
        BY <4>2, NextBlock
      <4>6. m < top * BlockSize + BlockSize
        BY <4>2, <4>5, SizeAssumption DEF Within
      <4>7. b * BlockSize <= m
        BY <1>1, <3>1, <4>1
      <4>8. ~(top < b)
        BY <3>1, <4>1, <4>4, <4>5, <4>6, <4>7, SizeAssumption
      <4> QED
        BY <1>1, <4>2, <4>3, <4>8
    <3> QED
      BY <1>6, <3>2, <3>3 DEF Copied
  <2> HIDE DEF C
  <2> QED
    BY <1>2, <1>3, <1>6, <2>1 DEF g
<1> QED
  BY <1>4, <1>5, <1>6

\* A byte of a touched block that the write does not cover: what Writable found
\* there is what the file held, and zero behind its end.
LEMMA UncoveredReads ==
  ASSUME TypeOK, NEW i \in Instance, Layout(file[i]), Arrays(i),
         NEW b \in Nat, NEW r \in Within, NEW k \in Nat, k = b * BlockSize + r
  PROVE  (IF r < Before(i, b) THEN Writable(i, b).data[r] ELSE 0)
           = IF k < file[i].size THEN ReadIn(bytes, file[i], k) ELSE 0
<1> DEFINE f == file[i]
<1>1. f \in File
  BY DEF TypeOK
<1>2. f.size \in Nat /\ b * BlockSize \in Nat /\ r \in Nat /\ r < BlockSize /\ BlockSize \in Nat
  BY <1>1, FileParts, NextBlock, SizeAssumption DEF Within
<1>3. CASE b \in f.private
  <2>1. b \in DOMAIN f.blocks
    BY <1>3 DEF Layout
  <2>2. /\ f.blocks[b].array = i /\ f.blocks[b].valid \in Nat
        /\ b * BlockSize + f.blocks[b].valid <= f.size
    BY <1>1, <1>3, <2>1, FileParts DEF Layout, Arrays
  <2>3. Before(i, b) = f.blocks[b].valid /\ Writable(i, b).data = bytes[i][b]
    BY <1>3, <2>2 DEF Before, Writable
  <2>4. k \div BlockSize = b /\ k % BlockSize = r
    BY JoinOffset
  <2>5. ReadIn(bytes, f, k) = IF r < f.blocks[b].valid THEN bytes[i][b][r] ELSE 0
    BY <2>1, <2>2, <2>4 DEF ReadIn
  <2>6. r < f.blocks[b].valid => k < f.size
    BY <1>2, <2>2
  <2> QED
    BY <2>3, <2>5, <2>6
<1>4. CASE b \notin f.private
  <2>1. Before(i, b) = ValidIn(f, b) /\ Writable(i, b).data = ReadBlock(f, b)
    BY <1>4 DEF Before, Writable
  <2>2. r < ValidIn(f, b) <=> k < f.size
    BY <1>1, <1>2, ValidInFits
  <2>3. r < ValidIn(f, b) => ReadBlock(f, b)[r] = ReadIn(bytes, f, k)
    BY <1>1, BlockReads
  <2> QED
    BY <2>1, <2>2, <2>3
<1> QED
  BY <1>3, <1>4

\* After a write, its bytes read as written and every other byte as before.
LEMMA WrittenReads ==
  ASSUME TypeOK, NEW i \in Instance, Layout(file[i]), Arrays(i),
         NEW off \in Nat, NEW p \in Seq(Byte), Len(p) >= 1, off + Len(p) <= MaxSize, NEW B,
         \A b \in Touched(off, p) : B[i][b] = WriteBlock(i, b, off, p),
         \A b \in DOMAIN file[i].blocks \ Touched(off, p) :
           B[file[i].blocks[b].array][b] = bytes[file[i].blocks[b].array][b],
         NEW k \in Nat
  PROVE  ReadIn(B, WrittenFile(i, off, p), k) =
           IF off <= k /\ k < off + Len(p) THEN p[k - off + 1]
           ELSE IF k < file[i].size THEN ReadIn(bytes, file[i], k) ELSE 0
<1> DEFINE f == file[i]
           g == WrittenFile(i, off, p)
           T == Touched(off, p)
           b == k \div BlockSize
           r == k % BlockSize
           old == IF k < f.size THEN ReadIn(bytes, f, k) ELSE 0
<1>1. b \in Nat /\ r \in Within /\ k = b * BlockSize + r
  BY SplitOffset
<1>2. f \in File
  BY DEF TypeOK
<1>3. /\ g.mapping = f.mapping /\ g.limit = f.limit
      /\ DOMAIN g.blocks = DOMAIN f.blocks \cup T
      /\ \A a \in T : /\ Writable(i, a).valid = Before(i, a) /\ Before(i, a) \in 0 .. BlockSize
                      /\ g.blocks[a].array = i
                      /\ g.blocks[a].valid = IF Before(i, a) <= Last(off, p, a)
                                             THEN Last(off, p, a) ELSE Before(i, a)
      /\ \A a \in DOMAIN f.blocks \ T : g.blocks[a] = f.blocks[a]
  <2>1. g.mapping = f.mapping /\ g.limit = f.limit
    BY <1>2 DEF WrittenFile, File
  <2>0. Wrote(i, off, p)
    BY WrittenIsFile
  <2>2. DOMAIN g.blocks = DOMAIN f.blocks \cup T
    BY <2>0 DEF Wrote
  <2>3. \A a \in T : Writable(i, a).valid = Before(i, a) /\ Before(i, a) \in 0 .. BlockSize
    BY <2>0 DEF Wrote
  <2>4. \A a \in T : /\ g.blocks[a].array = i
                    /\ g.blocks[a].valid = IF Before(i, a) <= Last(off, p, a)
                                           THEN Last(off, p, a) ELSE Before(i, a)
    BY <2>0 DEF Wrote
  <2>5. \A a \in DOMAIN f.blocks \ T : g.blocks[a] = f.blocks[a]
    BY <2>0 DEF Wrote
  <2> QED
    BY <2>1, <2>2, <2>3, <2>4, <2>5
<1>4. /\ ReadIn(bytes, f, k) =
             IF b \in DOMAIN f.blocks
             THEN IF r < f.blocks[b].valid THEN bytes[f.blocks[b].array][b][r] ELSE 0
             ELSE IF f.mapping /\ k < f.limit THEN Image[k + 1] ELSE 0
      /\ ReadIn(B, g, k) = IF b \in DOMAIN g.blocks
                           THEN IF r < g.blocks[b].valid THEN B[g.blocks[b].array][b][r] ELSE 0
                           ELSE IF g.mapping /\ k < g.limit THEN Image[k + 1] ELSE 0
  BY DEF ReadIn
<1>5. b \in T <=> b * BlockSize < off + Len(p) /\ off < b * BlockSize + BlockSize
  BY <1>1, TouchedOverlap
<1>6. /\ b * BlockSize \in Nat /\ r \in Nat /\ r < BlockSize /\ BlockSize \in Nat
      /\ Len(p) \in Nat /\ f.size \in Nat
  BY <1>1, <1>2, NextBlock, FileParts, SizeAssumption DEF Within
<1> HIDE DEF b, r, g
<1>7. CASE b \in T
  <2> DEFINE lo == First(off, b)
             hi == Last(off, p, b)
             v == Before(i, b)
             was == Writable(i, b).data[r]
  <2>1. /\ lo = IF off <= b * BlockSize THEN 0 ELSE off - b * BlockSize
        /\ hi = IF BlockSize <= off + Len(p) - b * BlockSize THEN BlockSize
                 ELSE off + Len(p) - b * BlockSize
        /\ lo \in Nat /\ hi \in Nat /\ lo < hi
    BY <1>7, CoveredPart
  <2>2. /\ v \in Nat /\ g.blocks[b].array = i
        /\ g.blocks[b].valid = IF v <= hi THEN hi ELSE v
        /\ Writable(i, b).valid = v /\ b \in DOMAIN g.blocks
    BY <1>3, <1>6, <1>7 DEF g
  <2>3. B[i][b][r] = IF r >= lo /\ r < hi THEN p[b * BlockSize + r - off + 1]
                     ELSE IF r >= v /\ r < lo THEN 0 ELSE was
    <3>1. B[i][b] = WriteBlock(i, b, off, p)
      BY <1>7
    <3>2. WriteBlock(i, b, off, p)[r] =
            IF r >= First(off, b) /\ r < Last(off, p, b) THEN p[b * BlockSize + r - off + 1]
            ELSE IF r >= Writable(i, b).valid /\ r < First(off, b) THEN 0 ELSE was
      BY <1>1 DEF WriteBlock
    <3> QED
      BY <2>2, <3>1, <3>2
  <2>4. (IF r < v THEN was ELSE 0) = old
    BY <1>1, UncoveredReads
  <2>5. ReadIn(B, g, k) = IF r < (IF v <= hi THEN hi ELSE v) THEN B[i][b][r] ELSE 0
    BY <1>4, <2>2 DEF g
  <2> HIDE DEF lo, hi, v, was, old
  <2>6. CASE r >= lo /\ r < hi
    <3>1. off <= k /\ k < off + Len(p) /\ b * BlockSize + r - off + 1 = k - off + 1
      BY <1>1, <1>6, <2>1, <2>6
    <3>2. ReadIn(B, g, k) = p[k - off + 1]
      BY <1>6, <2>1, <2>2, <2>3, <2>5, <2>6, <3>1
    <3> QED
      BY <3>1, <3>2 DEF g
  <2>7. CASE ~(r >= lo /\ r < hi)
    <3>1. ~(off <= k /\ k < off + Len(p))
      BY <1>1, <1>6, <2>1, <2>7
    <3>2. B[i][b][r] = IF r >= v /\ r < lo THEN 0 ELSE was
      BY <2>3, <2>7
    <3>3. ReadIn(B, g, k) = IF r < v THEN was ELSE 0
      BY <1>6, <2>1, <2>2, <2>5, <2>7, <3>2
    <3> QED
      BY <2>4, <3>1, <3>3 DEF g, old
  <2> QED
    BY <2>6, <2>7
<1>8. CASE b \notin T
  <2>1. ~(off <= k /\ k < off + Len(p))
    BY <1>1, <1>5, <1>6, <1>8
  <2>2. ReadIn(B, g, k) = ReadIn(bytes, f, k)
    <3>1. CASE b \in DOMAIN f.blocks
      <4>1. g.blocks[b] = f.blocks[b] /\ b \in DOMAIN g.blocks
        BY <1>3, <1>8, <3>1 DEF g
      <4>2. B[f.blocks[b].array][b] = bytes[f.blocks[b].array][b]
        BY <1>8, <3>1
      <4> QED
        BY <1>4, <3>1, <4>1, <4>2 DEF g
    <3>2. CASE b \notin DOMAIN f.blocks
      <4>1. b \notin DOMAIN g.blocks /\ g.mapping = f.mapping /\ g.limit = f.limit
        BY <1>3, <1>8, <3>2 DEF g
      <4> QED
        BY <1>4, <3>2, <4>1 DEF g
    <3> QED
      BY <3>1, <3>2
  <2>3. f.size <= k => ReadIn(bytes, f, k) = 0
    BY <1>2, BeyondEnd
  <2> QED
    BY <1>6, <2>1, <2>2, <2>3 DEF g
<1> QED
  BY <1>7, <1>8

-----------------------------------------------------------------------------
(* Contents!Spec: every step                                               *)

Statuses == [i \in Instance |-> Status(i)]
Files == [i \in Instance |-> Content(i)]

\* A step of i that leaves what the others read alone changes one entry.
LEMMA OneFile ==
  ASSUME StoreInvariant, DOMAIN bytes = Instance, NEW i \in Instance, i \notin owned,
         owned' = owned,
         \A j \in Instance \ {i} : file'[j] = file[j] /\ pc'[j] = pc[j],
         \A j \in Instance \ {i}, b \in Index : bytes'[j][b] = bytes[j][b]
  PROVE  /\ Statuses' = [Statuses EXCEPT ![i] = Status(i)']
         /\ Files' = [Files EXCEPT ![i] = Content(i)']
<1>1. ASSUME NEW j \in Instance \ {i}
      PROVE  Content(j)' = Content(j) /\ Status(j)' = Status(j)
  <2>1. TypeOK /\ Arrays(j) /\ file[j] \in File
    BY Parts
  <2>2. ASSUME NEW b \in DOMAIN file[j].blocks
        PROVE  bytes'[file[j].blocks[b].array][b] = bytes[file[j].blocks[b].array][b]
    <3>1. file[j].blocks[b].array \in Instance \ {i} /\ b \in Index
      BY <2>1, FileParts DEF Arrays
    <3> QED
      BY <3>1
  <2>3. Content(j)' = Content(j)
    BY <2>2, SameContent
  <2>4. Status(j)' = Status(j)
    BY DEF Status
  <2> QED
    BY <2>3, <2>4
<1>2. Files' = [j \in Instance |-> Content(j)']
  BY DEF Files
<1>3. Statuses' = [j \in Instance |-> Status(j)']
  BY DEF Statuses
<1> QED
  BY <1>1, <1>2, <1>3 DEF Files, Statuses

\* A step after which nothing reads differently.
LEMMA NoFile ==
  ASSUME StoreInvariant, UNCHANGED <<file, bytes>>,
         \A j \in Instance : Status(j)' = Status(j)
  PROVE  UNCHANGED <<Statuses, Files>>
<1>1. \A j \in Instance : Content(j)' = Content(j)
  BY DEF Content, rootRead
<1> QED
  BY <1>1 DEF Statuses, Files

\* The empty file.
LEMMA NewContent ==
  ASSUME NEW i \in Instance
  PROVE  /\ file[i] = NewFileStore => Content(i) = << >>
         /\ file'[i] = NewFileStore => Content(i)' = << >>
<1>1. NewFileStore.size = 0
  BY DEF NewFileStore
<1>2. ASSUME NEW s, NEW f, NEW B, f = NewFileStore, s = [k \in 1 .. f.size |-> ReadIn(B, f, k - 1)]
      PROVE  s = << >>
  BY <1>1, <1>2
<1>3. file[i] = NewFileStore => Content(i) = << >>
  BY <1>2, ContentIs
<1>4. file'[i] = NewFileStore => Content(i)' = << >>
  BY <1>2, ContentIs
<1> QED
  BY <1>3, <1>4

\* startInstance begins with nothing, the image, or the file of a root that a
\* snapshot keeps.
LEMMA BeginIsStart ==
  ASSUME StoreInvariant, DOMAIN bytes = Instance, NEW i \in Instance, NEW f \in File,
         Begin(i, f), ~f.sealed,
         Content(i)' \in {<< >>, Image} \/
           \E r \in owned : Content(i)' = Content(r)
  PROVE  Contents!Start(i)
<1>1. TypeOK /\ pc[i] = "unborn" /\ file[i] = NewFileStore
  BY Parts DEF Begin, Storage
<1>2. /\ file' = [file EXCEPT ![i] = f] /\ pc' = [pc EXCEPT ![i] = "running"]
      /\ bytes' = bytes /\ owned' = owned
  BY DEF Begin
<1>3. file'[i] = f /\ pc'[i] = "running"
  BY <1>1, <1>2 DEF TypeOK
<1>4. i \notin owned
  BY <1>1, Parts DEF Handover
<1>5. /\ \A j \in Instance \ {i} : file'[j] = file[j] /\ pc'[j] = pc[j]
      /\ \A j \in Instance \ {i}, b \in Index : bytes'[j][b] = bytes[j][b]
  BY <1>1, <1>2 DEF TypeOK
<1>6. /\ Statuses' = [Statuses EXCEPT ![i] = Status(i)']
      /\ Files' = [Files EXCEPT ![i] = Content(i)']
  BY <1>2, <1>4, <1>5, OneFile
<1>7. Statuses[i] = "none" /\ Status(i)' = "open"
  BY <1>1, <1>2, <1>3, <1>4 DEF Statuses, Status, NewFileStore
<1>8. ASSUME NEW r \in owned
      PROVE  r \in Instance /\ Statuses[r] = "kept" /\ Files[r] = Content(r)
  BY <1>1 DEF Statuses, Files, Status, TypeOK
<1>9. Content(i)' \in {<< >>, Image} \cup {Files[j] : j \in Contents!Kept}
  BY <1>8 DEF Contents!Kept, Statuses
<1> HIDE DEF Statuses, Files
<1> QED
  BY <1>6, <1>7, <1>9 DEF Contents!Start, Contents!Becomes, Statuses, Files

\* What an instance that ends without a root leaves is nothing.
LEMMA ExitIsDrop ==
  ASSUME StoreInvariant, DOMAIN bytes = Instance, NEW i \in Instance,
         pc[i] \in {"running", "ended", "sealed"},
         NEW how \in {"exited", "failed"}, Exit(i, how, FALSE), owned' = owned
  PROVE  Contents!Drop(i)
<1>1. TypeOK /\ i \notin owned
  BY Parts DEF Handover
<1>2. /\ file' = [file EXCEPT ![i] = NewFileStore] /\ pc' = [pc EXCEPT ![i] = how]
      /\ bytes' = [bytes EXCEPT ![i] = [k \in Index |-> Zeros]]
  BY DEF Exit
<1>3. file'[i] = NewFileStore /\ pc'[i] = how
  BY <1>1, <1>2 DEF TypeOK
<1>4. /\ \A j \in Instance \ {i} : file'[j] = file[j] /\ pc'[j] = pc[j]
      /\ \A j \in Instance \ {i}, b \in Index : bytes'[j][b] = bytes[j][b]
  BY <1>1, <1>2 DEF TypeOK
<1>5. /\ Statuses' = [Statuses EXCEPT ![i] = Status(i)']
      /\ Files' = [Files EXCEPT ![i] = Content(i)']
  BY <1>1, <1>4, OneFile
<1>6. Content(i)' = << >>
  BY <1>3, NewContent
<1>7. Status(i)' = "none"
  BY <1>1, <1>3 DEF Status, NewFileStore
<1>8. Statuses[i] \in {"open", "frozen"}
  <2>1. pc[i] = "sealed" => file[i].sealed
    BY Parts DEF Storage
  <2> QED
    BY <1>1, <2>1 DEF Statuses, Status
<1> QED
  BY <1>5, <1>6, <1>7, <1>8 DEF Contents!Drop, Statuses, Files

\* The three ways to begin.
LEMMA StartIsStart ==
  ASSUME StoreInvariant, DOMAIN bytes = Instance, NEW i \in Instance,
         StartFresh(i) \/ StartMapped(i) \/ \E r \in Instance : StartFork(i, r)
  PROVE  Contents!Start(i)
<1>1. /\ NewFileStore.sealed = FALSE /\ NewFileStore.mapping = FALSE
      /\ NewFileStore.blocks = << >> /\ TypeOK
  BY Parts DEF NewFileStore
<1>2. CASE StartFresh(i)
  <2>1. Begin(i, NewFileStore)
    BY <1>2 DEF StartFresh
  <2>2. file'[i] = NewFileStore
    BY <1>1, <2>1 DEF Begin, TypeOK
  <2>3. Content(i)' = << >>
    BY <2>2, NewContent
  <2> QED
    BY <1>1, <2>1, <2>3, NewIsFile, BeginIsStart
<1>3. CASE StartMapped(i)
  <2>1. Begin(i, MappedFile)
    BY <1>3 DEF StartMapped, MappedFile
  <2>2. /\ MappedFile.size = Len(Image) /\ MappedFile.limit = Len(Image)
        /\ MappedFile.mapping = (Image # << >>) /\ MappedFile.sealed = FALSE
        /\ DOMAIN MappedFile.blocks = {}
    BY <1>1, NewIsFile DEF MappedFile, File
  <2>3. file'[i] = MappedFile
    BY <1>1, <2>1 DEF Begin, TypeOK
  <2>4. ASSUME NEW k \in 1 .. Len(Image)
        PROVE  ReadIn(bytes', MappedFile, k - 1) = Image[k]
    <3>1. Len(Image) \in Nat /\ Image # << >> /\ k - 1 < Len(Image) /\ k - 1 + 1 = k
      BY ImageAssumption
    <3> QED
      BY <2>2, <3>1 DEF ReadIn
  <2>5. Content(i)' = [k \in 1 .. Len(Image) |-> Image[k]]
    <3>1. Content(i)' = [k \in 1 .. MappedFile.size |-> ReadIn(bytes', MappedFile, k - 1)]
      BY <2>3, ContentIs
    <3> QED
      BY <2>2, <2>4, <3>1
  <2>6. [k \in 1 .. Len(Image) |-> Image[k]] = Image
    BY ImageAssumption
  <2> QED
    BY <2>1, <2>2, <2>5, <2>6, MappedIsFile, BeginIsStart
<1>4. ASSUME NEW r \in Instance, StartFork(i, r)
      PROVE  Contents!Start(i)
  <2>1. r \in owned /\ Begin(i, Fork(file[r])) /\ Sound(file[r])
    BY <1>4 DEF StartFork, Check
  <2>2. file[r].sealed /\ ~file[r].mapping /\ file[r] \in File
    BY <2>1, Parts DEF Sound
  <2> DEFINE f == Fork(file[r])
  <2>3. f \in File
    BY ForkIsFile, Parts
  <2>4. /\ f.size = file[r].size /\ f.blocks = file[r].blocks
        /\ f.mapping = FALSE /\ f.sealed = FALSE
    BY <1>1, NewIsFile DEF Fork, File
  <2> HIDE DEF f
  <2>5. file'[i] = f /\ bytes' = bytes
    BY <1>1, <2>1 DEF Begin, TypeOK, f
  <2>6. ASSUME NEW k PROVE ReadIn(bytes, f, k) = ReadIn(bytes, file[r], k)
    BY <2>2, <2>4 DEF ReadIn
  <2>7. [k \in 1 .. f.size |-> ReadIn(bytes, f, k - 1)]
          = [k \in 1 .. file[r].size |-> ReadIn(bytes, file[r], k - 1)]
    BY <2>4, <2>6
  <2>8. Content(i)' = [k \in 1 .. f.size |-> ReadIn(bytes, f, k - 1)]
    BY <2>5, ContentIs
  <2>9. Content(i)' = Content(r)
    BY <2>7, <2>8, ContentIs
  <2>10. Begin(i, f)
    BY <2>1 DEF f
  <2> QED
    BY <2>1, <2>3, <2>4, <2>9, <2>10, BeginIsStart
<1> QED
  BY <1>2, <1>3, <1>4

\* WriteAt is the write of a plain file.
LEMMA WriteIsWrite ==
  ASSUME StoreInvariant, DOMAIN bytes = Instance, NEW i \in Instance,
         NEW off \in 0 .. MaxSize - 1, NEW p \in Data, off + Len(p) <= MaxSize,
         WriteAt(i, off, p)
  PROVE  Contents!Write(i)
<1> DEFINE T == Touched(off, p)
           f == file[i]
           g == WrittenFile(i, off, p)
           end == off + Len(p)
           s == Content(i)
<1>1. /\ off \in Nat /\ p \in Seq(Byte) /\ Len(p) >= 1 /\ Len(p) \in Nat
  BY DataIsSeq, SizeAssumption
<1>2. /\ pc[i] = "running" /\ ~file[i].sealed /\ pc' = pc /\ owned' = owned
      /\ bytes' = [a \in Instance |-> [b \in Index |->
           IF b \in T /\ Writable(i, b).array = a
           THEN WriteBlock(i, b, off, p) ELSE bytes[a][b]]]
  BY Zenon DEF WriteAt
<1>3. TypeOK /\ Layout(f) /\ Arrays(i) /\ f \in File /\ i \notin owned
  BY <1>2, Parts DEF Handover
<1>4. file' = [file EXCEPT ![i] = g]
  BY <1>3 DEF WriteAt, WrittenFile, WrittenMap, TypeOK
<1>5. Wrote(i, off, p)
  BY <1>1, <1>3, WrittenIsFile
<1>5a. /\ g \in File /\ g.sealed = f.sealed
       /\ g.size = (IF f.size <= end THEN end ELSE f.size)
  BY <1>5 DEF Wrote
<1>6. \A b \in T : Writable(i, b).array = i
  BY <1>5 DEF Wrote
<1>7. T \subseteq Index
  BY <1>1, TouchedOverlap
<1> HIDE DEF g, T
<1>8. file'[i] = g
  BY <1>3, <1>4 DEF TypeOK
<1>9. \A b \in T : bytes'[i][b] = WriteBlock(i, b, off, p)
  BY <1>2, <1>6, <1>7
<1>10. \A b \in DOMAIN f.blocks \ T :
         bytes'[f.blocks[b].array][b] = bytes[f.blocks[b].array][b]
  <2>1. \A b \in DOMAIN f.blocks : f.blocks[b].array \in Instance /\ b \in Index
    BY <1>3, FileParts
  <2> QED
    BY <1>2, <2>1
<1>11. \A j \in Instance \ {i}, b \in Index : bytes'[j][b] = bytes[j][b]
  BY <1>2, <1>6
<1>12. \A j \in Instance \ {i} : file'[j] = file[j] /\ pc'[j] = pc[j]
  BY <1>2, <1>3, <1>4 DEF TypeOK
<1>13. /\ Statuses' = [Statuses EXCEPT ![i] = Status(i)']
       /\ Files' = [Files EXCEPT ![i] = Content(i)']
  BY <1>2, <1>3, <1>11, <1>12, OneFile
<1>14. Statuses[i] = "open" /\ Status(i)' = "open"
  BY <1>2, <1>3, <1>5a, <1>8 DEF Statuses, Status
<1>15. f.size \in Nat /\ Len(s) = f.size
       /\ \A k \in 1 .. f.size : s[k] = ReadIn(bytes, f, k - 1)
  BY <1>3, ContentLen
<1>16. Max({Len(s), end}) = g.size /\ g.size \in Nat
  <2>1. end \in Int /\ Len(s) \in Int /\ Len(s) = f.size
    BY <1>1, <1>15
  <2> HIDE DEF end
  <2>2. Max({Len(s), end}) = IF Len(s) <= end THEN end ELSE Len(s)
    BY <2>1, MaxOf
  <2>3. Max({Len(s), end}) = g.size
    BY <1>5a, <2>1, <2>2
  <2>4. g.size \in Nat
    BY <1>1, <1>5a, <1>15 DEF end
  <2>5. QED
    BY <2>3, <2>4
<1> HIDE DEF s, f
<1>17. ASSUME NEW k \in 1 .. g.size
       PROVE  ReadIn(bytes', g, k - 1) =
                CASE k > off /\ k <= off + Len(p) -> p[k - off]
                  [] k <= Len(s) /\ (k <= off \/ k > off + Len(p)) -> s[k]
                  [] OTHER -> 0
  <2>1. k - 1 \in Nat /\ k \in Nat
    BY <1>16
  <2>2. ReadIn(bytes', g, k - 1) =
          IF off <= k - 1 /\ k - 1 < end THEN p[k - 1 - off + 1]
          ELSE IF k - 1 < f.size THEN ReadIn(bytes, f, k - 1) ELSE 0
    BY <1>1, <1>3, <1>9, <1>10, <2>1, WrittenReads DEF f, g, T
  <2>3. CASE k > off /\ k <= off + Len(p)
    <3>1. k - 1 - off + 1 = k - off /\ off <= k - 1 /\ k - 1 < end
      BY <1>1, <2>1, <2>3
    <3> QED
      BY <1>1, <2>1, <2>2, <2>3, <3>1
  <2>4. CASE ~(k > off /\ k <= off + Len(p))
    <3>1. ~(off <= k - 1 /\ k - 1 < end)
      BY <1>1, <2>1, <2>4
    <3>2. k <= Len(s) <=> k - 1 < f.size
      BY <1>15, <2>1
    <3>3. k <= Len(s) => s[k] = ReadIn(bytes, f, k - 1)
      BY <1>15, <2>1
    <3>4. k <= off \/ k > off + Len(p)
      BY <1>1, <2>1, <2>4
    <3> QED
      BY <2>2, <2>4, <3>1, <3>2, <3>3, <3>4
  <2> QED
    BY <2>3, <2>4
<1>18. Content(i)' = Contents!Written(s, off, p)
  <2>1. Content(i)' = [k \in 1 .. g.size |-> ReadIn(bytes', g, k - 1)]
    BY <1>8, ContentIs
  <2>2. Contents!Written(s, off, p) =
          [k \in 1 .. g.size |->
             CASE k > off /\ k <= off + Len(p) -> p[k - off]
               [] k <= Len(s) /\ (k <= off \/ k > off + Len(p)) -> s[k]
               [] OTHER -> 0]
    <3>1. Contents!Max({Len(s), off + Len(p)}) = g.size
      BY <1>16 DEF Contents!Max, Max
    <3> QED
      BY <3>1 DEF Contents!Written
  <2> QED
    BY <1>17, <2>1, <2>2
<1> DEFINE w == <<off, p>>
<1>19. w \in Contents!Writes
  <2>1. Contents!Data = Data
    BY DEF Data, Contents!Data
  <2> QED
    BY <2>1 DEF Contents!Writes
<1>20. w[1] = off /\ w[2] = p
  OBVIOUS
<1>21. Files[i] = s
  BY DEF Files, s
<1> HIDE DEF w
<1>22. Content(i)' = Contents!Written(Files[i], w[1], w[2])
  BY <1>18, <1>20, <1>21
<1>23. Statuses' = Statuses
  BY <1>13, <1>14 DEF Statuses
<1>24. Files' = [Files EXCEPT ![i] = Contents!Written(Files[i], w[1], w[2])]
  BY <1>13, <1>22
<1> QED
  BY <1>14, <1>19, <1>23, <1>24 DEF Contents!Write, Contents!Becomes, Statuses, Files

\* Resize is the resize of a plain file.
LEMMA ResizeIsResize ==
  ASSUME StoreInvariant, DOMAIN bytes = Instance, NEW i \in Instance,
         NEW n \in 0 .. MaxSize, Resize(i, n)
  PROVE  Contents!Resize(i)
<1> DEFINE f == file[i]
           g == Resized(f, n)
           s == Content(i)
<1>1. /\ pc[i] = "running" /\ ~file[i].sealed /\ pc' = pc
      /\ bytes' = bytes /\ owned' = owned
  BY Zenon DEF Resize
<1>2. TypeOK /\ Layout(f) /\ f \in File /\ i \notin owned
  BY <1>1, Parts DEF Handover
<1>3. file' = [file EXCEPT ![i] = g]
  BY DEF Resize, Resized
<1>4. n \in Nat /\ f.size \in Nat
  BY <1>2, FileParts, SizeAssumption
<1>5. g.size = n /\ g.sealed = f.sealed
  <2>1. CASE n < f.size
    BY <1>2, <1>4, <2>1, ShrunkIsFile DEF Resized
  <2>2. CASE ~(n < f.size)
    BY <1>2, <2>2 DEF Resized, File
  <2> QED
    BY <2>1, <2>2
<1>6. file'[i] = g
  BY <1>2, <1>3 DEF TypeOK
<1>7. /\ \A j \in Instance \ {i} : file'[j] = file[j] /\ pc'[j] = pc[j]
      /\ \A j \in Instance \ {i}, b \in Index : bytes'[j][b] = bytes[j][b]
  BY <1>1, <1>2, <1>3 DEF TypeOK
<1>8. /\ Statuses' = [Statuses EXCEPT ![i] = Status(i)']
      /\ Files' = [Files EXCEPT ![i] = Content(i)']
  BY <1>1, <1>2, <1>7, OneFile
<1>9. Statuses[i] = "open" /\ Status(i)' = "open"
  <2> HIDE DEF g
  <2> QED
    BY <1>1, <1>2, <1>5, <1>6 DEF Statuses, Status
<1>10. Statuses' = Statuses
  BY <1>8, <1>9 DEF Statuses
<1>11. f.size \in Nat /\ Len(s) = f.size
       /\ \A k \in 1 .. f.size : s[k] = ReadIn(bytes, f, k - 1)
  BY <1>2, ContentLen
<1> HIDE DEF f, s
<1>12. ASSUME NEW k \in 1 .. n
       PROVE  ReadIn(bytes, g, k - 1) = IF k <= Len(s) THEN s[k] ELSE 0
  <2>1. k - 1 \in Nat /\ k \in Nat /\ k - 1 < n
    BY <1>4
  <2>2. k <= Len(s) => s[k] = ReadIn(bytes, f, k - 1)
    BY <1>11, <2>1
  <2>3. CASE n < f.size
    <3>1. g = Shrunk(f, n)
      BY <2>3 DEF Resized
    <3>2. ReadIn(bytes, g, k - 1) = ReadIn(bytes, f, k - 1)
      BY <1>2, <1>4, <2>1, <2>3, <3>1, ShrunkReads DEF f
    <3>3. k <= Len(s)
      BY <1>4, <1>11, <2>1, <2>3
    <3> QED
      BY <2>2, <3>2, <3>3
  <2>4. CASE ~(n < f.size)
    <3>1. g = [f EXCEPT !.size = n]
      BY <2>4 DEF Resized
    <3> HIDE DEF g
    <3>2. g.blocks = f.blocks /\ g.mapping = f.mapping /\ g.limit = f.limit
      BY <1>2, <3>1 DEF File
    <3>3. ReadIn(bytes, g, k - 1) = ReadIn(bytes, f, k - 1)
      BY <3>2 DEF ReadIn
    <3>4. f.size <= k - 1 => ReadIn(bytes, f, k - 1) = 0
      BY <1>2, <2>1, BeyondEnd DEF f
    <3>5. k <= Len(s) \/ f.size <= k - 1
      BY <1>11, <2>1
    <3> QED
      BY <1>11, <2>1, <2>2, <3>3, <3>4, <3>5
  <2> QED
    BY <2>3, <2>4
<1> HIDE DEF g
<1>13. Content(i)' = Contents!Resized(s, n)
  <2>1. Content(i)' = [k \in 1 .. g.size |-> ReadIn(bytes', g, k - 1)]
    BY <1>6, ContentIs
  <2> QED
    BY <1>1, <1>5, <1>12, <2>1 DEF Contents!Resized
<1>14. Files[i] = s
  BY DEF Files, s
<1>15. Files' = [Files EXCEPT ![i] = Contents!Resized(Files[i], n)]
  BY <1>8, <1>13, <1>14
<1> QED
  BY <1>9, <1>10, <1>15 DEF Contents!Resize, Contents!Becomes, Statuses, Files

\* FreezeRoot freezes the file and changes none of its bytes.
LEMMA FreezeIsFreeze ==
  ASSUME StoreInvariant, DOMAIN bytes = Instance, NEW i \in Instance, FreezeRoot(i)
  PROVE  Contents!Freeze(i)
<1> DEFINE f == file[i]
           g == SealedFile(f, i)
           C == Copied(f)
<1>1. pc[i] = "ended" /\ pc' = [pc EXCEPT ![i] = "sealed"] /\ owned' = owned
  BY DEF FreezeRoot
<1>2. /\ bytes' = [bytes EXCEPT ![i] = [b \in Index |-> IF b \in C THEN ReadBlock(f, b) ELSE @[b]]]
      /\ file' = [file EXCEPT ![i] = g]
  BY DEF FreezeRoot, Seal, SealedFile, Copied
<1>3. TypeOK /\ Layout(f) /\ f \in File /\ i \notin owned
  BY <1>1, Parts DEF Handover
<1>4. ~f.sealed
  BY <1>1, Parts DEF Storage
<1>5. g.size = f.size /\ g.sealed = TRUE
  BY <1>3, SealedIsFile
<1>6. C \subseteq Index /\ C \cap DOMAIN f.blocks = {}
  BY DEF Copied
<1> HIDE DEF g, C
<1>7. file'[i] = g /\ pc'[i] = "sealed"
  BY <1>1, <1>2, <1>3 DEF TypeOK
<1>8. /\ \A j \in Instance \ {i} : file'[j] = file[j] /\ pc'[j] = pc[j]
      /\ \A j \in Instance \ {i}, b \in Index : bytes'[j][b] = bytes[j][b]
  BY <1>1, <1>2, <1>3 DEF TypeOK
<1>9. /\ Statuses' = [Statuses EXCEPT ![i] = Status(i)']
      /\ Files' = [Files EXCEPT ![i] = Content(i)']
  BY <1>1, <1>3, <1>8, OneFile
<1>10. Statuses[i] = "open" /\ Status(i)' = "frozen"
  BY <1>1, <1>3, <1>4, <1>5, <1>7 DEF Statuses, Status
<1>11. \A b \in C : bytes'[i][b] = ReadBlock(f, b)
  BY <1>2, <1>6
<1>12. \A b \in DOMAIN f.blocks :
         bytes'[f.blocks[b].array][b] = bytes[f.blocks[b].array][b]
  <2>1. \A b \in DOMAIN f.blocks : f.blocks[b].array \in Instance /\ b \in Index
    BY <1>3, FileParts
  <2> QED
    BY <1>2, <1>6, <2>1
<1>13. ASSUME NEW k \in 1 .. f.size
       PROVE  ReadIn(bytes', g, k - 1) = ReadIn(bytes, f, k - 1)
  <2>1. f.size \in Nat
    BY <1>3, FileParts
  <2>2. k - 1 \in Nat /\ k - 1 < f.size
    BY <2>1
  <2> QED
    BY <1>3, <1>11, <1>12, <2>2, SealedReads DEF g, C
<1>14. Content(i)' = Content(i)
  <2>1. Content(i)' = [k \in 1 .. f.size |-> ReadIn(bytes', g, k - 1)]
    BY <1>5, <1>7, ContentIs
  <2>2. Content(i) = [k \in 1 .. f.size |-> ReadIn(bytes, f, k - 1)]
    BY ContentIs
  <2> QED
    BY <1>13, <2>1, <2>2
<1>15. Files' = Files
  BY <1>9, <1>14 DEF Files
<1> QED
  BY <1>9, <1>10, <1>15 DEF Contents!Freeze, Statuses, Files

\* CompleteRoot keeps a frozen file as it is, or drops it.
LEMMA CompleteIsDrop ==
  ASSUME StoreInvariant, bytes = [a \in Instance |-> bytes[a]], NEW i \in Instance, CompleteRoot(i)
  PROVE  Contents!Drop(i) \/ UNCHANGED <<Statuses, Files>>
<1>1. /\ TypeOK /\ pc[i] = "sealed" /\ file[i].sealed
      /\ DOMAIN bytes = Instance /\ owned' = owned
  BY Parts DEF CompleteRoot, Storage
<1>2. CASE CanComplete(capture[i]) /\ Sound(file[i])
  <2>1. Exit(i, "exited", TRUE)
    BY <1>2 DEF CompleteRoot
  <2>2. file' = file /\ bytes' = bytes /\ pc' = [pc EXCEPT ![i] = "exited"]
    BY <1>1, <2>1 DEF Exit, TypeOK
  <2>3. \A j \in Instance : Status(j)' = Status(j)
    BY <1>1, <2>2 DEF Status, TypeOK
  <2> QED
    BY <2>2, <2>3, NoFile
<1>3. CASE ~(CanComplete(capture[i]) /\ Sound(file[i]))
  <2>1. Exit(i, "failed", FALSE)
    BY <1>3 DEF CompleteRoot
  <2> QED
    BY <1>1, <2>1, ExitIsDrop
<1> QED
  BY <1>2, <1>3

\* Discard drops the frozen file of a root that was there.
LEMMA DiscardIsDrop ==
  ASSUME StoreInvariant, DOMAIN bytes = Instance, NEW i \in Instance, Discard(i)
  PROVE  Contents!Drop(i) \/ UNCHANGED <<Statuses, Files>>
<1>1. TypeOK /\ pc' = pc /\ host[i] = "finishing" /\ owned' = owned
  BY Parts DEF Discard
<1>2. CASE capture[i].native
  <2>1. /\ file' = [file EXCEPT ![i] = NewFileStore]
        /\ bytes' = [bytes EXCEPT ![i] = [k \in Index |-> Zeros]]
    BY <1>2 DEF Discard, Released
  <2>2. file[i].sealed /\ i \notin owned /\ pc[i] = "exited"
    BY <1>1, <1>2, Parts DEF Handover
  <2>3. file'[i] = NewFileStore
    BY <1>1, <2>1 DEF TypeOK
  <2>4. /\ \A j \in Instance \ {i} : file'[j] = file[j] /\ pc'[j] = pc[j]
        /\ \A j \in Instance \ {i}, b \in Index : bytes'[j][b] = bytes[j][b]
    BY <1>1, <2>1 DEF TypeOK
  <2>5. /\ Statuses' = [Statuses EXCEPT ![i] = Status(i)']
        /\ Files' = [Files EXCEPT ![i] = Content(i)']
    BY <1>1, <2>2, <2>4, OneFile
  <2>6. Content(i)' = << >>
    BY <2>3, NewContent
  <2>7. Status(i)' = "none" /\ Statuses[i] = "frozen"
    BY <1>1, <2>2, <2>3 DEF Status, Statuses, NewFileStore
  <2> QED
    BY <2>5, <2>6, <2>7 DEF Contents!Drop, Statuses, Files
<1>3. CASE ~capture[i].native
  <2>1. UNCHANGED <<file, bytes>>
    BY <1>3 DEF Discard, Released
  <2>2. \A j \in Instance : Status(j)' = Status(j)
    BY <1>1, <2>1 DEF Status
  <2> QED
    BY <2>1, <2>2, NoFile
<1> QED
  BY <1>2, <1>3

\* TakeRoot hands the root to its snapshot, or finds nothing to hand over.
LEMMA TakeIsKeep ==
  ASSUME StoreInvariant, NEW i \in Instance, TakeRoot(i)
  PROVE  Contents!Keep(i) \/ UNCHANGED <<Statuses, Files>>
<1>1. host[i] = "finishing" /\ pc' = pc
  BY Zenon DEF TakeRoot
<1>1a. TypeOK /\ UNCHANGED <<file, bytes>> /\ i \notin owned
  BY <1>1, TakeKeeps, Parts DEF Handover
<1>2. owned' = owned \/ (owned' = owned \cup {i} /\ capture[i].native)
  BY Zenon DEF TakeRoot
<1>3. CASE owned' = owned
  BY <1>1, <1>1a, <1>3, NoFile DEF Status
<1>4. CASE owned' = owned \cup {i} /\ capture[i].native
  <2>1. file[i].sealed
    BY <1>4, Parts DEF Handover
  <2>2. Statuses[i] = "frozen" /\ Status(i)' = "kept"
    BY <1>1, <1>1a, <1>4, <2>1 DEF Statuses, Status
  <2>3. \A j \in Instance \ {i} : Status(j)' = Status(j)
    BY <1>1, <1>1a, <1>4 DEF Status
  <2>4. Statuses' = [Statuses EXCEPT ![i] = "kept"]
    BY <2>2, <2>3 DEF Statuses
  <2>5. Files' = Files
    BY <1>1a DEF Files, Content, rootRead
  <2> QED
    BY <2>2, <2>4, <2>5 DEF Contents!Keep, Statuses, Files
<1> QED
  BY <1>2, <1>3, <1>4

(* Every instance has its arrays.                                          *)
Allocated == bytes = [a \in Instance |-> bytes[a]]

\* Arrays are never taken away from an instance.
LEMMA NextAllocated == Allocated /\ [Next]_vars => Allocated'
<1> SUFFICES ASSUME Allocated, [Next]_vars PROVE Allocated'
  OBVIOUS
<1>1. /\ bytes' = bytes
      \/ \E B : bytes' = [a \in Instance |-> B[a]]
      \/ \E i \in Instance : \E s : bytes' = [bytes EXCEPT ![i] = s]
  <2>1. CASE UNCHANGED vars
    BY <2>1 DEF vars
  <2>2. CASE Next
    <3>1. PICK i \in Instance :
            \/ StartFresh(i) \/ StartMapped(i)
            \/ \E r \in Instance : StartFork(i, r)
            \/ \E off \in 0 .. MaxSize - 1, p \in Data :
                 off + Len(p) <= MaxSize /\ WriteAt(i, off, p)
            \/ \E n \in 0 .. MaxSize : Resize(i, n)
            \/ GuestFails(i) \/ GuestEnds(i) \/ NothingRequested(i)
            \/ FreezeRoot(i) \/ CompleteRoot(i)
            \/ RequestCapture(i) \/ Discard(i) \/ TakeRoot(i)
      BY <2>2, Zenon DEF Next
    <3>2. CASE StartFresh(i) \/ StartMapped(i) \/ \E r \in Instance : StartFork(i, r)
      BY <3>2, Zenon DEF StartFresh, StartMapped, StartFork, Begin
    <3>3. ASSUME NEW off, NEW p, WriteAt(i, off, p)
          PROVE  \E B : bytes' = [a \in Instance |-> B[a]]
      <4>1. \E B : bytes' = [a \in Instance |-> B[a]] /\ B = bytes'
        BY <3>3 DEF WriteAt
      <4> QED
        BY <4>1
    <3>4. CASE \E n \in 0 .. MaxSize : Resize(i, n)
      BY <3>4, Zenon DEF Resize
    <3>5. CASE GuestEnds(i) \/ RequestCapture(i)
      BY <3>5, Zenon DEF GuestEnds, RequestCapture
    <3>6. CASE GuestFails(i) \/ NothingRequested(i) \/ CompleteRoot(i)
      BY <3>6, Zenon DEF GuestFails, NothingRequested, CompleteRoot, Exit
    <3>7. CASE FreezeRoot(i)
      BY <3>7, Zenon DEF FreezeRoot, Seal
    <3>8. CASE Discard(i) \/ TakeRoot(i)
      BY <3>8, Zenon DEF Discard, TakeRoot, Released
    <3> QED
      BY <3>1, <3>2, <3>3, <3>4, <3>5, <3>6, <3>7, <3>8
  <2> QED
    BY <2>1, <2>2
<1>2. CASE bytes' = bytes
  BY <1>2 DEF Allocated
<1>3. ASSUME NEW B, bytes' = [a \in Instance |-> B[a]] PROVE Allocated'
  BY <1>3 DEF Allocated
<1>4. ASSUME NEW i \in Instance, NEW s, bytes' = [bytes EXCEPT ![i] = s] PROVE Allocated'
  BY <1>4 DEF Allocated
<1> QED
  BY <1>1, <1>2, <1>3, <1>4

\* The block storage implements one plain file for each instance: what a guest
\* reads back is what its own writes and resizes made, whatever its root, its
\* children and its siblings do.
THEOREM FilesAreIndependentHolds == Spec => FilesAreIndependent
<1>1. Init => Contents!Init
  <2> SUFFICES ASSUME Init PROVE Contents!Init
    OBVIOUS
  <2>1. ASSUME NEW i \in Instance PROVE Status(i) = "none" /\ Content(i) = << >>
    <3>1. file[i] = NewFileStore /\ pc[i] = "unborn" /\ i \notin owned
      BY DEF Init
    <3> QED
      BY <3>1, NewContent DEF Status, NewFileStore
  <2> QED
    BY <2>1 DEF Contents!Init
<1>2. StoreInvariant /\ Allocated /\ [Next]_vars
        => [Contents!Next]_<<Statuses, Files>>
  <2> SUFFICES ASSUME StoreInvariant, Allocated, [Next]_vars
               PROVE  [Contents!Next]_<<Statuses, Files>>
    OBVIOUS
  <2>1. DOMAIN bytes = Instance
    BY DEF Allocated
  <2>2. CASE UNCHANGED vars
    BY <2>2, NoFile DEF vars, Status
  <2>3. CASE Next
    <3>1. PICK i \in Instance :
            \/ StartFresh(i) \/ StartMapped(i)
            \/ \E r \in Instance : StartFork(i, r)
            \/ \E off \in 0 .. MaxSize - 1, p \in Data :
                 off + Len(p) <= MaxSize /\ WriteAt(i, off, p)
            \/ \E n \in 0 .. MaxSize : Resize(i, n)
            \/ GuestFails(i) \/ GuestEnds(i) \/ NothingRequested(i)
            \/ FreezeRoot(i) \/ CompleteRoot(i)
            \/ RequestCapture(i) \/ Discard(i) \/ TakeRoot(i)
      BY <2>3, Zenon DEF Next
    <3> DEFINE step == \/ Contents!Start(i) \/ Contents!Write(i) \/ Contents!Resize(i)
                       \/ Contents!Freeze(i) \/ Contents!Keep(i) \/ Contents!Drop(i)
    <3>2. step => Contents!Next
      BY Zenon DEF Contents!Next
    <3>3. CASE StartFresh(i) \/ StartMapped(i) \/ \E r \in Instance : StartFork(i, r)
      BY <2>1, <3>2, <3>3, StartIsStart
    <3>4. ASSUME NEW off \in 0 .. MaxSize - 1, NEW p \in Data,
                 off + Len(p) <= MaxSize /\ WriteAt(i, off, p)
          PROVE  step
      BY <2>1, <3>4, WriteIsWrite
    <3>5. ASSUME NEW n \in 0 .. MaxSize, Resize(i, n) PROVE step
      BY <2>1, <3>5, ResizeIsResize
    <3>6. ASSUME GuestFails(i) \/ NothingRequested(i) PROVE step
      BY <2>1, <3>6, ExitIsDrop DEF GuestFails, NothingRequested
    <3>7. CASE GuestEnds(i) \/ RequestCapture(i)
      <4>1. UNCHANGED <<file, bytes, owned>>
        BY <3>7 DEF GuestEnds, RequestCapture
      <4>2. \A j \in Instance : Status(j)' = Status(j)
        BY <3>7, <4>1, Parts DEF GuestEnds, RequestCapture, Status, TypeOK
      <4> QED
        BY <4>1, <4>2, NoFile
    <3>8. ASSUME FreezeRoot(i) PROVE step
      BY <2>1, <3>8, FreezeIsFreeze
    <3>9. CASE CompleteRoot(i)
      BY <2>1, <3>2, <3>9, CompleteIsDrop DEF Allocated
    <3>10. CASE Discard(i)
      BY <2>1, <3>2, <3>10, DiscardIsDrop
    <3>11. CASE TakeRoot(i)
      BY <3>2, <3>11, TakeIsKeep
    <3> HIDE DEF step
    <3> QED
      BY <3>1, <3>2, <3>3, <3>4, <3>5, <3>6, <3>7, <3>8, <3>9, <3>10, <3>11
  <2> QED
    BY <2>2, <2>3
<1>3. Init => Allocated
  BY DEF Init, Allocated
<1> QED
  BY <1>1, <1>2, <1>3, NextAllocated, StoreInvariantHolds, PTL
    DEF Spec, FilesAreIndependent, Contents!Spec, Statuses, Files
=============================================================================
