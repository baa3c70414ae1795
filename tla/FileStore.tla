----------------------------- MODULE FileStore ------------------------------
(***************************************************************************)
(* The copy-on-write block storage of the instances and the capture that   *)
(* moves it from a stopped instance to its children:                       *)
(* internal/prepared/root.go and heap.go, used by startInstance            *)
(* (generatedgo/runtime_instance.go), the MemFS adapters FreezeRoot and    *)
(* mapRoot, and Server.SnapshotHeap.                                       *)
(*                                                                         *)
(* An instance has one file.  Its size, block descriptors, private set and *)
(* borrowed mapping are the FileStore's; the bytes live in arrays shared   *)
(* by every descriptor that names them.  An array is named by the instance *)
(* that allocated it and its block index: an instance allocates a second   *)
(* array for an index only after it has dropped the first, which nobody    *)
(* else can have seen before the store was sealed.  A store whose owners   *)
(* are all gone is garbage and becomes NewFileStore.                       *)
(***************************************************************************)
EXTENDS Integers, Sequences, FiniteSetsExt

CONSTANTS
  Instance,  \* running databases, each with one file
  Byte,      \* what the guests write; a hole reads as 0
  BlockSize,
  MaxSize,   \* bound on the size of a file
  MaxWrite,  \* bound on the length of a write
  Image,     \* the file of a directory another process handed over
  MaxOps     \* bound on the writes and resizes of all guests together

ASSUME SizeAssumption == BlockSize \in Nat \ {0} /\ MaxSize \in Nat /\ MaxWrite \in Nat /\ MaxOps \in Nat
ASSUME ImageAssumption == Image \in Seq(Byte) /\ Len(Image) <= MaxSize

VARIABLES
  file,      \* FileStore: rootFileData and the private set of each instance
  bytes,     \* the arrays: bytes[i][k] is the one i allocated for block k
  pc,        \* where startInstance is
  mapped,    \* instances whose prepared image is still mmapped
  capture,   \* Capture of each instance
  host,      \* where SnapshotHeap is: "idle", "finishing", "done"
  owned,     \* instances whose Root a snapshot.Owned holds
  ops        \* writes and resizes so far

vars == <<file, bytes, pc, mapped, capture, host, owned, ops>>

Index == 0 .. (MaxSize - 1) \div BlockSize
Within == 0 .. BlockSize - 1
Touched(off, p) == off \div BlockSize .. (off + Len(p) - 1) \div BlockSize
Blocks(size) == size \div BlockSize + Min({size % BlockSize, 1})

NewFileStore ==
  [size |-> 0, blocks |-> << >>, private |-> {}, mapping |-> FALSE, limit |-> 0, sealed |-> FALSE]

NoStamp == [size |-> 0, blocks |-> << >>]

Capture ==
  [requested |-> FALSE, abandoned |-> FALSE, bound |-> FALSE, native |-> FALSE,
   taken |-> FALSE, stamp |-> NoStamp]

Zeros == [j \in Within |-> 0]

Init ==
  /\ file = [i \in Instance |-> NewFileStore]
  /\ bytes = [i \in Instance |-> [k \in Index |-> Zeros]]
  /\ pc = [i \in Instance |-> "unborn"]
  /\ mapped = {}
  /\ capture = [i \in Instance |-> Capture]
  /\ host = [i \in Instance |-> "idle"]
  /\ owned = {}
  /\ ops = 0

-----------------------------------------------------------------------------
(* Reading and writing                                                     *)

(* The byte at offset k: a hole, or what a truncation hid, reads as zero.  *)
rootRead(f, k) ==
  LET b == k \div BlockSize IN
  IF b \in DOMAIN f.blocks
  THEN IF k % BlockSize < f.blocks[b].valid
       THEN bytes[f.blocks[b].array][b][k % BlockSize] ELSE 0
  ELSE IF f.mapping /\ k < f.limit THEN Image[k + 1] ELSE 0

ReadBlock(f, b) ==
  [j \in Within |-> IF b * BlockSize + j < f.size THEN rootRead(f, b * BlockSize + j) ELSE 0]

ValidIn(f, b) == Min({BlockSize, Max({0, f.size - b * BlockSize})})

(* Block b before the write: the store's own array, or a private copy in   *)
(* an array it allocates.                                                  *)
Writable(i, b) ==
  LET f == file[i] IN
  IF b \in f.private
  THEN [array |-> f.blocks[b].array, valid |-> f.blocks[b].valid, data |-> bytes[f.blocks[b].array][b]]
  ELSE [array |-> i, valid |-> ValidIn(f, b), data |-> ReadBlock(f, b)]

(* The part of block b that p covers starts at First and ends before Last. *)
First(off, b) == Max({off - b * BlockSize, 0})
Last(off, p, b) == Min({off + Len(p) - b * BlockSize, BlockSize})

WriteBlock(i, b, off, p) ==
  LET old == Writable(i, b) IN
  [j \in Within |->
     IF j >= First(off, b) /\ j < Last(off, p, b) THEN p[b * BlockSize + j - off + 1]
     ELSE IF j >= old.valid /\ j < First(off, b) THEN 0
     ELSE old.data[j]]

Mutates == ops < MaxOps /\ ops' = ops + 1

WriteAt(i, off, p) ==
  /\ Mutates
  /\ pc[i] = "running"
  /\ ~file[i].sealed
  /\ bytes' = [a \in Instance |-> [b \in Index |->
       IF b \in Touched(off, p) /\ Writable(i, b).array = a
       THEN WriteBlock(i, b, off, p) ELSE bytes[a][b]]]
  /\ file' = [file EXCEPT
       ![i].blocks = [b \in DOMAIN @ \cup Touched(off, p) |->
          IF b \in Touched(off, p)
          THEN [array |-> Writable(i, b).array, valid |-> Max({Writable(i, b).valid, Last(off, p, b)})]
          ELSE @[b]],
       ![i].private = @ \cup Touched(off, p),
       ![i].size = Max({@, off + Len(p)})]
  /\ UNCHANGED <<pc, mapped, capture, host, owned>>

\* Defect: the block after a boundary that fills its block exactly is kept.
ShrunkKeepingBoundary(f, n) ==
  LET kept == {b \in DOMAIN f.blocks : b <= n \div BlockSize} IN
  [f EXCEPT
     !.blocks = [b \in kept |->
        IF b = n \div BlockSize
        THEN [f.blocks[b] EXCEPT !.valid = Min({@, n % BlockSize})] ELSE f.blocks[b]],
     !.private = @ \cap kept,
     !.limit = Min({@, n}),
     !.size = n]

(* Block.Limit hides the tail of the boundary block without copying it.    *)
Shrunk(f, n) ==
  LET kept == {b \in DOMAIN f.blocks : b < Blocks(n)} IN
  [f EXCEPT
     !.blocks = [b \in kept |->
        IF b = n \div BlockSize
        THEN [f.blocks[b] EXCEPT !.valid = Min({@, n % BlockSize})] ELSE f.blocks[b]],
     !.private = @ \cap kept,
     !.limit = Min({@, n}),
     !.size = n]

Resize(i, n) ==
  /\ Mutates
  /\ pc[i] = "running"
  /\ ~file[i].sealed
  /\ file' = [file EXCEPT ![i] = IF n < @.size THEN Shrunk(@, n) ELSE [@ EXCEPT !.size = n]]
  /\ UNCHANGED <<bytes, pc, mapped, capture, host, owned>>

-----------------------------------------------------------------------------
(* startInstance                                                           *)

Begin(i, f) ==
  /\ pc[i] = "unborn"
  /\ pc' = [pc EXCEPT ![i] = "running"]
  /\ file' = [file EXCEPT ![i] = f]
  /\ capture' = [capture EXCEPT ![i].bound = TRUE]
  /\ UNCHANGED <<bytes, host, owned, ops>>

(* Bound: one origin, all others descend from it.  Stores without a common *)
(* ancestor have no array in common.                                       *)
Origin == \A j \in Instance : pc[j] = "unborn"

StartFresh(i) == Origin /\ Begin(i, NewFileStore) /\ UNCHANGED mapped

(* BorrowMapping of the file another process handed over.                  *)
StartMapped(i) ==
  /\ Origin
  /\ Begin(i, [NewFileStore EXCEPT !.mapping = Image # << >>, !.size = Len(Image), !.limit = Len(Image)])
  /\ mapped' = IF Image # << >> THEN mapped \cup {i} ELSE mapped

(* Root.Check, which CompleteRoot and every later borrower of a root ask:  *)
(* its file is sealed, owns its bytes and has a block layout that fits its *)
(* size, and it has not changed since the root was made.                   *)
Sound(f) ==
  /\ f.sealed /\ ~f.mapping
  /\ \A b \in DOMAIN f.blocks : b < Blocks(f.size) /\ f.blocks[b].valid \in 0 .. BlockSize

Stamp(f) == [size |-> f.size, blocks |-> f.blocks]

Check(i) == Sound(file[i]) /\ Stamp(file[i]) = capture[i].stamp

\* Defect: the blocks a child inherits count as its own.
ForkOwning(f) ==
  [NewFileStore EXCEPT !.size = f.size, !.blocks = f.blocks, !.private = DOMAIN f.blocks]

Fork(f) == [NewFileStore EXCEPT !.size = f.size, !.blocks = f.blocks]

StartFork(i, r) ==
  /\ r \in owned
  /\ Check(r)
  /\ Begin(i, Fork(file[r]))
  /\ UNCHANGED mapped

(* The instance is gone: its mapping is released, and its storage with it  *)
(* unless a root keeps it.                                                 *)
Exit(i, how, kept) ==
  /\ pc' = [pc EXCEPT ![i] = how]
  /\ mapped' = mapped \ {i}
  /\ file' = [file EXCEPT ![i] = IF kept THEN @ ELSE NewFileStore]
  /\ bytes' = [bytes EXCEPT ![i] = IF kept THEN @ ELSE [k \in Index |-> Zeros]]

GuestFails(i) ==
  /\ pc[i] = "running"
  /\ Exit(i, "failed", FALSE)
  /\ UNCHANGED <<capture, host, owned, ops>>

\* Defect: the prepared image is unmapped as soon as the guest has ended.
GuestEndsUnmapping(i) ==
  /\ pc[i] = "running"
  /\ pc' = [pc EXCEPT ![i] = "ended"]
  /\ mapped' = mapped \ {i}
  /\ UNCHANGED <<file, bytes, capture, host, owned, ops>>

GuestEnds(i) ==
  /\ pc[i] = "running"
  /\ pc' = [pc EXCEPT ![i] = "ended"]
  /\ UNCHANGED <<file, bytes, mapped, capture, host, owned, ops>>

NothingRequested(i) ==
  /\ pc[i] = "ended"
  /\ ~capture[i].requested
  /\ Exit(i, "exited", FALSE)
  /\ UNCHANGED <<capture, host, owned, ops>>

(* Blocks of the mapping are copied to the heap before it is let go.       *)
Seal(i) ==
  LET f == file[i]
      copied == IF f.mapping
                THEN {b \in Index : b * BlockSize < Min({f.limit, f.size})} \ DOMAIN f.blocks
                ELSE {}
  IN /\ bytes' = [bytes EXCEPT ![i] =
          [b \in Index |-> IF b \in copied THEN ReadBlock(f, b) ELSE @[b]]]
     /\ file' = [file EXCEPT ![i] =
          [f EXCEPT !.blocks = [b \in DOMAIN f.blocks \cup copied |->
                       IF b \in copied THEN [array |-> i, valid |-> ValidIn(f, b)] ELSE f.blocks[b]],
                    !.mapping = FALSE, !.limit = 0, !.sealed = TRUE, !.private = {}]]

FreezeRoot(i) ==
  /\ pc[i] = "ended"
  /\ capture[i].requested
  /\ Seal(i)
  /\ pc' = [pc EXCEPT ![i] = "sealed"]
  /\ UNCHANGED <<mapped, capture, host, owned, ops>>

\* Defect: only the request is looked at.
CanCompleteLate(c) == c.requested /\ ~c.native

(* CompleteRoot is refused once the host has given the capture up.         *)
CanComplete(c) == ~c.abandoned /\ c.requested /\ c.bound /\ ~c.native /\ ~c.taken

CompleteRoot(i) ==
  /\ pc[i] = "sealed"
  /\ IF CanComplete(capture[i]) /\ Sound(file[i])
     THEN /\ capture' = [capture EXCEPT ![i].native = TRUE, ![i].stamp = Stamp(file[i])]
          /\ Exit(i, "exited", TRUE)
     ELSE /\ Exit(i, "failed", FALSE)
          /\ UNCHANGED capture
  /\ UNCHANGED <<host, owned, ops>>

-----------------------------------------------------------------------------
(* SnapshotHeap                                                            *)

RequestCapture(i) ==
  /\ host[i] = "idle"
  /\ pc[i] # "unborn"
  /\ host' = [host EXCEPT ![i] = "finishing"]
  /\ capture' = [capture EXCEPT ![i].requested = TRUE]
  /\ UNCHANGED <<file, bytes, pc, mapped, owned, ops>>

Released(i) ==
  IF capture[i].native
  THEN /\ file' = [file EXCEPT ![i] = NewFileStore]
       /\ bytes' = [bytes EXCEPT ![i] = [k \in Index |-> Zeros]]
  ELSE UNCHANGED <<file, bytes>>

(* finish returned an error: the guest failed, or the context ended first, *)
(* whatever the guest is doing at that moment.                             *)
Discard(i) ==
  /\ host[i] = "finishing"
  /\ host' = [host EXCEPT ![i] = "done"]
  /\ capture' = [capture EXCEPT ![i] =
       [@ EXCEPT !.abandoned = TRUE, !.native = FALSE, !.bound = FALSE, !.stamp = NoStamp]]
  /\ Released(i)
  /\ UNCHANGED <<pc, mapped, owned, ops>>

TakeRoot(i) ==
  /\ host[i] = "finishing"
  /\ pc[i] = "exited"
  /\ host' = [host EXCEPT ![i] = "done"]
  /\ capture' = [capture EXCEPT ![i].native = FALSE, ![i].bound = FALSE, ![i].taken = TRUE]
  /\ IF ~capture[i].abandoned /\ ~capture[i].taken /\ capture[i].native /\ Check(i)
     THEN /\ owned' = owned \cup {i}
          /\ UNCHANGED <<file, bytes>>
     ELSE /\ Released(i)
          /\ UNCHANGED owned
  /\ UNCHANGED <<pc, mapped, ops>>

-----------------------------------------------------------------------------
Data == UNION {[1 .. n -> Byte] : n \in 1 .. MaxWrite}

Next ==
  \E i \in Instance :
    \/ StartFresh(i) \/ StartMapped(i)
    \/ \E r \in Instance : StartFork(i, r)
    \/ \E off \in 0 .. MaxSize - 1, p \in Data : off + Len(p) <= MaxSize /\ WriteAt(i, off, p)
    \/ \E n \in 0 .. MaxSize : Resize(i, n)
    \/ GuestFails(i) \/ GuestEnds(i) \/ NothingRequested(i)
    \/ FreezeRoot(i) \/ CompleteRoot(i)
    \/ RequestCapture(i) \/ Discard(i) \/ TakeRoot(i)

Spec == Init /\ [][Next]_vars

-----------------------------------------------------------------------------
(* Properties                                                              *)

Content(i) == [k \in 1 .. file[i].size |-> rootRead(file[i], k - 1)]

Status(i) ==
  IF i \in owned THEN "kept"
  ELSE IF file[i].sealed THEN "frozen"
  ELSE IF pc[i] \in {"running", "ended"} THEN "open" ELSE "none"

Contents == INSTANCE FileContents WITH
  status <- [i \in Instance |-> Status(i)],
  content <- [i \in Instance |-> Content(i)]

\* Read back through descriptors, truncated tails, holes and borrowed pages,
\* every file is the plain byte sequence its own writes and resizes made it:
\* neither a child nor a sibling that shares its arrays can change it, a frozen
\* file never changes, a fork starts with the bytes of a root that TakeRoot
\* handed to a snapshot, and bytes cut off by a resize do not come back.
FilesAreIndependent == Contents!Spec

\* A sealed file always has a layout that CompleteRoot accepts, and a root goes
\* on passing Root.Check at every later borrow, while children write: a capture
\* that is still wanted never fails for its files.
RootsPassCheck ==
  \A i \in Instance :
    /\ pc[i] = "sealed" => Sound(file[i])
    /\ capture[i].native \/ i \in owned => Check(i)

\* The prepared image is unmapped only when no store that may still be read
\* depends on it: neither the guest, nor Seal, nor a root made from it.
MappingOutlivesReaders == \A i \in Instance : file[i].mapping => i \in mapped

\* A capture the host has given up leaves no root behind, even if the guest
\* ends and completes it afterwards: its storage is not kept alive.
DiscardLeavesNothing ==
  \A i \in Instance :
    /\ capture[i].abandoned => ~capture[i].native /\ i \notin owned
    /\ pc[i] \in {"exited", "failed"} /\ ~capture[i].native /\ i \notin owned
         => file[i] = NewFileStore
=============================================================================
