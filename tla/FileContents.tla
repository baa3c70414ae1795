---------------------------- MODULE FileContents ----------------------------
(***************************************************************************)
(* What the block storage of the instances promises (root_test.go checks   *)
(* it against a reference byte slice): every instance has a file of its    *)
(* own, a plain sequence of bytes.  A new instance starts from nothing,    *)
(* from a prepared image or from a file that was frozen and then kept as   *)
(* the root of a snapshot; from then on only its own writes and resizes    *)
(* change it, and once it is frozen nothing does.  A frozen file that no   *)
(* snapshot keeps is never started from, and a kept one is not dropped.    *)
(***************************************************************************)
EXTENDS Integers, Sequences, FiniteSetsExt

CONSTANTS
  Instance,  \* running databases, each with one file
  Byte,      \* what may be written; a hole reads as 0
  MaxSize,   \* bound on the size of a file
  MaxWrite,  \* bound on the length of a write
  Image      \* the prepared file an instance may be started from

VARIABLES
  status,    \* "none", "open", "frozen", or "kept" as the root of a snapshot
  content    \* the bytes of each file; << >> when there is none

Data == UNION {[1 .. n -> Byte] : n \in 1 .. MaxWrite}
Writes == {w \in (0 .. MaxSize - 1) \X Data : w[1] + Len(w[2]) <= MaxSize}

Written(s, off, p) ==
  [k \in 1 .. Max({Len(s), off + Len(p)}) |->
     CASE k > off /\ k <= off + Len(p) -> p[k - off]
       [] k <= Len(s) /\ (k <= off \/ k > off + Len(p)) -> s[k]
       [] OTHER -> 0]

Resized(s, n) == [k \in 1 .. n |-> IF k <= Len(s) THEN s[k] ELSE 0]

(* The file of i becomes one of the sequences in S(what it was).           *)
Becomes(i, S(_)) ==
  LET c == content IN content' \in {[c EXCEPT ![i] = s] : s \in S(c[i])}

Kept == {i \in Instance : status[i] = "kept"}

Start(i) ==
  /\ status[i] = "none"
  /\ status' = [status EXCEPT ![i] = "open"]
  /\ Becomes(i, LAMBDA s : {<< >>, Image} \cup {content[j] : j \in Kept})

Write(i) ==
  /\ status[i] = "open"
  /\ UNCHANGED status
  /\ Becomes(i, LAMBDA s : {Written(s, w[1], w[2]) : w \in Writes})

Resize(i) ==
  /\ status[i] = "open"
  /\ UNCHANGED status
  /\ Becomes(i, LAMBDA s : {Resized(s, n) : n \in 0 .. MaxSize})

Freeze(i) ==
  /\ status[i] = "open"
  /\ status' = [status EXCEPT ![i] = "frozen"]
  /\ UNCHANGED content

Keep(i) ==
  /\ status[i] = "frozen"
  /\ status' = [status EXCEPT ![i] = "kept"]
  /\ UNCHANGED content

Drop(i) ==
  /\ status[i] \in {"open", "frozen"}
  /\ status' = [status EXCEPT ![i] = "none"]
  /\ content' = [content EXCEPT ![i] = << >>]

Init ==
  /\ status = [i \in Instance |-> "none"]
  /\ content = [i \in Instance |-> << >>]

Next ==
  \E i \in Instance :
    Start(i) \/ Write(i) \/ Resize(i) \/ Freeze(i) \/ Keep(i) \/ Drop(i)

Spec == Init /\ [][Next]_<<status, content>>
=============================================================================
