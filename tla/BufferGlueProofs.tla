-------------------------- MODULE BufferGlueProofs --------------------------
(***************************************************************************)
(* Proofs about BufferGlue, for buffers of any number and length and any   *)
(* nesting of calls.                                                       *)
(***************************************************************************)
EXTENDS BufferGlue, FiniteSetTheorems, SequenceTheorems, WellFoundedInduction, TLAPS

(***************************************************************************)
(* Induction, in a form that the provers can apply.                        *)
(***************************************************************************)

\* A set with 0 and the successors of its elements has every natural.
LEMMA NaturalsIn ==
    ASSUME NEW T, 0 \in T, \A n \in Nat : n \in T => n + 1 \in T
    PROVE  \A n \in Nat : n \in T
<1> DEFINE R == OpToRel(<, Nat)
<1> SUFFICES ASSUME Nat \ T # {} PROVE FALSE
  OBVIOUS
<1>1. PICK x \in Nat \ T : \A y \in Nat \ T : ~(<<y, x>> \in R)
  <2>1. IsWellFoundedOn(R, Nat)
    BY NatLessThanWellFounded
  <2> HIDE DEF R
  <2>2. Nat \ T \in SUBSET Nat
    OBVIOUS
  <2> QED BY <2>1, <2>2, WFMin
<1>2. \A y \in Nat \ T : ~(y < x)
  BY <1>1 DEF OpToRel
<1> HIDE DEF R
<1>3. x # 0 /\ x - 1 \in Nat /\ x - 1 < x /\ (x - 1) + 1 = x
  OBVIOUS
<1> QED BY <1>1, <1>2, <1>3

(***************************************************************************)
(* The inductive invariant, in parts that speak of one slab and one stack. *)
(***************************************************************************)

Passed == [out : BOOLEAN, handle : Nat, rest : Int]
WrapperFrame == [kind : {"wrapper"}, buffers : Seq(Passed), called : BOOLEAN]
ReadFrame == [kind : {"in_read"}, handle : Nat, left : Nat, processed : Nat, pending : BOOLEAN]
WriteFrame == [kind : {"out_write"}, handle : Nat, left : Nat, want : Nat]
FrameRecord == WrapperFrame \cup ReadFrame \cup WriteFrame \cup [kind : {"wasm", "alloc", "import"}]

Entry == [tag : {"Full"}, buffer : BufferRecord] \cup [tag : {"Empty"}, next : Nat]

SlabTyped(s) ==
    /\ s = [storage |-> s.storage, next |-> s.next]
    /\ slabLen(s) \in Nat /\ s.next \in 0..slabLen(s)
    /\ s.storage \in [0..(slabLen(s) - 1) -> Entry]

\* p is the way along the free list, of m entries.
IsFreePath(s, p, m) ==
    /\ p[0] = s.next /\ p[m] = slabLen(s)
    /\ \A k \in 0..(m - 1) : /\ p[k] \in DOMAIN s.storage /\ s.storage[p[k]].tag = "Empty"
                             /\ s.storage[p[k]].next = p[k + 1]
    /\ \A j, k \in 0..m : p[j] = p[k] => j = k
    /\ \A i \in DOMAIN s.storage \ Allocated(s) : \E k \in 0..(m - 1) : p[k] = i

FreePath(s) == \E m \in Nat : \E p \in [0..m -> Nat] : IsFreePath(s, p, m)

SlabFine(s) == SlabTyped(s) /\ FreePath(s)

\* The k-th buffer of frame d.
IsBuffer(stk, d, k) ==
    d \in 1..Len(stk) /\ stk[d].kind = "wrapper" /\ k \in 1..Len(stk[d].buffers)

\* The frame and the index of an entry, and what is left behind its pointer.
FrameOf(s, h) == s.storage[h].buffer.ptr[1]
IndexOf(s, h) == s.storage[h].buffer.ptr[2]
RestOf(s, stk, h) == stk[FrameOf(s, h)].buffers[IndexOf(s, h)].rest

\* An entry and the buffer it points to name each other.
Linked(out, s, stk, h) ==
    /\ IsBuffer(stk, FrameOf(s, h), IndexOf(s, h))
    /\ stk[FrameOf(s, h)].buffers[IndexOf(s, h)].out = out
    /\ stk[FrameOf(s, h)].buffers[IndexOf(s, h)].handle = h

Owned(out, s, stk) ==
    /\ \A h \in Allocated(s) : Linked(out, s, stk, h)
    /\ \A d, k \in Nat : IsBuffer(stk, d, k) /\ stk[d].buffers[k].out = out =>
          /\ k <= MaxBuffers
          /\ stk[d].buffers[k].handle \in Allocated(s)
          /\ FrameOf(s, stk[d].buffers[k].handle) = d
          /\ IndexOf(s, stk[d].buffers[k].handle) = k

RawBacked(s, stk) ==
    \A h \in Allocated(s) :
        s.storage[h].buffer.raw => s.storage[h].buffer.len = RestOf(s, stk, h)

\* What a frame has taken from the iterator behind a handle and not subtracted.
TakenBy(f, h) == IF Reads(f, h) THEN f.processed + (IF f.pending THEN 1 ELSE 0) ELSE 0
Taken(stk, h) == Total([d \in 1..Len(stk) |-> TakenBy(stk[d], h)])

IterBacked(s, stk) ==
    \A h \in Allocated(s) : ~s.storage[h].buffer.raw =>
        /\ RestOf(s, stk, h) >= 0
        /\ RestOf(s, stk, h) + Taken(stk, h) <= s.storage[h].buffer.len

\* A frame of in_read or out_write is above the wrapper of its buffer.
ReadFine(s, stk, d) ==
    /\ stk[d].handle \in Allocated(s) /\ ~s.storage[stk[d].handle].buffer.raw
    /\ FrameOf(s, stk[d].handle) < d
    /\ stk[d].pending => stk[d].left > 0

WriteFine(s, stk, d) ==
    /\ stk[d].handle \in Allocated(s) /\ ~s.storage[stk[d].handle].buffer.raw
    /\ FrameOf(s, stk[d].handle) < d
    /\ stk[d].left <= stk[d].want /\ stk[d].want <= s.storage[stk[d].handle].buffer.len

ShimsFine(ins, outs, stk) ==
    \A d \in 1..Len(stk) : /\ stk[d].kind = "in_read" => ReadFine(ins, stk, d)
                           /\ stk[d].kind = "out_write" => WriteFine(outs, stk, d)

\* While out_write's shim runs, no buffer is passed and none used.
LockKept(stk) ==
    \A d, e \in 1..Len(stk) : d < e /\ stk[d].kind = "out_write" =>
        /\ stk[e].kind \notin {"in_read", "out_write"}
        /\ stk[e].kind = "wrapper" => stk[e].buffers = <<>>

\* An exported function is called by its wrapper.
WasmBelow(stk) ==
    \A d \in 1..Len(stk) : stk[d].kind = "wasm" => d > 1 /\ stk[d - 1].kind = "wrapper"

Base(ins, outs, stk) ==
    /\ SlabFine(ins) /\ SlabFine(outs)
    /\ stk \in Seq(FrameRecord) /\ Len(stk) <= MaxDepth
    /\ Owned(FALSE, ins, stk) /\ Owned(TRUE, outs, stk)
    /\ RawBacked(ins, stk) /\ RawBacked(outs, stk) /\ IterBacked(ins, stk)
    /\ ShimsFine(ins, outs, stk) /\ LockKept(stk) /\ WasmBelow(stk)

(***************************************************************************)
(* With a guest built on the runtime, more holds.                          *)
(***************************************************************************)

Shims == {"in_read", "out_write"}

\* Its allocator calls nothing, and it uses the buffers of its own call.
ShimsOnTop(stk) ==
    \A d \in 1..Len(stk) : stk[d].kind \in Shims =>
        /\ d = Len(stk) \/ (d = Len(stk) - 1 /\ stk[Len(stk)].kind = "alloc")
        /\ d > 2 /\ stk[d - 1].kind = "wasm"

ReadExact(s, stk, d) ==
    LET h == stk[d].handle IN
    /\ FrameOf(s, h) = d - 2
    /\ stk[d].left + stk[d].processed <= s.storage[h].buffer.len
    /\ s.storage[h].buffer.len = RestOf(s, stk, h) + TakenBy(stk[d], h)

WriteExact(s, stk, d) ==
    LET h == stk[d].handle IN
    /\ FrameOf(s, h) = d - 2
    /\ s.storage[h].buffer.len = RestOf(s, stk, h) + stk[d].want - stk[d].left

ShimsExact(ins, outs, stk) ==
    \A d \in 1..Len(stk) : /\ stk[d].kind = "in_read" => ReadExact(ins, stk, d)
                           /\ stk[d].kind = "out_write" => WriteExact(outs, stk, d)

\* A buffer that no frame works on has what it says, except the innermost
\* ones while a trap is on its way.
LenExact(kind, s, stk, unw) ==
    \A h \in Allocated(s) :
        /\ \A d \in 1..Len(stk) : stk[d].kind = kind => stk[d].handle # h
        /\ unw = "no" \/ \E e \in (FrameOf(s, h) + 1)..Len(stk) : stk[e].kind = "wrapper"
        => s.storage[h].buffer.len = RestOf(s, stk, h)

RuntimeFine ==
    runtime => /\ unwinding \in {"no", "trap"}
               /\ ShimsOnTop(stack) /\ ShimsExact(in_buffers, out_buffers, stack)
               /\ LenExact("in_read", in_buffers, stack, unwinding)
               /\ LenExact("out_write", out_buffers, stack, unwinding)

IInv ==
    /\ Base(in_buffers, out_buffers, stack)
    /\ unwinding \in {"no", "trap", "panic", "abort"} /\ runtime \in BOOLEAN
    /\ RuntimeFine

(***************************************************************************)
(* Slabs.                                                                  *)
(***************************************************************************)

\* The fields of an entry.
LEMMA EntryFields ==
    ASSUME NEW s, SlabTyped(s), NEW i \in DOMAIN s.storage
    PROVE  /\ i \in Nat /\ s.storage[i] \in Entry
           /\ i \in Allocated(s) =>
                 /\ s.storage[i] = [tag |-> "Full", buffer |-> s.storage[i].buffer]
                 /\ s.storage[i].buffer \in BufferRecord
                 /\ s.storage[i].buffer.len \in Nat /\ s.storage[i].buffer.raw \in BOOLEAN
                 /\ FrameOf(s, i) \in 1..MaxDepth /\ IndexOf(s, i) \in 1..MaxBuffers
                 /\ s.storage[i].buffer.ptr = <<FrameOf(s, i), IndexOf(s, i)>>
           /\ i \notin Allocated(s) => s.storage[i].tag = "Empty" /\ s.storage[i].next \in Nat
<1>1. i \in 0..(slabLen(s) - 1) /\ s.storage[i] \in Entry /\ slabLen(s) \in Nat
  BY DEF SlabTyped
<1>2. i \in Nat
  BY <1>1
<1>3. CASE s.storage[i] \in [tag : {"Full"}, buffer : BufferRecord]
  <2>1. /\ s.storage[i] = [tag |-> "Full", buffer |-> s.storage[i].buffer]
        /\ s.storage[i].buffer \in BufferRecord /\ s.storage[i].tag = "Full"
    BY <1>3
  <2>2. /\ s.storage[i].buffer.len \in Nat /\ s.storage[i].buffer.raw \in BOOLEAN
        /\ s.storage[i].buffer.ptr \in (1..MaxDepth) \X (1..MaxBuffers)
    BY <2>1 DEF BufferRecord
  <2> QED BY <1>1, <1>2, <2>1, <2>2 DEF Allocated, FrameOf, IndexOf
<1>4. CASE s.storage[i] \in [tag : {"Empty"}, next : Nat]
  BY <1>1, <1>2, <1>4 DEF Allocated
<1> QED BY <1>1, <1>3, <1>4 DEF Entry

\* The length of a vector by its indices.
LEMMA LengthByIndices ==
    ASSUME NEW s, NEW n \in Nat, DOMAIN s.storage = 0..(n - 1)
    PROVE  slabLen(s) = n
<1>1. Cardinality(0..(n - 1)) = n
  BY FS_Interval
<1> QED BY <1>1 DEF slabLen

LEMMA EmptySlabFine == SlabFine(EmptySlab) /\ Allocated(EmptySlab) = {}
<1>1. DOMAIN EmptySlab.storage = {} /\ EmptySlab.next = 0
  BY DEF EmptySlab
<1>2. slabLen(EmptySlab) = 0
  <2>1. DOMAIN EmptySlab.storage = 0..(0 - 1)
    BY <1>1
  <2> QED BY <2>1, LengthByIndices
<1>3. SlabTyped(EmptySlab)
  BY <1>2 DEF SlabTyped, EmptySlab
<1>4. FreePath(EmptySlab)
  <2> DEFINE p == [k \in 0..0 |-> 0]
  <2>1. p \in [0..0 -> Nat] /\ IsFreePath(EmptySlab, p, 0)
    BY <1>1, <1>2 DEF IsFreePath
  <2> HIDE DEF p
  <2> QED BY <2>1 DEF FreePath
<1> QED BY <1>1, <1>3, <1>4 DEF SlabFine, Allocated

\* The head of the free list is the end of the storage or an empty entry.
LEMMA SlabHead ==
    ASSUME NEW s, SlabFine(s)
    PROVE  s.next \in Nat /\ s.next \notin Allocated(s)
           /\ (s.next # slabLen(s) => s.next \in DOMAIN s.storage)
<1>1. slabLen(s) \in Nat /\ s.next \in 0..slabLen(s) /\ DOMAIN s.storage = 0..(slabLen(s) - 1)
  BY DEF SlabFine, SlabTyped
<1>2. PICK m \in Nat : \E p \in [0..m -> Nat] : IsFreePath(s, p, m)
  BY DEF SlabFine, FreePath
<1>3. PICK p \in [0..m -> Nat] : IsFreePath(s, p, m)
  BY <1>2
<1>4. s.next # slabLen(s) => s.storage[s.next].tag = "Empty"
  <2> SUFFICES ASSUME s.next # slabLen(s) PROVE s.storage[s.next].tag = "Empty"
    OBVIOUS
  <2>1. 0 \in 0..(m - 1)
    BY <1>3 DEF IsFreePath
  <2> QED BY <2>1, <1>3 DEF IsFreePath
<1> QED BY <1>1, <1>4 DEF Allocated

\* insert takes an entry that nobody has.
LEMMA SlabInsertFine ==
    ASSUME NEW s, SlabFine(s), NEW b \in BufferRecord
    PROVE  /\ SlabFine(SlabInsert(s, b))
           /\ Allocated(SlabInsert(s, b)) = Allocated(s) \cup {s.next}
           /\ s.next \in Nat /\ s.next \notin Allocated(s)
           /\ SlabInsert(s, b).storage[s.next].buffer = b
           /\ \A i \in Allocated(s) : SlabInsert(s, b).storage[i] = s.storage[i]
<1> DEFINE t == SlabInsert(s, b)
           L == slabLen(s)
<1>1. /\ L \in Nat /\ s.next \in 0..L /\ DOMAIN s.storage = 0..(L - 1)
      /\ s.storage \in [0..(L - 1) -> Entry] /\ SlabTyped(s)
  BY DEF SlabFine, SlabTyped
<1>2. s.next \in Nat /\ s.next \notin Allocated(s)
  BY SlabHead
<1>3. Buffer(b) \in Entry /\ Buffer(b).tag = "Full" /\ Buffer(b).buffer = b
  BY DEF Buffer, Entry
<1>4. PICK m \in Nat : \E p \in [0..m -> Nat] : IsFreePath(s, p, m)
  BY DEF SlabFine, FreePath
<1>5. PICK p \in [0..m -> Nat] : IsFreePath(s, p, m)
  BY <1>4
<1>6. CASE s.next = L
  <2>1. /\ t.storage = [i \in 0..L |-> IF i = L THEN Buffer(b) ELSE s.storage[i]]
        /\ t.next = L + 1 /\ t = [storage |-> t.storage, next |-> t.next]
    BY <1>6 DEF SlabInsert
  <2>2. DOMAIN t.storage = 0..((L + 1) - 1)
    BY <2>1, <1>1
  <2> HIDE DEF t
  <2>3. slabLen(t) = L + 1
    BY <2>2, <1>1, LengthByIndices
  <2>4. t.storage \in [0..((L + 1) - 1) -> Entry]
    <3>1. \A i \in 0..L : i # L => i \in 0..(L - 1)
      BY <1>1
    <3> QED BY <2>1, <2>2, <3>1, <1>1, <1>3
  <2>5. SlabTyped(t)
    BY <2>1, <2>3, <2>4, <1>1 DEF SlabTyped
  <2>6. \A i \in Allocated(s) : t.storage[i] = s.storage[i]
    BY <2>1, <1>1 DEF Allocated
  <2>7. Allocated(t) = Allocated(s) \cup {s.next} /\ t.storage[s.next].buffer = b
    BY <2>1, <2>2, <1>1, <1>3, <1>6 DEF Allocated
  <2>8. FreePath(t)
    <3>1. m = 0
      <4> SUFFICES ASSUME m # 0 PROVE FALSE
        OBVIOUS
      <4>1. 0 \in 0..(m - 1)
        OBVIOUS
      <4> QED BY <4>1, <1>1, <1>5, <1>6 DEF IsFreePath
    <3>2. \A i \in DOMAIN s.storage : i \in Allocated(s)
      BY <3>1, <1>5 DEF IsFreePath
    <3> DEFINE q == [k \in 0..0 |-> L + 1]
    <3>3. q \in [0..0 -> Nat] /\ q[0] = L + 1
      BY <1>1
    <3> HIDE DEF q
    <3>4. \A i \in DOMAIN t.storage : i \in Allocated(t)
      BY <3>2, <2>2, <2>7, <1>1, <1>6
    <3>5. IsFreePath(t, q, 0)
      BY <3>3, <3>4, <2>1, <2>3 DEF IsFreePath
    <3> QED BY <3>3, <3>5 DEF FreePath
  <2> QED BY <1>2, <2>5, <2>6, <2>7, <2>8 DEF t, SlabFine
<1>7. CASE s.next # L
  <2>1. /\ t.storage = [s.storage EXCEPT ![s.next] = Buffer(b)]
        /\ t.next = s.storage[s.next].next /\ t = [storage |-> t.storage, next |-> t.next]
    BY <1>7 DEF SlabInsert
  <2>2. DOMAIN t.storage = 0..(L - 1) /\ s.next \in 0..(L - 1)
    BY <2>1, <1>1, <1>7
  <2> HIDE DEF t
  <2>3. slabLen(t) = L
    BY <2>2, <1>1, LengthByIndices
  <2>4. m > 0
    BY <1>5, <1>7 DEF IsFreePath
  <2>5. t.next = p[1] /\ p[0] = s.next
    <3>1. 0 \in 0..(m - 1)
      BY <2>4
    <3> QED BY <3>1, <2>1, <1>5 DEF IsFreePath
  <2>6. p[1] \in 0..L
    <3>1. CASE m = 1
      BY <3>1, <1>5, <1>1 DEF IsFreePath
    <3>2. CASE m # 1
      <4>1. 1 \in 0..(m - 1)
        BY <2>4, <3>2
      <4> QED BY <4>1, <1>5, <1>1 DEF IsFreePath
    <3> QED BY <3>1, <3>2
  <2>7. t.storage \in [0..(L - 1) -> Entry]
    BY <2>1, <2>2, <1>1, <1>3
  <2>8. SlabTyped(t)
    BY <2>1, <2>3, <2>5, <2>6, <2>7, <1>1 DEF SlabTyped
  <2>9. \A i \in DOMAIN s.storage : i # s.next => t.storage[i] = s.storage[i]
    BY <2>1
  <2>10. t.storage[s.next] = Buffer(b)
    BY <2>1, <2>2, <1>1
  <2>11. Allocated(t) = Allocated(s) \cup {s.next}
    BY <2>2, <2>9, <2>10, <1>1, <1>3 DEF Allocated
  <2>12. FreePath(t)
    <3> DEFINE q == [k \in 0..(m - 1) |-> p[k + 1]]
    <3>1. q \in [0..(m - 1) -> Nat] /\ m - 1 \in Nat
      BY <2>4
    <3>2. \A k \in 0..(m - 1) : q[k] = p[k + 1]
      OBVIOUS
    <3> HIDE DEF q
    <3>3. q[0] = t.next /\ q[m - 1] = slabLen(t)
      BY <3>2, <2>3, <2>4, <2>5, <1>5 DEF IsFreePath
    <3>4. ASSUME NEW k \in 0..((m - 1) - 1)
          PROVE  /\ q[k] \in DOMAIN t.storage /\ t.storage[q[k]].tag = "Empty"
                 /\ t.storage[q[k]].next = q[k + 1]
      <4>1. k + 1 \in 0..(m - 1) /\ k \in 0..(m - 1) /\ k + 1 \in 0..m /\ 0 \in 0..m /\ (k + 1) + 1 = k + 2
        BY <3>1
      <4>2. p[k + 1] # s.next
        BY <4>1, <2>5, <1>5 DEF IsFreePath
      <4>3. /\ p[k + 1] \in DOMAIN s.storage /\ s.storage[p[k + 1]].tag = "Empty"
            /\ s.storage[p[k + 1]].next = p[(k + 1) + 1]
        BY <4>1, <1>5 DEF IsFreePath
      <4>4. q[k] = p[k + 1] /\ q[k + 1] = p[(k + 1) + 1]
        BY <3>2, <4>1
      <4> QED BY <4>2, <4>3, <4>4, <2>2, <2>9, <1>1
    <3>5. \A j, k \in 0..(m - 1) : q[j] = q[k] => j = k
      <4> SUFFICES ASSUME NEW j \in 0..(m - 1), NEW k \in 0..(m - 1), q[j] = q[k] PROVE j = k
        OBVIOUS
      <4>1. j + 1 \in 0..m /\ k + 1 \in 0..m /\ p[j + 1] = p[k + 1]
        BY <3>2
      <4>2. j + 1 = k + 1
        BY <4>1, <1>5 DEF IsFreePath
      <4> QED BY <4>2
    <3>6. \A i \in DOMAIN t.storage \ Allocated(t) : \E k \in 0..((m - 1) - 1) : q[k] = i
      <4> SUFFICES ASSUME NEW i \in DOMAIN t.storage \ Allocated(t)
                   PROVE  \E k \in 0..((m - 1) - 1) : q[k] = i
        OBVIOUS
      <4>1. i \in DOMAIN s.storage \ Allocated(s) /\ i # s.next
        BY <2>2, <2>11, <1>1
      <4>2. PICK k \in 0..(m - 1) : p[k] = i
        BY <4>1, <1>5 DEF IsFreePath
      <4>3. k - 1 \in 0..((m - 1) - 1) /\ k - 1 \in 0..(m - 1) /\ (k - 1) + 1 = k
        BY <4>1, <4>2, <2>5
      <4>4. q[k - 1] = i
        BY <3>2, <4>2, <4>3
      <4> QED BY <4>3, <4>4
    <3>7. IsFreePath(t, q, m - 1)
      BY <3>3, <3>4, <3>5, <3>6 DEF IsFreePath
    <3> QED BY <3>1, <3>7 DEF FreePath
  <2>13. \A i \in Allocated(s) : t.storage[i] = s.storage[i]
    BY <2>9, <1>2 DEF Allocated
  <2> QED BY <1>2, <1>3, <2>8, <2>10, <2>11, <2>12, <2>13 DEF t, SlabFine
<1> QED BY <1>6, <1>7

\* remove makes the entry the head of the free list.
LEMMA SlabRemoveFine ==
    ASSUME NEW s, SlabFine(s), NEW h \in Allocated(s)
    PROVE  /\ SlabFine(SlabRemove(s, h))
           /\ Allocated(SlabRemove(s, h)) = Allocated(s) \ {h}
           /\ \A i \in Allocated(s) : i # h => SlabRemove(s, h).storage[i] = s.storage[i]
<1> DEFINE t == SlabRemove(s, h)
           L == slabLen(s)
<1>1. /\ L \in Nat /\ s.next \in 0..L /\ DOMAIN s.storage = 0..(L - 1)
      /\ s.storage \in [0..(L - 1) -> Entry] /\ SlabTyped(s)
  BY DEF SlabFine, SlabTyped
<1>2. h \in 0..(L - 1) /\ h \in Nat
  BY <1>1 DEF Allocated
<1>3. Link(s.next) \in Entry /\ Link(s.next).tag = "Empty" /\ Link(s.next).next = s.next
  BY <1>1 DEF Link, Entry
<1>4. PICK m \in Nat : \E p \in [0..m -> Nat] : IsFreePath(s, p, m)
  BY DEF SlabFine, FreePath
<1>5. PICK p \in [0..m -> Nat] : IsFreePath(s, p, m)
  BY <1>4
<1>6. /\ t.storage = [s.storage EXCEPT ![h] = Link(s.next)]
      /\ t.next = h /\ t = [storage |-> t.storage, next |-> t.next]
  BY DEF SlabRemove
<1> HIDE DEF t
<1>7. DOMAIN t.storage = 0..(L - 1) /\ t.storage[h] = Link(s.next)
  BY <1>1, <1>2, <1>6
<1>8. slabLen(t) = L
  BY <1>1, <1>7, LengthByIndices
<1>9. \A i \in DOMAIN s.storage : i # h => t.storage[i] = s.storage[i]
  BY <1>6
<1>10. t.storage \in [0..(L - 1) -> Entry]
  BY <1>1, <1>3, <1>6
<1>11. SlabTyped(t)
  BY <1>1, <1>2, <1>6, <1>8, <1>10 DEF SlabTyped
<1>12. Allocated(t) = Allocated(s) \ {h}
  BY <1>1, <1>3, <1>7, <1>9 DEF Allocated
<1>13. FreePath(t)
  <2> DEFINE q == [k \in 0..(m + 1) |-> IF k = 0 THEN h ELSE p[k - 1]]
  <2>1. q \in [0..(m + 1) -> Nat] /\ m + 1 \in Nat
    BY <1>2
  <2>2. q[0] = h /\ \A k \in 1..(m + 1) : q[k] = p[k - 1]
    OBVIOUS
  <2> HIDE DEF q
  <2>3. q[0] = t.next /\ q[m + 1] = slabLen(t)
    BY <2>2, <1>5, <1>6, <1>8 DEF IsFreePath
  <2>4. \A k \in 0..m : p[k] # h
    <3>1. \A k \in 0..(m - 1) : p[k] # h
      BY <1>5 DEF IsFreePath, Allocated
    <3>2. p[m] # h
      BY <1>2, <1>5 DEF IsFreePath
    <3> QED BY <3>1, <3>2
  <2>5. ASSUME NEW k \in 0..((m + 1) - 1)
        PROVE  /\ q[k] \in DOMAIN t.storage /\ t.storage[q[k]].tag = "Empty"
               /\ t.storage[q[k]].next = q[k + 1]
    <3>1. CASE k = 0
      <4>1. q[1] = p[0] /\ p[0] = s.next
        BY <2>2, <1>5 DEF IsFreePath
      <4> QED BY <3>1, <4>1, <2>2, <1>2, <1>3, <1>7
    <3>2. CASE k # 0
      <4>1. k - 1 \in 0..(m - 1) /\ k - 1 \in 0..m /\ (k - 1) + 1 = k
        BY <3>2
      <4>2. /\ p[k - 1] \in DOMAIN s.storage /\ s.storage[p[k - 1]].tag = "Empty"
            /\ s.storage[p[k - 1]].next = p[(k - 1) + 1]
        BY <4>1, <1>5 DEF IsFreePath
      <4>3. q[k] = p[k - 1] /\ q[k + 1] = p[k] /\ p[k - 1] # h
        BY <2>2, <2>4, <3>2, <4>1
      <4> QED BY <4>1, <4>2, <4>3, <1>1, <1>7, <1>9
    <3> QED BY <3>1, <3>2
  <2>6. \A j, k \in 0..(m + 1) : q[j] = q[k] => j = k
    <3> SUFFICES ASSUME NEW j \in 0..(m + 1), NEW k \in 0..(m + 1), q[j] = q[k] PROVE j = k
      OBVIOUS
    <3>1. CASE j = 0 \/ k = 0
      BY <3>1, <2>2, <2>4
    <3>2. CASE j # 0 /\ k # 0
      <4>1. j - 1 \in 0..m /\ k - 1 \in 0..m /\ p[j - 1] = p[k - 1]
        BY <3>2, <2>2
      <4>2. j - 1 = k - 1
        BY <4>1, <1>5 DEF IsFreePath
      <4> QED BY <4>2
    <3> QED BY <3>1, <3>2
  <2>7. \A i \in DOMAIN t.storage \ Allocated(t) : \E k \in 0..((m + 1) - 1) : q[k] = i
    <3> SUFFICES ASSUME NEW i \in DOMAIN t.storage \ Allocated(t)
                 PROVE  \E k \in 0..((m + 1) - 1) : q[k] = i
      OBVIOUS
    <3>1. CASE i = h
      <4>1. 0 \in 0..((m + 1) - 1)
        OBVIOUS
      <4> QED BY <3>1, <4>1, <2>2
    <3>2. CASE i # h
      <4>1. i \in DOMAIN s.storage \ Allocated(s)
        BY <3>2, <1>1, <1>7, <1>12
      <4>2. PICK k \in 0..(m - 1) : p[k] = i
        BY <4>1, <1>5 DEF IsFreePath
      <4>3. k + 1 \in 0..((m + 1) - 1) /\ k + 1 \in 1..(m + 1) /\ (k + 1) - 1 = k
        OBVIOUS
      <4>4. q[k + 1] = i
        BY <2>2, <4>2, <4>3
      <4> QED BY <4>3, <4>4
    <3> QED BY <3>1, <3>2
  <2>8. IsFreePath(t, q, m + 1)
    BY <2>3, <2>5, <2>6, <2>7 DEF IsFreePath
  <2> QED BY <2>1, <2>8 DEF FreePath
<1>14. \A i \in Allocated(s) : i # h => t.storage[i] = s.storage[i]
  BY <1>9 DEF Allocated
<1> QED BY <1>11, <1>12, <1>13, <1>14 DEF t, SlabFine

\* Using n items of a buffer changes the buffer's len and nothing else.
LEMMA ConsumeFine ==
    ASSUME NEW s, SlabFine(s), NEW h \in Allocated(s), NEW n \in Nat,
           n <= s.storage[h].buffer.len
    PROVE  /\ SlabFine(Consume(s, h, n))
           /\ Allocated(Consume(s, h, n)) = Allocated(s)
           /\ Consume(s, h, n).storage[h].buffer.len = s.storage[h].buffer.len - n
           /\ \A i \in Allocated(s) :
                 /\ i # h => Consume(s, h, n).storage[i] = s.storage[i]
                 /\ Consume(s, h, n).storage[i].buffer.raw = s.storage[i].buffer.raw
                 /\ FrameOf(Consume(s, h, n), i) = FrameOf(s, i)
                 /\ IndexOf(Consume(s, h, n), i) = IndexOf(s, i)
<1> DEFINE t == Consume(s, h, n)
           L == slabLen(s)
           b == s.storage[h].buffer
           c == [len |-> b.len - n, raw |-> b.raw, ptr |-> b.ptr]
<1>1. /\ L \in Nat /\ s.next \in 0..L /\ DOMAIN s.storage = 0..(L - 1)
      /\ s.storage \in [0..(L - 1) -> Entry] /\ SlabTyped(s)
      /\ s = [storage |-> s.storage, next |-> s.next]
  BY DEF SlabFine, SlabTyped
<1>2. h \in 0..(L - 1) /\ h \in DOMAIN s.storage
  BY <1>1 DEF Allocated
<1>3. /\ s.storage[h] = [tag |-> "Full", buffer |-> b] /\ b \in BufferRecord
      /\ b.len \in Nat
  BY <1>1, <1>2, EntryFields
<1>4. b = [len |-> b.len, raw |-> b.raw, ptr |-> b.ptr]
  BY <1>3 DEF BufferRecord
<1>5. c \in BufferRecord /\ c.len = b.len - n /\ c.raw = b.raw /\ c.ptr = b.ptr
  <2>1. b.len - n \in Nat /\ b.raw \in BOOLEAN /\ b.ptr \in (1..MaxDepth) \X (1..MaxBuffers)
    BY <1>3 DEF BufferRecord
  <2> QED BY <2>1 DEF BufferRecord
<1>6. /\ t.storage = [s.storage EXCEPT ![h] = [tag |-> "Full", buffer |-> c]]
      /\ t.next = s.next /\ t = [storage |-> t.storage, next |-> t.next]
  <2>1. [s.storage[h] EXCEPT !.buffer.len = @ - n] = [tag |-> "Full", buffer |-> c]
    BY <1>3, <1>4
  <2> HIDE DEF c
  <2>2. t = [s EXCEPT !.storage = [s.storage EXCEPT ![h] = [s.storage[h] EXCEPT !.buffer.len = @ - n]]]
    BY DEF Consume
  <2> QED BY <2>1, <2>2, <1>1
<1> HIDE DEF t, c, b
<1>7. DOMAIN t.storage = 0..(L - 1) /\ t.storage[h] = [tag |-> "Full", buffer |-> c]
  BY <1>1, <1>2, <1>6
<1>8. slabLen(t) = L
  BY <1>1, <1>7, LengthByIndices
<1>9. \A i \in DOMAIN s.storage : i # h => t.storage[i] = s.storage[i]
  BY <1>6
<1>10. t.storage \in [0..(L - 1) -> Entry]
  <2>1. [tag |-> "Full", buffer |-> c] \in Entry
    BY <1>5 DEF Entry
  <2> QED BY <2>1, <1>1, <1>6
<1>11. SlabTyped(t)
  BY <1>1, <1>6, <1>8, <1>10 DEF SlabTyped
<1>12. Allocated(t) = Allocated(s)
  BY <1>1, <1>2, <1>7, <1>9 DEF Allocated
<1>13. FreePath(t)
  <2>1. PICK m \in Nat : \E p \in [0..m -> Nat] : IsFreePath(s, p, m)
    BY DEF SlabFine, FreePath
  <2>2. PICK p \in [0..m -> Nat] : IsFreePath(s, p, m)
    BY <2>1
  <2>3. \A k \in 0..(m - 1) : p[k] # h
    BY <2>2 DEF IsFreePath, Allocated
  <2>4. IsFreePath(t, p, m)
    BY <2>2, <2>3, <1>1, <1>6, <1>7, <1>8, <1>9, <1>12 DEF IsFreePath
  <2> QED BY <2>4 DEF FreePath
<1>14. /\ t.storage[h].buffer.len = b.len - n /\ t.storage[h].buffer.raw = b.raw
       /\ t.storage[h].buffer.ptr = b.ptr
  BY <1>5, <1>7
<1>15. \A i \in Allocated(s) : i # h => t.storage[i] = s.storage[i]
  BY <1>9 DEF Allocated
<1>16. ASSUME NEW i \in Allocated(s)
       PROVE  /\ t.storage[i].buffer.raw = s.storage[i].buffer.raw
              /\ t.storage[i].buffer.ptr = s.storage[i].buffer.ptr
  <2>1. CASE i = h
    BY <2>1, <1>14 DEF b
  <2>2. CASE i # h
    BY <2>2, <1>15
  <2> QED BY <2>1, <2>2
<1> QED BY <1>11, <1>12, <1>13, <1>14, <1>15, <1>16 DEF t, b, SlabFine, FrameOf, IndexOf

\* Emptied satisfies its recursive definition: one function removes the
\* handles one by one.
LEMMA EmptiedUnfolds ==
    ASSUME NEW s, NEW out, NEW F, NEW buffers \in Seq(F)
    PROVE  \E after : /\ after[0] = s /\ after[Len(buffers)] = Emptied(s, out, buffers)
                      /\ \A k \in 1..Len(buffers) :
                            after[k] = IF buffers[k].out = out
                                         THEN SlabRemove(after[k - 1], buffers[k].handle)
                                         ELSE after[k - 1]
<1> DEFINE n == Len(buffers)
           Dropped(t, k) == IF buffers[k].out = out THEN SlabRemove(t, buffers[k].handle) ELSE t
           Body(f, m) == [k \in 0..m |-> IF k = 0 THEN s ELSE Dropped(f[k - 1], k)]
           T == {m \in Nat : \E f : f = Body(f, m)}
<1>1. 0 \in T
  <2> DEFINE f == [k \in 0..0 |-> s]
  <2>1. f = Body(f, 0)
    OBVIOUS
  <2> QED BY <2>1
<1>2. ASSUME NEW m \in Nat, m \in T PROVE m + 1 \in T
  <2>1. PICK f : f = Body(f, m)
    BY <1>2
  <2> DEFINE g == [k \in 0..(m + 1) |-> IF k <= m THEN f[k] ELSE Dropped(f[m], k)]
  <2> HIDE DEF Dropped
  <2>2. ASSUME NEW k \in 0..(m + 1) PROVE g[k] = Body(g, m + 1)[k]
    <3>1. CASE k = 0
      BY <3>1, <2>1
    <3>2. CASE k # 0 /\ k <= m
      <4>1. k - 1 \in 0..(m + 1) /\ k - 1 <= m /\ k \in 0..m
        BY <3>2
      <4>2. g[k - 1] = f[k - 1] /\ g[k] = f[k]
        BY <4>1, <3>2
      <4>3. f[k] = Dropped(f[k - 1], k)
        BY <2>1, <3>2, <4>1
      <4> QED BY <3>2, <4>2, <4>3
    <3>3. CASE k = m + 1
      <4>1. m \in 0..(m + 1) /\ m <= m /\ ~(m + 1 <= m) /\ (m + 1) - 1 = m /\ m + 1 # 0
        OBVIOUS
      <4>2. g[m] = f[m] /\ g[m + 1] = Dropped(f[m], m + 1)
        BY <4>1
      <4>3. Body(g, m + 1)[m + 1] = Dropped(g[m], m + 1)
        BY <4>1
      <4> QED BY <3>3, <4>2, <4>3
    <3> QED BY <3>1, <3>2, <3>3
  <2>3. g = Body(g, m + 1)
    BY <2>2
  <2> HIDE DEF g
  <2>4. m + 1 \in Nat /\ \E h : h = Body(h, m + 1)
    <3> HIDE DEF Body
    <3> QED BY <2>3
  <2> QED BY <2>4
<1> HIDE DEF T
<1>3. \A m \in Nat : m \in T
  BY <1>1, <1>2, NaturalsIn
<1>4. n \in Nat
  OBVIOUS
<1>5. \E f : f = Body(f, n)
  BY <1>3, <1>4 DEF T
<1> DEFINE after == CHOOSE f : f = Body(f, n)
<1>6. after = Body(after, n)
  BY <1>5
<1>7. Emptied(s, out, buffers) = after[n]
  BY DEF Emptied
<1> HIDE DEF after
<1>8. after[0] = s
  BY <1>4, <1>6
<1>9. ASSUME NEW k \in 1..n PROVE after[k] = Dropped(after[k - 1], k)
  BY <1>4, <1>6
<1> QED BY <1>7, <1>8, <1>9

\* The handles of one slab among some buffers.
HandlesOf(buffers, out) == {buffers[k].handle : k \in {j \in 1..Len(buffers) : buffers[j].out = out}}

\* The drop of a transaction takes out its entries and no others.
LEMMA EmptiedFine ==
    ASSUME NEW s, SlabFine(s), NEW out, NEW buffers \in Seq(Passed),
           \A k \in 1..Len(buffers) : buffers[k].out = out => buffers[k].handle \in Allocated(s),
           \A j, k \in 1..Len(buffers) :
               j # k /\ buffers[j].out = out /\ buffers[k].out = out =>
                   buffers[j].handle # buffers[k].handle,
           NEW t, t = Emptied(s, out, buffers)
    PROVE  /\ SlabFine(t) /\ Allocated(t) = Allocated(s) \ HandlesOf(buffers, out)
           /\ \A i \in Allocated(t) : t.storage[i] = s.storage[i]
<1> DEFINE n == Len(buffers)
           Gone(k) == {buffers[l].handle : l \in {j \in 1..k : buffers[j].out = out}}
           Fine(u, k) == /\ SlabFine(u) /\ Allocated(u) = Allocated(s) \ Gone(k)
                         /\ \A i \in Allocated(u) : u.storage[i] = s.storage[i]
<1>1. PICK after : /\ after[0] = s /\ after[n] = Emptied(s, out, buffers)
                   /\ \A k \in 1..n :
                         after[k] = IF buffers[k].out = out
                                      THEN SlabRemove(after[k - 1], buffers[k].handle)
                                      ELSE after[k - 1]
  BY EmptiedUnfolds
<1> DEFINE T == {k \in Nat : k <= n => Fine(after[k], k)}
<1>2. 0 \in T
  <2>1. Gone(0) = {}
    OBVIOUS
  <2> QED BY <2>1, <1>1
<1>3. ASSUME NEW k \in Nat, k \in T PROVE k + 1 \in T
  <2> SUFFICES ASSUME k + 1 <= n PROVE Fine(after[k + 1], k + 1)
    OBVIOUS
  <2>1. k + 1 \in 1..n /\ (k + 1) - 1 = k /\ k <= n
    OBVIOUS
  <2>2. Fine(after[k], k)
    BY <1>3, <2>1
  <2>3. CASE buffers[k + 1].out = out
    <3> DEFINE h == buffers[k + 1].handle
    <3>1. after[k + 1] = SlabRemove(after[k], h)
      BY <1>1, <2>1, <2>3
    <3>2. h \in Allocated(s) /\ h \notin Gone(k)
      BY <2>1, <2>3
    <3>3. Gone(k + 1) = Gone(k) \cup {h}
      BY <2>1, <2>3
    <3> HIDE DEF Gone, h
    <3>4. h \in Allocated(after[k])
      BY <2>2, <3>2
    <3>5. /\ SlabFine(after[k + 1])
          /\ Allocated(after[k + 1]) = Allocated(after[k]) \ {h}
          /\ \A i \in Allocated(after[k]) : i # h => after[k + 1].storage[i] = after[k].storage[i]
      BY <2>2, <3>1, <3>4, SlabRemoveFine
    <3> QED BY <2>2, <3>3, <3>5
  <2>4. CASE buffers[k + 1].out # out
    <3>1. after[k + 1] = after[k]
      BY <1>1, <2>1, <2>4
    <3>2. Gone(k + 1) = Gone(k)
      BY <2>1, <2>4
    <3> HIDE DEF Gone
    <3> QED BY <2>2, <3>1, <3>2
  <2> QED BY <2>3, <2>4
<1> HIDE DEF T
<1>4. \A k \in Nat : k \in T
  BY <1>2, <1>3, NaturalsIn
<1>5. n \in Nat /\ n <= n
  OBVIOUS
<1>6. Fine(after[n], n)
  <2>1. n \in T
    BY <1>4, <1>5
  <2> HIDE DEF Fine, n
  <2> QED BY <2>1, <1>5 DEF T
<1> QED BY <1>1, <1>6 DEF HandlesOf

(***************************************************************************)
(* Sums.                                                                   *)
(***************************************************************************)

\* Total satisfies its recursive definition.
LEMMA TotalUnfolds ==
    ASSUME NEW counts \in Seq(Nat)
    PROVE  \E sum : /\ sum[0] = 0 /\ sum[Len(counts)] = Total(counts)
                    /\ \A k \in 1..Len(counts) : sum[k] = sum[k - 1] + counts[k]
<1> DEFINE n == Len(counts)
           Body(f, m) == [k \in 0..m |-> IF k = 0 THEN 0 ELSE f[k - 1] + counts[k]]
           T == {m \in Nat : \E f : f = Body(f, m)}
<1>1. 0 \in T
  <2> DEFINE f == [k \in 0..0 |-> 0]
  <2>1. f = Body(f, 0)
    OBVIOUS
  <2> QED BY <2>1
<1>2. ASSUME NEW m \in Nat, m \in T PROVE m + 1 \in T
  <2>1. PICK f : f = Body(f, m)
    BY <1>2
  <2> DEFINE g == [k \in 0..(m + 1) |-> IF k <= m THEN f[k] ELSE f[m] + counts[k]]
  <2>2. ASSUME NEW k \in 0..(m + 1) PROVE g[k] = Body(g, m + 1)[k]
    <3>1. CASE k = 0
      BY <3>1, <2>1
    <3>2. CASE k # 0 /\ k <= m
      <4>1. k - 1 \in 0..(m + 1) /\ k - 1 <= m /\ k \in 0..m
        BY <3>2
      <4>2. g[k - 1] = f[k - 1] /\ g[k] = f[k]
        BY <4>1, <3>2
      <4>3. f[k] = f[k - 1] + counts[k]
        BY <2>1, <3>2, <4>1
      <4> QED BY <3>2, <4>2, <4>3
    <3>3. CASE k = m + 1
      <4>1. m \in 0..(m + 1) /\ m <= m /\ ~(m + 1 <= m) /\ (m + 1) - 1 = m /\ m + 1 # 0
        OBVIOUS
      <4>2. g[m] = f[m] /\ g[m + 1] = f[m] + counts[m + 1]
        BY <4>1
      <4>3. Body(g, m + 1)[m + 1] = g[m] + counts[m + 1]
        BY <4>1
      <4> QED BY <3>3, <4>2, <4>3
    <3> QED BY <3>1, <3>2, <3>3
  <2>3. g = Body(g, m + 1)
    BY <2>2
  <2> HIDE DEF g
  <2>4. m + 1 \in Nat /\ \E f1 : f1 = Body(f1, m + 1)
    <3> HIDE DEF Body
    <3> QED BY <2>3
  <2> QED BY <2>4
<1> HIDE DEF T
<1>3. \A m \in Nat : m \in T
  BY <1>1, <1>2, NaturalsIn
<1>4. n \in Nat
  OBVIOUS
<1>5. \E f : f = Body(f, n)
  BY <1>3, <1>4 DEF T
<1> DEFINE sum == CHOOSE f : f = Body(f, n)
<1>6. sum = Body(sum, n)
  BY <1>5
<1>7. Total(counts) = sum[n]
  BY DEF Total
<1> HIDE DEF sum
<1>8. sum[0] = 0
  BY <1>4, <1>6
<1>9. ASSUME NEW k \in 1..n PROVE sum[k] = sum[k - 1] + counts[k]
  BY <1>4, <1>6
<1> QED BY <1>7, <1>8, <1>9

\* A sum of smaller numbers is not larger.
LEMMA TotalMonotone ==
    ASSUME NEW a \in Seq(Nat), NEW b \in Seq(Nat), Len(a) = Len(b),
           \A k \in 1..Len(a) : a[k] <= b[k]
    PROVE  Total(a) \in Nat /\ Total(b) \in Nat /\ Total(a) <= Total(b)
<1> DEFINE n == Len(a)
<1>1. PICK f : /\ f[0] = 0 /\ f[n] = Total(a)
               /\ \A k \in 1..n : f[k] = f[k - 1] + a[k]
  BY TotalUnfolds
<1>2. PICK g : /\ g[0] = 0 /\ g[n] = Total(b)
               /\ \A k \in 1..n : g[k] = g[k - 1] + b[k]
  BY TotalUnfolds
<1>3. n \in Nat
  OBVIOUS
<1> DEFINE T == {k \in Nat : k <= n => f[k] \in Nat /\ g[k] \in Nat /\ f[k] <= g[k]}
<1>4. 0 \in T
  BY <1>1, <1>2
<1>5. ASSUME NEW k \in Nat, k \in T PROVE k + 1 \in T
  <2> SUFFICES ASSUME k + 1 <= n
               PROVE  f[k + 1] \in Nat /\ g[k + 1] \in Nat /\ f[k + 1] <= g[k + 1]
    OBVIOUS
  <2>1. k + 1 \in 1..n /\ (k + 1) - 1 = k /\ k <= n
    BY <1>3
  <2>2. a[k + 1] \in Nat /\ b[k + 1] \in Nat /\ a[k + 1] <= b[k + 1]
    BY <2>1
  <2>3. f[k + 1] = f[k] + a[k + 1] /\ g[k + 1] = g[k] + b[k + 1]
    BY <2>1, <1>1, <1>2
  <2>4. f[k] \in Nat /\ g[k] \in Nat /\ f[k] <= g[k]
    BY <1>5, <2>1
  <2> DEFINE x == f[k]  y == g[k]  u == a[k + 1]  v == b[k + 1]
  <2>5. x \in Nat /\ y \in Nat /\ u \in Nat /\ v \in Nat /\ x <= y /\ u <= v
    BY <2>2, <2>4
  <2>6. f[k + 1] = x + u /\ g[k + 1] = y + v
    BY <2>3
  <2> HIDE DEF x, y, u, v
  <2>7. x + u \in Nat /\ y + v \in Nat /\ x + u <= y + v
    BY <2>5
  <2> QED BY <2>6, <2>7
<1> HIDE DEF T
<1>6. n \in T
  BY <1>3, <1>4, <1>5, NaturalsIn
<1> QED BY <1>1, <1>2, <1>6 DEF T

\* One more number is added.
LEMMA TotalAppend ==
    ASSUME NEW a \in Seq(Nat), NEW x \in Nat
    PROVE  Total(Append(a, x)) = Total(a) + x
<1> DEFINE n == Len(a)
           b == Append(a, x)
<1>1. PICK f : /\ f[0] = 0 /\ f[n] = Total(a)
               /\ \A k \in 1..n : f[k] = f[k - 1] + a[k]
  BY TotalUnfolds
<1>2. b \in Seq(Nat) /\ Len(b) = n + 1 /\ b[n + 1] = x /\ n \in Nat /\ \A k \in 1..n : b[k] = a[k]
  OBVIOUS
<1> HIDE DEF b
<1>3. PICK g : /\ g[0] = 0 /\ g[Len(b)] = Total(b)
               /\ \A k \in 1..Len(b) : g[k] = g[k - 1] + b[k]
  BY <1>2, TotalUnfolds
<1> DEFINE T == {k \in Nat : k <= n => f[k] = g[k]}
<1>4. 0 \in T
  BY <1>1, <1>3
<1>5. ASSUME NEW k \in Nat, k \in T PROVE k + 1 \in T
  <2> SUFFICES ASSUME k + 1 <= n PROVE f[k + 1] = g[k + 1]
    OBVIOUS
  <2>1. k + 1 \in 1..n /\ k + 1 \in 1..Len(b) /\ (k + 1) - 1 = k /\ k <= n
    BY <1>2
  <2>2. f[k + 1] = f[k] + a[k + 1] /\ g[k + 1] = g[k] + b[k + 1] /\ b[k + 1] = a[k + 1]
    BY <2>1, <1>1, <1>2, <1>3
  <2> QED BY <1>5, <2>1, <2>2
<1> HIDE DEF T
<1>6. n \in T
  BY <1>2, <1>4, <1>5, NaturalsIn
<1>7. f[n] = g[n]
  BY <1>2, <1>6 DEF T
<1>8. n + 1 \in 1..Len(b) /\ (n + 1) - 1 = n
  BY <1>2
<1>9. g[n + 1] = g[n] + x
  BY <1>2, <1>3, <1>8
<1> QED BY <1>1, <1>2, <1>3, <1>7, <1>9 DEF b

(***************************************************************************)
(* Stacks.                                                                 *)
(***************************************************************************)

\* The fields of a frame.
LEMMA FrameFields ==
    ASSUME NEW f \in FrameRecord
    PROVE  /\ f.kind \in {"wrapper", "wasm", "alloc", "import", "in_read", "out_write"}
           /\ f.kind = "wrapper" =>
                 /\ f = [kind |-> "wrapper", buffers |-> f.buffers, called |-> f.called]
                 /\ f.buffers \in Seq(Passed) /\ f.called \in BOOLEAN
           /\ f.kind = "in_read" =>
                 /\ f = [kind |-> "in_read", handle |-> f.handle, left |-> f.left,
                         processed |-> f.processed, pending |-> f.pending]
                 /\ f.handle \in Nat /\ f.left \in Nat /\ f.processed \in Nat
                 /\ f.pending \in BOOLEAN
           /\ f.kind = "out_write" =>
                 /\ f = [kind |-> "out_write", handle |-> f.handle, left |-> f.left,
                         want |-> f.want]
                 /\ f.handle \in Nat /\ f.left \in Nat /\ f.want \in Nat
<1>1. CASE f \in WrapperFrame
  BY <1>1 DEF WrapperFrame
<1>2. CASE f \in ReadFrame
  BY <1>2 DEF ReadFrame
<1>3. CASE f \in WriteFrame
  BY <1>3 DEF WriteFrame
<1>4. CASE f \in [kind : {"wasm", "alloc", "import"}]
  BY <1>4
<1> QED BY <1>1, <1>2, <1>3, <1>4 DEF FrameRecord

\* The frames below the innermost one.
Under(stk) == SubSeq(stk, 1, Len(stk) - 1)

LEMMA UnderFrames ==
    ASSUME NEW stk \in Seq(FrameRecord), Len(stk) > 0
    PROVE  /\ Under(stk) \in Seq(FrameRecord) /\ Len(Under(stk)) = Len(stk) - 1
           /\ \A d \in 1..(Len(stk) - 1) : Under(stk)[d] = stk[d]
           /\ stk[Len(stk)] \in FrameRecord
           /\ stk = Append(Under(stk), stk[Len(stk)])
<1>1. PICK n \in Nat : n = Len(stk) - 1
  OBVIOUS
<1>2. n + 1 = Len(stk) /\ \A d \in 1..n : stk[d] \in FrameRecord
  BY <1>1
<1>3. /\ SubSeq(stk, 1, n) \in Seq(FrameRecord) /\ Len(SubSeq(stk, 1, n)) = n
      /\ \A d \in 1..n : SubSeq(stk, 1, n)[d] = stk[d]
  BY <1>2, SubSeqProperties
<1>4. stk[n + 1] \in FrameRecord
  BY <1>2
<1>5. stk = Append(SubSeq(stk, 1, n), stk[n + 1])
  BY <1>2, <1>3, <1>4
<1> QED BY <1>1, <1>2, <1>3, <1>4, <1>5 DEF Under

FramesBelow(stk, n) ==
    /\ Under(stk) \in Seq(FrameRecord) /\ Len(Under(stk)) = n
    /\ \A d \in 1..n : Under(stk)[d] = stk[d]

LEMMA UnderOf ==
    ASSUME NEW stk \in Seq(FrameRecord), NEW n \in Nat, Len(stk) = n + 1
    PROVE  FramesBelow(stk, n)
<1>1. Len(stk) > 0 /\ Len(stk) - 1 = n
  OBVIOUS
<1> QED BY <1>1, UnderFrames DEF FramesBelow

LEMMA TakenByNatural ==
    ASSUME NEW f \in FrameRecord, NEW h
    PROVE  TakenBy(f, h) \in Nat /\ (f.kind # "in_read" => TakenBy(f, h) = 0)
BY FrameFields DEF TakenBy, Reads

LEMMA TakenPushed ==
    ASSUME NEW stk \in Seq(FrameRecord), NEW f \in FrameRecord, NEW h
    PROVE  /\ Taken(stk, h) \in Nat
           /\ Taken(Append(stk, f), h) = Taken(stk, h) + TakenBy(f, h)
<1> DEFINE a == [d \in 1..Len(stk) |-> TakenBy(stk[d], h)]
           b == [d \in 1..Len(Append(stk, f)) |-> TakenBy(Append(stk, f)[d], h)]
<1>1. \A d \in 1..Len(stk) : stk[d] \in FrameRecord
  OBVIOUS
<1>2. a \in Seq(Nat) /\ Len(a) = Len(stk)
  BY <1>1, TakenByNatural
<1>3. TakenBy(f, h) \in Nat
  BY TakenByNatural
<1>4. b = Append(a, TakenBy(f, h))
  <2>1. Len(Append(stk, f)) = Len(stk) + 1 /\ Len(Append(a, TakenBy(f, h))) = Len(stk) + 1
    BY <1>2
  <2>2. Append(a, TakenBy(f, h)) \in Seq(Nat)
    BY <1>2, <1>3
  <2>3. \A d \in 1..(Len(stk) + 1) : b[d] = Append(a, TakenBy(f, h))[d]
    <3>1. ASSUME NEW d \in 1..Len(stk) PROVE b[d] = Append(a, TakenBy(f, h))[d]
      <4>1. Append(stk, f)[d] = stk[d] /\ Append(a, TakenBy(f, h))[d] = a[d]
        BY <1>2
      <4> QED BY <4>1, <2>1
    <3>2. b[Len(stk) + 1] = TakenBy(f, h) /\ Append(a, TakenBy(f, h))[Len(stk) + 1] = TakenBy(f, h)
      BY <1>2, <2>1
    <3> QED BY <3>1, <3>2
  <2>4. b \in Seq(Nat) /\ Len(b) = Len(stk) + 1
    <3>1. \A d \in 1..(Len(stk) + 1) : b[d] \in Nat
      BY <2>1, <2>2, <2>3
    <3>2. b = [d \in 1..(Len(stk) + 1) |-> b[d]]
      BY <2>1
    <3> HIDE DEF a, b
    <3> QED BY <3>1, <3>2
  <2> HIDE DEF a, b
  <2> QED BY <2>1, <2>2, <2>3, <2>4
<1> HIDE DEF a, b
<1>5. Total(a) \in Nat
  BY <1>2, TotalMonotone
<1>6. Total(b) = Total(a) + TakenBy(f, h)
  BY <1>2, <1>3, <1>4, TotalAppend
<1> QED BY <1>5, <1>6 DEF a, b, Taken

LEMMA TakenNatural ==
    ASSUME NEW stk \in Seq(FrameRecord), NEW h
    PROVE  Taken(stk, h) \in Nat
<1>1. [kind |-> "wasm"] \in FrameRecord
  BY DEF FrameRecord
<1> QED BY <1>1, TakenPushed

LEMMA TakenPopped ==
    ASSUME NEW stk \in Seq(FrameRecord), Len(stk) > 0, NEW h
    PROVE  /\ Taken(Under(stk), h) \in Nat /\ TakenBy(stk[Len(stk)], h) \in Nat
           /\ Taken(stk, h) = Taken(Under(stk), h) + TakenBy(stk[Len(stk)], h)
<1>1. /\ Under(stk) \in Seq(FrameRecord) /\ stk[Len(stk)] \in FrameRecord
      /\ stk = Append(Under(stk), stk[Len(stk)])
  BY UnderFrames
<1> DEFINE below == Under(stk)
           top == stk[Len(stk)]
<1> HIDE DEF below, top
<1>2. below \in Seq(FrameRecord) /\ top \in FrameRecord /\ stk = Append(below, top)
  BY <1>1 DEF below, top
<1>3. Taken(below, h) \in Nat /\ Taken(Append(below, top), h) = Taken(below, h) + TakenBy(top, h)
  BY <1>2, TakenPushed
<1>4. TakenBy(top, h) \in Nat
  BY <1>2, TakenByNatural
<1> QED BY <1>2, <1>3, <1>4 DEF below, top

\* Changes of the frames below that take nothing do not matter.
LEMMA TakenKept ==
    ASSUME NEW stk \in Seq(FrameRecord), NEW new \in Seq(FrameRecord), Len(new) = Len(stk),
           NEW h, \A d \in 1..Len(stk) : TakenBy(new[d], h) = TakenBy(stk[d], h)
    PROVE  Taken(new, h) = Taken(stk, h)
<1>1. [d \in 1..Len(stk) |-> TakenBy(new[d], h)] = [d \in 1..Len(stk) |-> TakenBy(stk[d], h)]
  OBVIOUS
<1> QED BY <1>1 DEF Taken

LEMMA TakenNothing ==
    ASSUME NEW stk, Len(stk) \in Nat, NEW h, \A d \in 1..Len(stk) : TakenBy(stk[d], h) = 0
    PROVE  Taken(stk, h) = 0
<1> DEFINE a == [d \in 1..Len(stk) |-> TakenBy(stk[d], h)]
<1>1. a \in Seq(Nat) /\ Len(a) = Len(stk) /\ \A k \in 1..Len(a) : a[k] = 0
  OBVIOUS
<1> HIDE DEF a
<1>2. PICK f : /\ f[0] = 0 /\ f[Len(a)] = Total(a)
               /\ \A k \in 1..Len(a) : f[k] = f[k - 1] + a[k]
  BY <1>1, TotalUnfolds
<1> DEFINE T == {k \in Nat : k <= Len(a) => f[k] = 0}
<1>3. 0 \in T
  BY <1>2
<1>4. ASSUME NEW k \in Nat, k \in T PROVE k + 1 \in T
  <2> SUFFICES ASSUME k + 1 <= Len(a) PROVE f[k + 1] = 0
    OBVIOUS
  <2>1. k + 1 \in 1..Len(a) /\ (k + 1) - 1 = k /\ k <= Len(a)
    BY <1>1
  <2>2. f[k + 1] = f[k] + a[k + 1] /\ a[k + 1] = 0 /\ f[k] = 0
    BY <2>1, <1>1, <1>2, <1>4
  <2> QED BY <2>2
<1> HIDE DEF T
<1>5. Len(a) \in T
  BY <1>1, <1>3, <1>4, NaturalsIn
<1> QED BY <1>2, <1>5 DEF T, a, Taken

(***************************************************************************)
(* Steps that leave the slabs and the buffers of the wrappers alone.       *)
(***************************************************************************)

SameBuffers(stk, new) ==
    \A d, k \in Nat : /\ IsBuffer(stk, d, k) <=> IsBuffer(new, d, k)
                      /\ IsBuffer(stk, d, k) => new[d].buffers[k] = stk[d].buffers[k]

\* An entry's buffer.
LEMMA EntryLinked ==
    ASSUME NEW s, SlabFine(s), NEW out, NEW stk, Owned(out, s, stk), NEW h \in Allocated(s)
    PROVE  /\ h \in Nat /\ FrameOf(s, h) \in Nat /\ IndexOf(s, h) \in Nat
           /\ s.storage[h].buffer.len \in Nat /\ s.storage[h].buffer.raw \in BOOLEAN
           /\ IsBuffer(stk, FrameOf(s, h), IndexOf(s, h))
           /\ stk[FrameOf(s, h)].buffers[IndexOf(s, h)].out = out
           /\ stk[FrameOf(s, h)].buffers[IndexOf(s, h)].handle = h
<1>1. h \in DOMAIN s.storage /\ SlabTyped(s)
  BY DEF Allocated, SlabFine
<1>2. FrameOf(s, h) \in 1..MaxDepth /\ IndexOf(s, h) \in 1..MaxBuffers
  BY <1>1, EntryFields
<1>3. FrameOf(s, h) \in Nat /\ IndexOf(s, h) \in Nat
  BY <1>2
<1>4. Linked(out, s, stk, h)
  BY DEF Owned
<1> QED BY <1>1, <1>3, <1>4, EntryFields DEF Linked

LEMMA RestInteger ==
    ASSUME NEW s, SlabFine(s), NEW out, NEW stk \in Seq(FrameRecord), Owned(out, s, stk),
           NEW h \in Allocated(s)
    PROVE  RestOf(s, stk, h) \in Int
<1>1. IsBuffer(stk, FrameOf(s, h), IndexOf(s, h))
  BY EntryLinked
<1>2. stk[FrameOf(s, h)] \in FrameRecord /\ stk[FrameOf(s, h)].kind = "wrapper"
  BY <1>1 DEF IsBuffer
<1>3. stk[FrameOf(s, h)].buffers \in Seq(Passed)
  BY <1>2, FrameFields
<1>4. stk[FrameOf(s, h)].buffers[IndexOf(s, h)] \in Passed
  BY <1>1, <1>3 DEF IsBuffer
<1> QED BY <1>4 DEF RestOf, Passed

LEMMA BuffersKept ==
    ASSUME NEW s, SlabFine(s), NEW out, NEW stk, Owned(out, s, stk),
           NEW new, SameBuffers(stk, new)
    PROVE  /\ Owned(out, s, new)
           /\ \A h \in Allocated(s) : RestOf(s, new, h) = RestOf(s, stk, h)
           /\ RawBacked(s, stk) => RawBacked(s, new)
<1>1. ASSUME NEW h \in Allocated(s)
      PROVE  Linked(out, s, new, h) /\ RestOf(s, new, h) = RestOf(s, stk, h)
  BY EntryLinked DEF SameBuffers, Linked, RestOf
<1>2. ASSUME NEW d \in Nat, NEW k \in Nat, IsBuffer(new, d, k), new[d].buffers[k].out = out
      PROVE  /\ k <= MaxBuffers
             /\ new[d].buffers[k].handle \in Allocated(s)
             /\ FrameOf(s, new[d].buffers[k].handle) = d
             /\ IndexOf(s, new[d].buffers[k].handle) = k
  <2>1. IsBuffer(stk, d, k) /\ new[d].buffers[k] = stk[d].buffers[k]
    BY <1>2 DEF SameBuffers
  <2> QED BY <2>1, <1>2 DEF Owned
<1>3. Owned(out, s, new)
  BY <1>1, <1>2 DEF Owned
<1> QED BY <1>1, <1>3 DEF RawBacked

\* A frame without buffers is put on the stack.
LEMMA PushedFrame ==
    ASSUME NEW ins, NEW outs, NEW stk, Base(ins, outs, stk), Len(stk) < MaxDepth,
           NEW f \in FrameRecord,
           f.kind = "wrapper" => f.buffers = <<>>,
           f.kind = "wasm" => Len(stk) > 0 /\ stk[Len(stk)].kind = "wrapper",
           f.kind \in Shims => \A d \in 1..Len(stk) : stk[d].kind # "out_write",
           f.kind = "in_read" => /\ f.handle \in Allocated(ins)
                                 /\ ~ins.storage[f.handle].buffer.raw
                                 /\ f.processed = 0 /\ ~f.pending,
           f.kind = "out_write" => /\ f.handle \in Allocated(outs)
                                   /\ ~outs.storage[f.handle].buffer.raw
                                   /\ f.left <= f.want
                                   /\ f.want <= outs.storage[f.handle].buffer.len
    PROVE  Base(ins, outs, Append(stk, f))
<1>0. MaxDepth \in Nat
  BY BufferAssumption
<1>1. PICK n \in Nat : n = Len(stk)
  BY DEF Base
<1> DEFINE new == Append(stk, f)
<1>2. /\ new \in Seq(FrameRecord) /\ Len(new) = n + 1 /\ new[n + 1] = f
      /\ \A d \in 1..n : new[d] = stk[d]
  BY <1>1 DEF Base
<1>3. /\ SlabFine(ins) /\ SlabFine(outs) /\ Owned(FALSE, ins, stk) /\ Owned(TRUE, outs, stk)
      /\ RawBacked(ins, stk) /\ RawBacked(outs, stk) /\ IterBacked(ins, stk)
      /\ ShimsFine(ins, outs, stk) /\ LockKept(stk) /\ WasmBelow(stk)
  BY DEF Base
<1>4. \A h : Taken(stk, h) \in Nat /\ Taken(new, h) = Taken(stk, h) + TakenBy(f, h)
  BY TakenPushed DEF Base
<1> HIDE DEF new
<1>5. SameBuffers(stk, new)
  <2> SUFFICES ASSUME NEW d \in Nat, NEW k \in Nat
               PROVE  /\ IsBuffer(stk, d, k) <=> IsBuffer(new, d, k)
                      /\ IsBuffer(stk, d, k) => new[d].buffers[k] = stk[d].buffers[k]
    BY DEF SameBuffers
  <2>1. CASE d \in 1..n
    BY <2>1, <1>1, <1>2 DEF IsBuffer
  <2>2. CASE d = n + 1
    <3>1. ~IsBuffer(stk, d, k)
      BY <2>2, <1>1 DEF IsBuffer
    <3>2. ~IsBuffer(new, d, k)
      BY <2>2, <1>2 DEF IsBuffer
    <3> QED BY <3>1, <3>2
  <2>3. CASE d \notin 1..(n + 1)
    BY <2>3, <1>1, <1>2 DEF IsBuffer
  <2> QED BY <2>1, <2>2, <2>3
<1>6. /\ Owned(FALSE, ins, new) /\ RawBacked(ins, new)
      /\ \A h \in Allocated(ins) : RestOf(ins, new, h) = RestOf(ins, stk, h)
  BY <1>3, <1>5, BuffersKept
<1>7. Owned(TRUE, outs, new) /\ RawBacked(outs, new)
  BY <1>3, <1>5, BuffersKept
<1>8. IterBacked(ins, new)
  <2>1. \A h : TakenBy(f, h) = 0
    BY TakenByNatural DEF TakenBy
  <2>2. \A h : Taken(new, h) = Taken(stk, h)
    BY <1>4, <2>1
  <2> QED BY <2>2, <1>3, <1>6 DEF IterBacked
<1>9. ShimsFine(ins, outs, new)
  <2> SUFFICES ASSUME NEW d \in 1..(n + 1)
               PROVE  /\ new[d].kind = "in_read" => ReadFine(ins, new, d)
                      /\ new[d].kind = "out_write" => WriteFine(outs, new, d)
    BY <1>2 DEF ShimsFine
  <2>1. CASE d \in 1..n
    BY <2>1, <1>1, <1>2, <1>3 DEF ShimsFine, ReadFine, WriteFine
  <2>2. CASE d = n + 1
    <3>1. ASSUME f.kind = "in_read" PROVE ReadFine(ins, new, d)
      <4>1. FrameOf(ins, f.handle) \in 1..n
        BY <3>1, <1>1, <1>3, EntryLinked DEF IsBuffer
      <4> QED BY <2>2, <3>1, <4>1, <1>2 DEF ReadFine
    <3>2. ASSUME f.kind = "out_write" PROVE WriteFine(outs, new, d)
      <4>1. FrameOf(outs, f.handle) \in 1..n
        BY <3>2, <1>1, <1>3, EntryLinked DEF IsBuffer
      <4> QED BY <2>2, <3>2, <4>1, <1>2 DEF WriteFine
    <3> QED BY <2>2, <3>1, <3>2, <1>2
  <2> QED BY <2>1, <2>2
<1>10. LockKept(new)
  <2> SUFFICES ASSUME NEW d \in 1..(n + 1), NEW e \in 1..(n + 1), d < e, new[d].kind = "out_write"
               PROVE  /\ new[e].kind \notin {"in_read", "out_write"}
                      /\ new[e].kind = "wrapper" => new[e].buffers = <<>>
    BY <1>2 DEF LockKept
  <2>1. d \in 1..n
    OBVIOUS
  <2>2. CASE e \in 1..n
    BY <2>1, <2>2, <1>1, <1>2, <1>3 DEF LockKept
  <2>3. CASE e = n + 1
    BY <2>1, <2>3, <1>1, <1>2 DEF Shims
  <2> QED BY <2>2, <2>3
<1>11. WasmBelow(new)
  <2> SUFFICES ASSUME NEW d \in 1..(n + 1), new[d].kind = "wasm"
               PROVE  d > 1 /\ new[d - 1].kind = "wrapper"
    BY <1>2 DEF WasmBelow
  <2>1. CASE d \in 1..n
    <3>1. d > 1 /\ stk[d - 1].kind = "wrapper"
      BY <2>1, <1>1, <1>2, <1>3 DEF WasmBelow
    <3>2. d - 1 \in 1..n
      BY <2>1, <3>1
    <3> QED BY <3>1, <3>2, <1>2
  <2>2. CASE d = n + 1
    BY <2>2, <1>1, <1>2
  <2> QED BY <2>1, <2>2
<1>12. Len(new) <= MaxDepth
  BY <1>0, <1>1, <1>2
<1> QED BY <1>2, <1>3, <1>6, <1>7, <1>8, <1>9, <1>10, <1>11, <1>12 DEF new, Base

\* The stack without its innermost frame.
LEMMA PoppedStack ==
    ASSUME NEW stk \in Seq(FrameRecord), NEW n \in Nat, Len(stk) = n + 1,
           LockKept(stk), WasmBelow(stk)
    PROVE  /\ Under(stk) \in Seq(FrameRecord) /\ Len(Under(stk)) = n
           /\ \A d \in 1..n : Under(stk)[d] = stk[d]
           /\ \A d, k \in Nat : IsBuffer(Under(stk), d, k) <=> d \in 1..n /\ IsBuffer(stk, d, k)
           /\ LockKept(Under(stk)) /\ WasmBelow(Under(stk))
<1>1. /\ Under(stk) \in Seq(FrameRecord) /\ Len(Under(stk)) = n
      /\ \A d \in 1..n : Under(stk)[d] = stk[d]
  BY UnderOf DEF FramesBelow
<1>2. \A d, k \in Nat : IsBuffer(Under(stk), d, k) <=> d \in 1..n /\ IsBuffer(stk, d, k)
  BY <1>1 DEF IsBuffer
<1>3. LockKept(Under(stk))
  BY <1>1 DEF LockKept
<1>4. WasmBelow(Under(stk))
  <2> SUFFICES ASSUME NEW d \in 1..n, stk[d].kind = "wasm"
               PROVE  d > 1 /\ Under(stk)[d - 1].kind = "wrapper"
    BY <1>1 DEF WasmBelow
  <2>1. d > 1 /\ stk[d - 1].kind = "wrapper"
    BY DEF WasmBelow
  <2>2. d - 1 \in 1..n
    BY <2>1
  <2> QED BY <2>1, <2>2, <1>1
<1> QED BY <1>1, <1>2, <1>3, <1>4

\* A frame without buffers is taken off the stack.
LEMMA PoppedFrame ==
    ASSUME NEW ins, NEW outs, NEW stk, Base(ins, outs, stk), NEW n \in Nat, Len(stk) = n + 1,
           stk[n + 1].kind = "wrapper" => stk[n + 1].buffers = <<>>
    PROVE  /\ Base(ins, outs, Under(stk))
           /\ \A h \in Allocated(ins) : RestOf(ins, Under(stk), h) = RestOf(ins, stk, h)
           /\ \A h \in Allocated(outs) : RestOf(outs, Under(stk), h) = RestOf(outs, stk, h)
           /\ \A h \in Allocated(ins) : ~ins.storage[h].buffer.raw =>
                 RestOf(ins, Under(stk), h) + Taken(Under(stk), h) + TakenBy(stk[n + 1], h)
                     <= ins.storage[h].buffer.len
<1>1. stk \in Seq(FrameRecord) /\ LockKept(stk) /\ WasmBelow(stk)
  BY DEF Base
<1>2. /\ Under(stk) \in Seq(FrameRecord) /\ Len(Under(stk)) = n
      /\ \A d \in 1..n : Under(stk)[d] = stk[d]
      /\ \A d, k \in Nat : IsBuffer(Under(stk), d, k) <=> d \in 1..n /\ IsBuffer(stk, d, k)
      /\ LockKept(Under(stk)) /\ WasmBelow(Under(stk))
  BY <1>1, PoppedStack
<1>3. /\ SlabFine(ins) /\ SlabFine(outs) /\ Owned(FALSE, ins, stk) /\ Owned(TRUE, outs, stk)
      /\ RawBacked(ins, stk) /\ RawBacked(outs, stk) /\ IterBacked(ins, stk)
      /\ ShimsFine(ins, outs, stk) /\ Len(stk) <= MaxDepth
  BY DEF Base
<1>4. SameBuffers(stk, Under(stk))
  <2>1. \A k \in Nat : ~IsBuffer(stk, n + 1, k)
    BY DEF IsBuffer
  <2>2. \A d, k \in Nat : IsBuffer(stk, d, k) => d \in 1..(n + 1)
    BY DEF IsBuffer
  <2>3. \A d, k \in Nat : IsBuffer(stk, d, k) => d \in 1..n
    BY <2>1, <2>2
  <2> QED BY <2>3, <1>2 DEF SameBuffers
<1>5. /\ Owned(FALSE, ins, Under(stk)) /\ RawBacked(ins, Under(stk))
      /\ \A h \in Allocated(ins) : RestOf(ins, Under(stk), h) = RestOf(ins, stk, h)
  BY <1>3, <1>4, BuffersKept
<1>6. /\ Owned(TRUE, outs, Under(stk)) /\ RawBacked(outs, Under(stk))
      /\ \A h \in Allocated(outs) : RestOf(outs, Under(stk), h) = RestOf(outs, stk, h)
  BY <1>3, <1>4, BuffersKept
<1>7. ASSUME NEW h \in Allocated(ins), ~ins.storage[h].buffer.raw
      PROVE  /\ RestOf(ins, Under(stk), h) >= 0
             /\ RestOf(ins, Under(stk), h) + Taken(Under(stk), h) <= ins.storage[h].buffer.len
             /\ RestOf(ins, Under(stk), h) + Taken(Under(stk), h) + TakenBy(stk[n + 1], h)
                    <= ins.storage[h].buffer.len
  <2>1. /\ Taken(Under(stk), h) \in Nat /\ TakenBy(stk[n + 1], h) \in Nat
        /\ Taken(stk, h) = Taken(Under(stk), h) + TakenBy(stk[n + 1], h)
    BY <1>1, TakenPopped
  <2>2. /\ RestOf(ins, stk, h) >= 0
        /\ RestOf(ins, stk, h) + Taken(stk, h) <= ins.storage[h].buffer.len
    BY <1>3, <1>7 DEF IterBacked
  <2>3. ins.storage[h].buffer.len \in Nat /\ RestOf(ins, stk, h) \in Int
    BY <1>1, <1>3, EntryLinked, RestInteger
  <2>4. RestOf(ins, Under(stk), h) = RestOf(ins, stk, h)
    BY <1>5
  <2> QED BY <2>1, <2>2, <2>3, <2>4
<1>8. IterBacked(ins, Under(stk))
  BY <1>7 DEF IterBacked
<1>9. ShimsFine(ins, outs, Under(stk))
  BY <1>2, <1>3 DEF ShimsFine, ReadFine, WriteFine
<1>10. Len(Under(stk)) <= MaxDepth
  BY <1>2, <1>3, BufferAssumption
<1> QED BY <1>2, <1>3, <1>5, <1>6, <1>7, <1>8, <1>9, <1>10 DEF Base

(***************************************************************************)
(* A wrapper is taken off the stack, and its entries out of the slabs.     *)
(***************************************************************************)

\* What is left of a slab and its entries.
KeepsBelow(s, out, stk, n, t) ==
    /\ SlabFine(t) /\ Owned(out, t, Under(stk))
    /\ Allocated(t) = {h \in Allocated(s) : FrameOf(s, h) < n + 1}
    /\ \A h \in Allocated(t) : /\ t.storage[h] = s.storage[h]
                               /\ RestOf(t, Under(stk), h) = RestOf(s, stk, h)

LEMMA EmptiedOwned ==
    ASSUME NEW stk \in Seq(FrameRecord), LockKept(stk), WasmBelow(stk),
           NEW n \in Nat, Len(stk) = n + 1, stk[n + 1].kind = "wrapper",
           NEW s, SlabFine(s), NEW out, Owned(out, s, stk),
           NEW t, t = Emptied(s, out, stk[n + 1].buffers)
    PROVE  KeepsBelow(s, out, stk, n, t)
<1> DEFINE buffers == stk[n + 1].buffers
<1>1. buffers \in Seq(Passed)
  <2>1. stk[n + 1] \in FrameRecord
    OBVIOUS
  <2> QED BY <2>1, FrameFields
<1>2. /\ Len(Under(stk)) = n
      /\ \A d \in 1..n : Under(stk)[d] = stk[d]
      /\ \A d, k \in Nat : IsBuffer(Under(stk), d, k) <=> d \in 1..n /\ IsBuffer(stk, d, k)
  BY PoppedStack
<1>3. ASSUME NEW k \in 1..Len(buffers), buffers[k].out = out
      PROVE  /\ buffers[k].handle \in Allocated(s)
             /\ FrameOf(s, buffers[k].handle) = n + 1 /\ IndexOf(s, buffers[k].handle) = k
  <2>1. IsBuffer(stk, n + 1, k) /\ k \in Nat
    BY <1>1 DEF IsBuffer
  <2> QED BY <2>1, <1>3 DEF Owned
<1>4. \A j, k \in 1..Len(buffers) :
         j # k /\ buffers[j].out = out /\ buffers[k].out = out =>
             buffers[j].handle # buffers[k].handle
  BY <1>3
<1> DEFINE emptied == Emptied(s, out, buffers)
<1>e. t = emptied
  OBVIOUS
<1> HIDE DEF buffers
<1>5. /\ SlabFine(t) /\ Allocated(t) = Allocated(s) \ HandlesOf(buffers, out)
      /\ \A i \in Allocated(t) : t.storage[i] = s.storage[i]
  <2>1. \A k \in 1..Len(buffers) : buffers[k].out = out => buffers[k].handle \in Allocated(s)
    BY <1>3
  <2> QED BY <2>1, <1>1, <1>4, <1>e, EmptiedFine
<1>6. ASSUME NEW h \in Allocated(s) PROVE h \in HandlesOf(buffers, out) <=> ~(FrameOf(s, h) < n + 1)
  <2>1. FrameOf(s, h) \in 1..(n + 1) /\ IsBuffer(stk, FrameOf(s, h), IndexOf(s, h))
    BY EntryLinked DEF IsBuffer
  <2>2. h \in HandlesOf(buffers, out) => FrameOf(s, h) = n + 1
    BY <1>3 DEF HandlesOf
  <2>3. ASSUME FrameOf(s, h) = n + 1 PROVE h \in HandlesOf(buffers, out)
    <3>1. IndexOf(s, h) \in 1..Len(buffers)
      BY <2>1, <2>3 DEF IsBuffer, buffers
    <3>2. buffers[IndexOf(s, h)].out = out /\ buffers[IndexOf(s, h)].handle = h
      BY <2>3, EntryLinked DEF buffers
    <3> QED BY <3>1, <3>2 DEF HandlesOf
  <2> QED BY <2>1, <2>2, <2>3
<1>7. Allocated(t) = {h \in Allocated(s) : FrameOf(s, h) < n + 1}
  BY <1>5, <1>6
<1>8. ASSUME NEW h \in Allocated(t)
      PROVE  /\ h \in Allocated(s) /\ t.storage[h] = s.storage[h]
             /\ FrameOf(t, h) = FrameOf(s, h) /\ IndexOf(t, h) = IndexOf(s, h)
             /\ FrameOf(s, h) \in 1..n
             /\ RestOf(t, Under(stk), h) = RestOf(s, stk, h)
             /\ Linked(out, t, Under(stk), h)
  <2>1. h \in Allocated(s) /\ FrameOf(s, h) < n + 1 /\ t.storage[h] = s.storage[h]
    BY <1>5, <1>7
  <2>2. /\ IsBuffer(stk, FrameOf(s, h), IndexOf(s, h)) /\ Linked(out, s, stk, h)
        /\ FrameOf(s, h) \in Nat /\ IndexOf(s, h) \in Nat
    <3>1. Linked(out, s, stk, h)
      BY <2>1 DEF Owned
    <3> QED BY <2>1, <3>1, EntryLinked
  <2>3. FrameOf(t, h) = FrameOf(s, h) /\ IndexOf(t, h) = IndexOf(s, h)
    BY <2>1 DEF FrameOf, IndexOf
  <2>4. FrameOf(s, h) \in 1..n
    BY <2>1, <2>2 DEF IsBuffer
  <2>5. Under(stk)[FrameOf(s, h)] = stk[FrameOf(s, h)]
    BY <2>4, <1>2
  <2>6. RestOf(t, Under(stk), h) = RestOf(s, stk, h)
    BY <2>3, <2>5 DEF RestOf
  <2>7. Linked(out, t, Under(stk), h)
    BY <2>2, <2>3, <2>4, <2>5, <1>2 DEF Linked
  <2> QED BY <2>1, <2>3, <2>4, <2>6, <2>7
<1>9. ASSUME NEW d \in Nat, NEW k \in Nat, IsBuffer(Under(stk), d, k),
             Under(stk)[d].buffers[k].out = out
      PROVE  /\ k <= MaxBuffers
             /\ Under(stk)[d].buffers[k].handle \in Allocated(t)
             /\ FrameOf(t, Under(stk)[d].buffers[k].handle) = d
             /\ IndexOf(t, Under(stk)[d].buffers[k].handle) = k
  <2>1. d \in 1..n /\ IsBuffer(stk, d, k) /\ Under(stk)[d] = stk[d]
    BY <1>2, <1>9
  <2>2. /\ k <= MaxBuffers /\ stk[d].buffers[k].handle \in Allocated(s)
        /\ FrameOf(s, stk[d].buffers[k].handle) = d /\ IndexOf(s, stk[d].buffers[k].handle) = k
    BY <2>1, <1>9 DEF Owned
  <2>3. stk[d].buffers[k].handle \in Allocated(t)
    BY <2>1, <2>2, <1>7
  <2> QED BY <2>1, <2>2, <2>3, <1>8
<1>10. Owned(out, t, Under(stk))
  BY <1>8, <1>9 DEF Owned
<1> QED BY <1>5, <1>7, <1>8, <1>10 DEF KeepsBelow

LEMMA PoppedWrapper ==
    ASSUME NEW ins, NEW outs, NEW stk, Base(ins, outs, stk), NEW n \in Nat, Len(stk) = n + 1,
           stk[n + 1].kind = "wrapper"
    PROVE  Base(Emptied(ins, FALSE, stk[n + 1].buffers),
                Emptied(outs, TRUE, stk[n + 1].buffers), Under(stk))
<1> DEFINE int == Emptied(ins, FALSE, stk[n + 1].buffers)
           outt == Emptied(outs, TRUE, stk[n + 1].buffers)
<1>1. stk \in Seq(FrameRecord) /\ LockKept(stk) /\ WasmBelow(stk)
  BY DEF Base
<1>2. /\ Under(stk) \in Seq(FrameRecord) /\ Len(Under(stk)) = n
      /\ \A d \in 1..n : Under(stk)[d] = stk[d]
      /\ LockKept(Under(stk)) /\ WasmBelow(Under(stk))
  BY <1>1, PoppedStack
<1>3. /\ SlabFine(ins) /\ SlabFine(outs) /\ Owned(FALSE, ins, stk) /\ Owned(TRUE, outs, stk)
      /\ RawBacked(ins, stk) /\ RawBacked(outs, stk) /\ IterBacked(ins, stk)
      /\ ShimsFine(ins, outs, stk) /\ Len(stk) <= MaxDepth
  BY DEF Base
<1> HIDE DEF int, outt
<1>a. KeepsBelow(ins, FALSE, stk, n, int)
  BY <1>1, <1>3, EmptiedOwned DEF int
<1>b. KeepsBelow(outs, TRUE, stk, n, outt)
  BY <1>1, <1>3, EmptiedOwned DEF outt
<1>4. /\ SlabFine(int) /\ Owned(FALSE, int, Under(stk))
      /\ Allocated(int) = {h \in Allocated(ins) : FrameOf(ins, h) < n + 1}
      /\ \A h \in Allocated(int) : /\ int.storage[h] = ins.storage[h]
                                   /\ RestOf(int, Under(stk), h) = RestOf(ins, stk, h)
  BY <1>a DEF KeepsBelow
<1>5. /\ SlabFine(outt) /\ Owned(TRUE, outt, Under(stk))
      /\ Allocated(outt) = {h \in Allocated(outs) : FrameOf(outs, h) < n + 1}
      /\ \A h \in Allocated(outt) : /\ outt.storage[h] = outs.storage[h]
                                    /\ RestOf(outt, Under(stk), h) = RestOf(outs, stk, h)
  BY <1>b DEF KeepsBelow
<1>6. RawBacked(int, Under(stk))
  BY <1>3, <1>4 DEF RawBacked
<1>7. RawBacked(outt, Under(stk))
  BY <1>3, <1>5 DEF RawBacked
<1>8. IterBacked(int, Under(stk))
  <2> SUFFICES ASSUME NEW h \in Allocated(int), ~int.storage[h].buffer.raw
               PROVE  /\ RestOf(int, Under(stk), h) >= 0
                      /\ RestOf(int, Under(stk), h) + Taken(Under(stk), h)
                             <= int.storage[h].buffer.len
    BY DEF IterBacked
  <2>1. stk[n + 1] \in FrameRecord
    BY <1>1
  <2>2. TakenBy(stk[n + 1], h) = 0 /\ Taken(stk, h) = Taken(Under(stk), h)
    <3>1. TakenBy(stk[n + 1], h) = 0
      BY <2>1, TakenByNatural
    <3>2. Taken(Under(stk), h) \in Nat /\ Taken(stk, h) = Taken(Under(stk), h) + TakenBy(stk[n + 1], h)
      BY <1>1, TakenPopped
    <3> QED BY <3>1, <3>2
  <2>3. h \in Allocated(ins) /\ int.storage[h] = ins.storage[h]
    BY <1>4
  <2> QED BY <2>2, <2>3, <1>3, <1>4 DEF IterBacked
<1>9. ShimsFine(int, outt, Under(stk))
  <2> SUFFICES ASSUME NEW d \in 1..n
               PROVE  /\ stk[d].kind = "in_read" => ReadFine(int, Under(stk), d)
                      /\ stk[d].kind = "out_write" => WriteFine(outt, Under(stk), d)
    BY <1>2 DEF ShimsFine
  <2>1. ASSUME stk[d].kind = "in_read" PROVE ReadFine(int, Under(stk), d)
    <3>1. ReadFine(ins, stk, d)
      BY <2>1, <1>3 DEF ShimsFine
    <3>2. FrameOf(ins, stk[d].handle) \in Nat
      BY <3>1, <1>3, EntryLinked DEF ReadFine
    <3>3. stk[d].handle \in Allocated(int)
      BY <3>1, <3>2, <1>4 DEF ReadFine
    <3>4. FrameOf(int, stk[d].handle) = FrameOf(ins, stk[d].handle)
      BY <3>3, <1>4 DEF FrameOf
    <3> QED BY <3>1, <3>3, <3>4, <1>2, <1>4 DEF ReadFine
  <2>2. ASSUME stk[d].kind = "out_write" PROVE WriteFine(outt, Under(stk), d)
    <3>1. WriteFine(outs, stk, d)
      BY <2>2, <1>3 DEF ShimsFine
    <3>2. FrameOf(outs, stk[d].handle) \in Nat
      BY <3>1, <1>3, EntryLinked DEF WriteFine
    <3>3. stk[d].handle \in Allocated(outt)
      BY <3>1, <3>2, <1>5 DEF WriteFine
    <3>4. FrameOf(outt, stk[d].handle) = FrameOf(outs, stk[d].handle)
      BY <3>3, <1>5 DEF FrameOf
    <3> QED BY <3>1, <3>3, <3>4, <1>2, <1>5 DEF WriteFine
  <2> QED BY <2>1, <2>2
<1>10. Len(Under(stk)) <= MaxDepth
  BY <1>2, <1>3, BufferAssumption
<1>11. Base(int, outt, Under(stk))
  BY <1>2, <1>4, <1>5, <1>6, <1>7, <1>8, <1>9, <1>10 DEF Base
<1> QED BY <1>11 DEF int, outt

(***************************************************************************)
(* Steps that change frames or buffers where they are.                     *)
(***************************************************************************)

\* The same frames with the same handles.
Alike(stk, new) ==
    /\ Len(new) = Len(stk)
    /\ \A d \in 1..Len(stk) :
          /\ new[d].kind = stk[d].kind
          /\ stk[d].kind = "wrapper" =>
                /\ Len(new[d].buffers) = Len(stk[d].buffers)
                /\ \A k \in 1..Len(stk[d].buffers) :
                      /\ new[d].buffers[k].out = stk[d].buffers[k].out
                      /\ new[d].buffers[k].handle = stk[d].buffers[k].handle
          /\ stk[d].kind = "in_read" =>
                /\ new[d].handle = stk[d].handle
                /\ new[d].pending => new[d].left > 0
          /\ stk[d].kind = "out_write" =>
                /\ new[d].handle = stk[d].handle /\ new[d].want = stk[d].want
                /\ new[d].left <= new[d].want

\* The invariant without what it says of counts.
Skeleton(ins, outs, stk) ==
    /\ SlabFine(ins) /\ SlabFine(outs)
    /\ stk \in Seq(FrameRecord) /\ Len(stk) <= MaxDepth
    /\ Owned(FALSE, ins, stk) /\ Owned(TRUE, outs, stk)
    /\ ShimsFine(ins, outs, stk) /\ LockKept(stk) /\ WasmBelow(stk)

LEMMA AlikeOwned ==
    ASSUME NEW s, SlabFine(s), NEW out, NEW stk, Owned(out, s, stk), NEW new, Alike(stk, new)
    PROVE  Owned(out, s, new)
<1>1. \A d, k \in Nat : IsBuffer(new, d, k) <=> IsBuffer(stk, d, k)
  BY DEF Alike, IsBuffer
<1>2. \A d, k \in Nat : IsBuffer(stk, d, k) => /\ new[d].buffers[k].out = stk[d].buffers[k].out
                                               /\ new[d].buffers[k].handle = stk[d].buffers[k].handle
  BY DEF Alike, IsBuffer
<1>3. ASSUME NEW h \in Allocated(s) PROVE Linked(out, s, new, h)
  BY <1>1, <1>2, EntryLinked DEF Linked
<1>4. ASSUME NEW d \in Nat, NEW k \in Nat, IsBuffer(new, d, k), new[d].buffers[k].out = out
      PROVE  /\ k <= MaxBuffers
             /\ new[d].buffers[k].handle \in Allocated(s)
             /\ FrameOf(s, new[d].buffers[k].handle) = d
             /\ IndexOf(s, new[d].buffers[k].handle) = k
  BY <1>1, <1>2, <1>4 DEF Owned
<1> QED BY <1>3, <1>4 DEF Owned

LEMMA AlikeSkeleton ==
    ASSUME NEW ins, NEW outs, NEW stk, Skeleton(ins, outs, stk),
           NEW new \in Seq(FrameRecord), Alike(stk, new)
    PROVE  Skeleton(ins, outs, new)
<1>1. /\ SlabFine(ins) /\ SlabFine(outs) /\ stk \in Seq(FrameRecord) /\ Len(stk) <= MaxDepth
      /\ Owned(FALSE, ins, stk) /\ Owned(TRUE, outs, stk)
      /\ ShimsFine(ins, outs, stk) /\ LockKept(stk) /\ WasmBelow(stk)
  BY DEF Skeleton
<1>2. Owned(FALSE, ins, new) /\ Owned(TRUE, outs, new)
  BY <1>1, AlikeOwned
<1>3. PICK n \in Nat : n = Len(stk) /\ n = Len(new)
  BY <1>1 DEF Alike
<1>4. ShimsFine(ins, outs, new)
  BY <1>1, <1>3 DEF ShimsFine, ReadFine, WriteFine, Alike
<1>5. LockKept(new)
  <2> SUFFICES ASSUME NEW d \in 1..n, NEW e \in 1..n, d < e, new[d].kind = "out_write"
               PROVE  /\ new[e].kind \notin {"in_read", "out_write"}
                      /\ new[e].kind = "wrapper" => new[e].buffers = <<>>
    BY <1>3 DEF LockKept
  <2>1. /\ stk[e].kind \notin {"in_read", "out_write"}
        /\ stk[e].kind = "wrapper" => stk[e].buffers = <<>>
    BY <1>1, <1>3 DEF LockKept, Alike
  <2>2. ASSUME new[e].kind = "wrapper" PROVE new[e].buffers = <<>>
    <3>1. new[e] \in FrameRecord
      BY <1>3
    <3>2. new[e].buffers \in Seq(Passed)
      BY <2>2, <3>1, FrameFields
    <3>3. Len(new[e].buffers) = 0
      BY <2>1, <2>2, <1>3 DEF Alike
    <3> QED BY <3>2, <3>3
  <2> QED BY <2>1, <2>2, <1>3 DEF Alike
<1>6. WasmBelow(new)
  <2> SUFFICES ASSUME NEW d \in 1..n, new[d].kind = "wasm" PROVE d > 1 /\ new[d - 1].kind = "wrapper"
    BY <1>3 DEF WasmBelow
  <2>1. d > 1 /\ stk[d - 1].kind = "wrapper"
    BY <1>1, <1>3 DEF WasmBelow, Alike
  <2>2. d - 1 \in 1..n
    BY <2>1
  <2> QED BY <2>1, <2>2, <1>3 DEF Alike
<1> QED BY <1>1, <1>2, <1>3, <1>4, <1>5, <1>6 DEF Skeleton

\* Using items of a buffer leaves its entry where it is.
Drained(s, out, stk, h, n, t) ==
    /\ SlabFine(t) /\ Owned(out, t, stk) /\ Allocated(t) = Allocated(s)
    /\ t.storage[h].buffer.len = s.storage[h].buffer.len - n
    /\ \A i \in Allocated(s) :
          /\ i # h => t.storage[i].buffer.len = s.storage[i].buffer.len
          /\ t.storage[i].buffer.raw = s.storage[i].buffer.raw
          /\ FrameOf(t, i) = FrameOf(s, i) /\ IndexOf(t, i) = IndexOf(s, i)

LEMMA ConsumedOwned ==
    ASSUME NEW s, SlabFine(s), NEW out, NEW stk, Owned(out, s, stk),
           NEW h \in Allocated(s), NEW n \in Nat, n <= s.storage[h].buffer.len,
           NEW t, t = Consume(s, h, n)
    PROVE  Drained(s, out, stk, h, n, t)
<1>1. /\ SlabFine(t) /\ Allocated(t) = Allocated(s)
      /\ t.storage[h].buffer.len = s.storage[h].buffer.len - n
      /\ \A i \in Allocated(s) : /\ i # h => t.storage[i] = s.storage[i]
                                 /\ t.storage[i].buffer.raw = s.storage[i].buffer.raw
                                 /\ FrameOf(t, i) = FrameOf(s, i)
                                 /\ IndexOf(t, i) = IndexOf(s, i)
  BY ConsumeFine
<1>2. Owned(out, t, stk)
  BY <1>1 DEF Owned, Linked
<1> QED BY <1>1, <1>2 DEF Drained

\* The frames after the k-th buffer of frame d gave or took n items.
Advanced(stk, d, k, n) == [stk EXCEPT ![d].buffers[k].rest = @ - n]

AdvancedAt(stk, d, k, n, new) ==
    /\ new \in Seq(FrameRecord) /\ Len(new) = Len(stk)
    /\ \A e \in 1..Len(stk) : e # d => new[e] = stk[e]
    /\ new[d].kind = "wrapper" /\ new[d].called = stk[d].called
    /\ Len(new[d].buffers) = Len(stk[d].buffers)
    /\ \A j \in 1..Len(stk[d].buffers) :
          /\ new[d].buffers[j].out = stk[d].buffers[j].out
          /\ new[d].buffers[j].handle = stk[d].buffers[j].handle
          /\ new[d].buffers[j].rest = IF j = k THEN stk[d].buffers[j].rest - n
                                               ELSE stk[d].buffers[j].rest

LEMMA AdvancedStack ==
    ASSUME NEW stk \in Seq(FrameRecord), NEW d \in Nat, NEW k \in Nat, IsBuffer(stk, d, k),
           NEW n \in Nat, NEW new, new = Advanced(stk, d, k, n)
    PROVE  AdvancedAt(stk, d, k, n, new)
<1> DEFINE f == stk[d]
           b == f.buffers[k]
           c == [out |-> b.out, handle |-> b.handle, rest |-> b.rest - n]
           g == [kind |-> "wrapper", buffers |-> [f.buffers EXCEPT ![k] = c], called |-> f.called]
<1>1. d \in 1..Len(stk) /\ f \in FrameRecord /\ f.kind = "wrapper" /\ k \in 1..Len(f.buffers)
  BY DEF IsBuffer
<1>2. /\ f = [kind |-> "wrapper", buffers |-> f.buffers, called |-> f.called]
      /\ f.buffers \in Seq(Passed) /\ f.called \in BOOLEAN
  BY <1>1, FrameFields
<1>3. b \in Passed
  BY <1>1, <1>2
<1>4. /\ b = [out |-> b.out, handle |-> b.handle, rest |-> b.rest]
      /\ b.out \in BOOLEAN /\ b.handle \in Nat /\ b.rest \in Int
  BY <1>3 DEF Passed
<1>5. c \in Passed /\ c.out = b.out /\ c.handle = b.handle /\ c.rest = b.rest - n
  BY <1>4 DEF Passed
<1>6. new = [stk EXCEPT ![d] = g]
  <2>1. [b EXCEPT !.rest = @ - n] = c
    BY <1>4
  <2>2. [f EXCEPT !.buffers = [f.buffers EXCEPT ![k] = [b EXCEPT !.rest = @ - n]]] = g
    <3> DEFINE q == [f.buffers EXCEPT ![k] = c]
    <3> HIDE DEF q
    <3>1. [f EXCEPT !.buffers = q] = [kind |-> "wrapper", buffers |-> q, called |-> f.called]
      BY <1>2
    <3>2. [f.buffers EXCEPT ![k] = [b EXCEPT !.rest = @ - n]] = q
      <4> HIDE DEF b, c, f
      <4> QED BY <2>1 DEF q
    <3> QED BY <3>1, <3>2 DEF q
  <2>3. new = [stk EXCEPT ![d] = [f EXCEPT !.buffers = [f.buffers EXCEPT ![k] = [b EXCEPT !.rest = @ - n]]]]
    BY DEF Advanced
  <2> HIDE DEF f, b, c, g
  <2> QED BY <2>2, <2>3
<1> HIDE DEF c, b
<1>7. /\ [f.buffers EXCEPT ![k] = c] \in Seq(Passed)
      /\ Len([f.buffers EXCEPT ![k] = c]) = Len(f.buffers)
      /\ \A j \in 1..Len(f.buffers) :
            [f.buffers EXCEPT ![k] = c][j] = IF j = k THEN c ELSE f.buffers[j]
  BY <1>1, <1>2, <1>5
<1>8. g \in FrameRecord
  BY <1>2, <1>7 DEF FrameRecord, WrapperFrame
<1>9. /\ new \in Seq(FrameRecord) /\ Len(new) = Len(stk) /\ new[d] = g
      /\ \A e \in 1..Len(stk) : e # d => new[e] = stk[e]
  <2> HIDE DEF g
  <2> QED BY <1>1, <1>6, <1>8
<1>10. ASSUME NEW j \in 1..Len(f.buffers)
       PROVE  /\ g.buffers[j].out = f.buffers[j].out /\ g.buffers[j].handle = f.buffers[j].handle
              /\ g.buffers[j].rest = IF j = k THEN f.buffers[j].rest - n ELSE f.buffers[j].rest
  <2>1. g.buffers[j] = IF j = k THEN c ELSE f.buffers[j]
    BY <1>7
  <2> QED BY <2>1, <1>5 DEF b
<1>11. g.kind = "wrapper" /\ g.called = f.called /\ Len(g.buffers) = Len(f.buffers)
  BY <1>7
<1> QED BY <1>9, <1>10, <1>11 DEF AdvancedAt

\* What is left of the buffers then.
MovedOn(s, stk, h, n, new) ==
    /\ RestOf(s, new, h) = RestOf(s, stk, h) - n
    /\ \A i \in Allocated(s) : i # h => RestOf(s, new, i) = RestOf(s, stk, i)

SameRest(s, stk, new) == \A i \in Allocated(s) : RestOf(s, new, i) = RestOf(s, stk, i)

LEMMA AdvancedRest ==
    ASSUME NEW stk \in Seq(FrameRecord), NEW s, SlabFine(s), NEW out, Owned(out, s, stk),
           NEW h \in Allocated(s), NEW n \in Nat
    PROVE  MovedOn(s, stk, h, n, Advanced(stk, FrameOf(s, h), IndexOf(s, h), n))
<1> DEFINE d == FrameOf(s, h)
           k == IndexOf(s, h)
           new == Advanced(stk, d, k, n)
<1>0. new = Advanced(stk, d, k, n)
  OBVIOUS
<1> HIDE DEF new
<1>1. d \in Nat /\ k \in Nat /\ IsBuffer(stk, d, k) /\ stk[d].buffers[k].handle = h
  BY EntryLinked
<1>2. /\ \A e \in 1..Len(stk) : e # d => new[e] = stk[e]
      /\ \A j \in 1..Len(stk[d].buffers) :
            new[d].buffers[j].rest = IF j = k THEN stk[d].buffers[j].rest - n
                                              ELSE stk[d].buffers[j].rest
  <2> HIDE DEF d, k
  <2>1. AdvancedAt(stk, d, k, n, new)
    BY <1>0, <1>1, AdvancedStack
  <2> QED BY <2>1 DEF AdvancedAt
<1>3. RestOf(s, new, h) = RestOf(s, stk, h) - n
  BY <1>1, <1>2 DEF RestOf, IsBuffer
<1>4. ASSUME NEW i \in Allocated(s), i # h PROVE RestOf(s, new, i) = RestOf(s, stk, i)
  <2>1. /\ IsBuffer(stk, FrameOf(s, i), IndexOf(s, i))
        /\ stk[FrameOf(s, i)].buffers[IndexOf(s, i)].handle = i
    BY EntryLinked
  <2>2. FrameOf(s, i) # d \/ IndexOf(s, i) # k
    BY <1>1, <1>4, <2>1
  <2> QED BY <1>2, <2>1, <2>2 DEF RestOf, IsBuffer
<1>5. MovedOn(s, stk, h, n, new)
  BY <1>3, <1>4 DEF MovedOn
<1> QED BY <1>5 DEF new

\* The buffers of the other slab keep theirs.
LEMMA AdvancedOther ==
    ASSUME NEW stk \in Seq(FrameRecord), NEW d \in Nat, NEW k \in Nat, IsBuffer(stk, d, k),
           NEW n \in Nat, NEW new, new = Advanced(stk, d, k, n),
           NEW s, SlabFine(s), NEW out, Owned(out, s, stk), stk[d].buffers[k].out # out
    PROVE  SameRest(s, stk, new)
<1>1. AdvancedAt(stk, d, k, n, new)
  BY AdvancedStack
<1>2. ASSUME NEW i \in Allocated(s) PROVE RestOf(s, new, i) = RestOf(s, stk, i)
  <2>1. /\ IsBuffer(stk, FrameOf(s, i), IndexOf(s, i))
        /\ stk[FrameOf(s, i)].buffers[IndexOf(s, i)].out = out
    BY EntryLinked
  <2>2. FrameOf(s, i) # d \/ IndexOf(s, i) # k
    BY <2>1
  <2> QED BY <1>1, <2>1, <2>2 DEF AdvancedAt, RestOf, IsBuffer
<1> QED BY <1>2 DEF SameRest

\* Giving or taking items moves no buffer and no frame.
LEMMA AdvancedSkeleton ==
    ASSUME NEW ins, NEW outs, NEW stk, Skeleton(ins, outs, stk),
           NEW d \in Nat, NEW k \in Nat, IsBuffer(stk, d, k), NEW n \in Nat,
           NEW new, new = Advanced(stk, d, k, n)
    PROVE  /\ Skeleton(ins, outs, new) /\ Len(new) = Len(stk)
           /\ \A e \in 1..Len(stk) : stk[e].kind # "wrapper" => new[e] = stk[e]
           /\ \A h : Taken(new, h) = Taken(stk, h)
<1>1. /\ stk \in Seq(FrameRecord) /\ ShimsFine(ins, outs, stk)
      /\ d \in 1..Len(stk) /\ stk[d].kind = "wrapper"
  BY DEF Skeleton, IsBuffer
<1>2. /\ new \in Seq(FrameRecord) /\ Len(new) = Len(stk)
      /\ \A e \in 1..Len(stk) : e # d => new[e] = stk[e]
      /\ new[d].kind = "wrapper" /\ Len(new[d].buffers) = Len(stk[d].buffers)
      /\ \A j \in 1..Len(stk[d].buffers) :
            /\ new[d].buffers[j].out = stk[d].buffers[j].out
            /\ new[d].buffers[j].handle = stk[d].buffers[j].handle
  <2>1. AdvancedAt(stk, d, k, n, new)
    BY <1>1, AdvancedStack
  <2> QED BY <2>1 DEF AdvancedAt
<1>3. \A e \in 1..Len(stk) : stk[e].kind # "wrapper" => new[e] = stk[e]
  BY <1>1, <1>2
<1>4. Alike(stk, new)
  <2> SUFFICES ASSUME NEW e \in 1..Len(stk)
               PROVE  /\ new[e].kind = stk[e].kind
                      /\ stk[e].kind = "wrapper" =>
                            /\ Len(new[e].buffers) = Len(stk[e].buffers)
                            /\ \A j \in 1..Len(stk[e].buffers) :
                                  /\ new[e].buffers[j].out = stk[e].buffers[j].out
                                  /\ new[e].buffers[j].handle = stk[e].buffers[j].handle
                      /\ stk[e].kind = "in_read" =>
                            /\ new[e].handle = stk[e].handle
                            /\ new[e].pending => new[e].left > 0
                      /\ stk[e].kind = "out_write" =>
                            /\ new[e].handle = stk[e].handle /\ new[e].want = stk[e].want
                            /\ new[e].left <= new[e].want
    BY <1>2 DEF Alike
  <2>1. CASE e = d
    BY <2>1, <1>1, <1>2
  <2>2. CASE e # d
    <3>1. new[e] = stk[e]
      BY <2>2, <1>2
    <3>2. /\ stk[e].kind = "in_read" => (stk[e].pending => stk[e].left > 0)
          /\ stk[e].kind = "out_write" => stk[e].left <= stk[e].want
      BY <1>1 DEF ShimsFine, ReadFine, WriteFine
    <3> QED BY <3>1, <3>2
  <2> QED BY <2>1, <2>2
<1>5. Skeleton(ins, outs, new)
  BY <1>2, <1>4, AlikeSkeleton
<1>6. ASSUME NEW h PROVE Taken(new, h) = Taken(stk, h)
  <2>1. \A e \in 1..Len(stk) : TakenBy(new[e], h) = TakenBy(stk[e], h)
    <3> SUFFICES ASSUME NEW e \in 1..Len(stk) PROVE TakenBy(new[e], h) = TakenBy(stk[e], h)
      OBVIOUS
    <3>1. CASE e = d
      BY <3>1, <1>1, <1>2 DEF TakenBy, Reads
    <3>2. CASE e # d
      BY <3>2, <1>2
    <3> QED BY <3>1, <3>2
  <2> QED BY <2>1, <1>1, <1>2, TakenKept
<1> QED BY <1>2, <1>3, <1>5, <1>6

\* The invariant is the skeleton and the counts.
LEMMA BaseParts ==
    ASSUME NEW ins, NEW outs, NEW stk
    PROVE  Base(ins, outs, stk) <=> /\ Skeleton(ins, outs, stk)
                                    /\ RawBacked(ins, stk) /\ RawBacked(outs, stk)
                                    /\ IterBacked(ins, stk)
BY DEF Base, Skeleton

\* Items of an iterator are subtracted that no frame on the stack counts.
LEMMA ConsumedIn ==
    ASSUME NEW ins, NEW outs, NEW stk, Base(ins, outs, stk),
           NEW h \in Allocated(ins), ~ins.storage[h].buffer.raw, NEW n \in Nat,
           RestOf(ins, stk, h) + Taken(stk, h) + n <= ins.storage[h].buffer.len,
           NEW t, t = Consume(ins, h, n)
    PROVE  Base(t, outs, stk)
<1>1. /\ SlabFine(ins) /\ SlabFine(outs) /\ Owned(FALSE, ins, stk) /\ Owned(TRUE, outs, stk)
      /\ RawBacked(ins, stk) /\ RawBacked(outs, stk) /\ IterBacked(ins, stk)
      /\ ShimsFine(ins, outs, stk) /\ LockKept(stk) /\ WasmBelow(stk)
      /\ Len(stk) <= MaxDepth /\ stk \in Seq(FrameRecord)
  BY DEF Base
<1>2. /\ RestOf(ins, stk, h) \in Int /\ RestOf(ins, stk, h) >= 0
      /\ Taken(stk, h) \in Nat /\ ins.storage[h].buffer.len \in Nat
  BY <1>1, TakenNatural, RestInteger, EntryLinked DEF IterBacked
<1>3. n <= ins.storage[h].buffer.len
  BY <1>2
<1>d. Drained(ins, FALSE, stk, h, n, t)
  BY <1>1, <1>3, ConsumedOwned
<1>4. /\ SlabFine(t) /\ Owned(FALSE, t, stk) /\ Allocated(t) = Allocated(ins)
      /\ t.storage[h].buffer.len = ins.storage[h].buffer.len - n
      /\ \A i \in Allocated(ins) :
            /\ i # h => t.storage[i].buffer.len = ins.storage[i].buffer.len
            /\ t.storage[i].buffer.raw = ins.storage[i].buffer.raw
            /\ FrameOf(t, i) = FrameOf(ins, i)
            /\ RestOf(t, stk, i) = RestOf(ins, stk, i)
  BY <1>d DEF Drained, RestOf
<1>5. RawBacked(t, stk)
  BY <1>1, <1>4 DEF RawBacked
<1>6. IterBacked(t, stk)
  <2> SUFFICES ASSUME NEW i \in Allocated(t), ~t.storage[i].buffer.raw
               PROVE  /\ RestOf(t, stk, i) >= 0
                      /\ RestOf(t, stk, i) + Taken(stk, i) <= t.storage[i].buffer.len
    BY DEF IterBacked
  <2>1. CASE i = h
    BY <2>1, <1>2, <1>4
  <2>2. CASE i # h
    BY <2>2, <1>1, <1>4 DEF IterBacked
  <2> QED BY <2>1, <2>2
<1>7. ShimsFine(t, outs, stk)
  BY <1>1, <1>4 DEF ShimsFine, ReadFine
<1> QED BY <1>1, <1>4, <1>5, <1>6, <1>7 DEF Base

\* Room of a vector is subtracted that no frame on the stack counts on.
LEMMA ConsumedOut ==
    ASSUME NEW ins, NEW outs, NEW stk, Base(ins, outs, stk),
           NEW h \in Allocated(outs), ~outs.storage[h].buffer.raw, NEW n \in Nat,
           n <= outs.storage[h].buffer.len,
           \A d \in 1..Len(stk) : stk[d].kind # "out_write",
           NEW t, t = Consume(outs, h, n)
    PROVE  Base(ins, t, stk)
<1>1. /\ SlabFine(ins) /\ SlabFine(outs) /\ Owned(FALSE, ins, stk) /\ Owned(TRUE, outs, stk)
      /\ RawBacked(ins, stk) /\ RawBacked(outs, stk) /\ IterBacked(ins, stk)
      /\ ShimsFine(ins, outs, stk) /\ LockKept(stk) /\ WasmBelow(stk)
      /\ Len(stk) <= MaxDepth /\ stk \in Seq(FrameRecord)
  BY DEF Base
<1>d. Drained(outs, TRUE, stk, h, n, t)
  BY <1>1, ConsumedOwned
<1>2. /\ SlabFine(t) /\ Owned(TRUE, t, stk) /\ Allocated(t) = Allocated(outs)
      /\ \A i \in Allocated(outs) :
            /\ i # h => t.storage[i].buffer.len = outs.storage[i].buffer.len
            /\ t.storage[i].buffer.raw = outs.storage[i].buffer.raw
            /\ RestOf(t, stk, i) = RestOf(outs, stk, i)
  BY <1>d DEF Drained, RestOf
<1>3. RawBacked(t, stk)
  BY <1>1, <1>2 DEF RawBacked
<1>4. ShimsFine(ins, t, stk)
  BY <1>1 DEF ShimsFine
<1> QED BY <1>1, <1>2, <1>3, <1>4 DEF Base

\* The skeleton does not depend on how many items the buffers have.
LEMMA DrainedIn ==
    ASSUME NEW ins, NEW outs, NEW stk, Skeleton(ins, outs, stk), NEW h, NEW n, NEW t,
           Drained(ins, FALSE, stk, h, n, t)
    PROVE  Skeleton(t, outs, stk)
<1>1. ShimsFine(t, outs, stk)
  BY DEF Skeleton, Drained, ShimsFine, ReadFine
<1> QED BY <1>1 DEF Skeleton, Drained

\* What is left of the slices after n items of one are copied.
Copied(s, stk, h, n, t, new) ==
    /\ RestOf(t, new, h) = RestOf(s, stk, h) - n
    /\ \A i \in Allocated(s) : i # h => RestOf(t, new, i) = RestOf(s, stk, i)

\* A copy from a slice is subtracted and the slice's pointer advanced.
LEMMA CopiedIn ==
    ASSUME NEW ins, NEW outs, NEW stk, Base(ins, outs, stk),
           NEW h \in Allocated(ins), ins.storage[h].buffer.raw, NEW n \in Nat,
           n <= ins.storage[h].buffer.len,
           NEW t, t = Consume(ins, h, n),
           NEW new, new = Advanced(stk, FrameOf(ins, h), IndexOf(ins, h), n)
    PROVE  /\ Base(t, outs, new) /\ Drained(ins, FALSE, stk, h, n, t)
           /\ Copied(ins, stk, h, n, t, new)
           /\ SameRest(outs, stk, new)
<1>1. /\ SlabFine(ins) /\ SlabFine(outs) /\ Owned(FALSE, ins, stk) /\ Owned(TRUE, outs, stk)
      /\ RawBacked(ins, stk) /\ RawBacked(outs, stk) /\ IterBacked(ins, stk)
      /\ stk \in Seq(FrameRecord) /\ Skeleton(ins, outs, stk)
  BY DEF Base, Skeleton
<1>2. Drained(ins, FALSE, stk, h, n, t)
  BY <1>1, ConsumedOwned
<1>3. Skeleton(t, outs, stk)
  BY <1>1, <1>2, DrainedIn
<1>4. /\ FrameOf(ins, h) \in Nat /\ IndexOf(ins, h) \in Nat
      /\ IsBuffer(stk, FrameOf(ins, h), IndexOf(ins, h))
  BY <1>1, EntryLinked
<1>5. Skeleton(t, outs, new) /\ \A i : Taken(new, i) = Taken(stk, i)
  BY <1>3, <1>4, AdvancedSkeleton
<1>6. MovedOn(ins, stk, h, n, new)
  BY <1>1, AdvancedRest
<1>7. /\ RestOf(t, new, h) = RestOf(ins, stk, h) - n
      /\ \A i \in Allocated(ins) : i # h => RestOf(t, new, i) = RestOf(ins, stk, i)
  BY <1>2, <1>6 DEF Drained, MovedOn, RestOf
<1>8. SameRest(outs, stk, new)
  <2>1. Linked(FALSE, ins, stk, h)
    BY <1>1 DEF Owned
  <2>2. stk[FrameOf(ins, h)].buffers[IndexOf(ins, h)].out # TRUE
    BY <2>1 DEF Linked
  <2> QED BY <2>2, <1>1, <1>4, AdvancedOther
<1>9. RawBacked(t, new)
  <2> SUFFICES ASSUME NEW i \in Allocated(t), t.storage[i].buffer.raw
               PROVE  t.storage[i].buffer.len = RestOf(t, new, i)
    BY DEF RawBacked
  <2>1. CASE i = h
    BY <2>1, <1>1, <1>2, <1>7 DEF Drained, RawBacked
  <2>2. CASE i # h
    BY <2>2, <1>1, <1>2, <1>7 DEF Drained, RawBacked
  <2> QED BY <2>1, <2>2
<1>10. RawBacked(outs, new)
  BY <1>1, <1>8 DEF SameRest, RawBacked
<1>11. IterBacked(t, new)
  BY <1>1, <1>2, <1>5, <1>7 DEF Drained, IterBacked
<1>12. Base(t, outs, new)
  BY <1>5, <1>9, <1>10, <1>11, BaseParts
<1> QED BY <1>2, <1>7, <1>8, <1>12 DEF Copied

\* A copy to a slice is subtracted and the slice's pointer advanced.
LEMMA CopiedOut ==
    ASSUME NEW ins, NEW outs, NEW stk, Base(ins, outs, stk),
           NEW h \in Allocated(outs), outs.storage[h].buffer.raw, NEW n \in Nat,
           n <= outs.storage[h].buffer.len,
           NEW t, t = Consume(outs, h, n),
           NEW new, new = Advanced(stk, FrameOf(outs, h), IndexOf(outs, h), n)
    PROVE  /\ Base(ins, t, new) /\ Drained(outs, TRUE, stk, h, n, t)
           /\ Copied(outs, stk, h, n, t, new)
           /\ SameRest(ins, stk, new)
<1>1. /\ SlabFine(ins) /\ SlabFine(outs) /\ Owned(FALSE, ins, stk) /\ Owned(TRUE, outs, stk)
      /\ RawBacked(ins, stk) /\ RawBacked(outs, stk) /\ IterBacked(ins, stk)
      /\ stk \in Seq(FrameRecord) /\ Skeleton(ins, outs, stk)
  BY DEF Base, Skeleton
<1>2. Drained(outs, TRUE, stk, h, n, t)
  BY <1>1, ConsumedOwned
<1>3. Skeleton(ins, t, stk)
  <2>1. ASSUME NEW d \in 1..Len(stk), stk[d].kind = "out_write" PROVE WriteFine(t, stk, d)
    <3>1. WriteFine(outs, stk, d)
      BY <2>1, <1>1 DEF Skeleton, ShimsFine
    <3>2. stk[d].handle # h
      BY <3>1 DEF WriteFine
    <3> QED BY <3>1, <3>2, <1>2 DEF WriteFine, Drained
  <2>2. ShimsFine(ins, t, stk)
    BY <2>1, <1>1 DEF Skeleton, ShimsFine
  <2> QED BY <2>2, <1>1, <1>2 DEF Skeleton, Drained
<1>4. /\ FrameOf(outs, h) \in Nat /\ IndexOf(outs, h) \in Nat
      /\ IsBuffer(stk, FrameOf(outs, h), IndexOf(outs, h))
  BY <1>1, EntryLinked
<1>5. Skeleton(ins, t, new) /\ \A i : Taken(new, i) = Taken(stk, i)
  BY <1>3, <1>4, AdvancedSkeleton
<1>6. MovedOn(outs, stk, h, n, new)
  BY <1>1, AdvancedRest
<1>7. /\ RestOf(t, new, h) = RestOf(outs, stk, h) - n
      /\ \A i \in Allocated(outs) : i # h => RestOf(t, new, i) = RestOf(outs, stk, i)
  BY <1>2, <1>6 DEF Drained, MovedOn, RestOf
<1>8. SameRest(ins, stk, new)
  <2>1. Linked(TRUE, outs, stk, h)
    BY <1>1 DEF Owned
  <2>2. stk[FrameOf(outs, h)].buffers[IndexOf(outs, h)].out # FALSE
    BY <2>1 DEF Linked
  <2> QED BY <2>2, <1>1, <1>4, AdvancedOther
<1>9. RawBacked(t, new)
  <2> SUFFICES ASSUME NEW i \in Allocated(t), t.storage[i].buffer.raw
               PROVE  t.storage[i].buffer.len = RestOf(t, new, i)
    BY DEF RawBacked
  <2>1. CASE i = h
    BY <2>1, <1>1, <1>2, <1>7 DEF Drained, RawBacked
  <2>2. CASE i # h
    BY <2>2, <1>1, <1>2, <1>7 DEF Drained, RawBacked
  <2> QED BY <2>1, <2>2
<1>10. RawBacked(ins, new)
  BY <1>1, <1>8 DEF SameRest, RawBacked
<1>11. IterBacked(ins, new)
  BY <1>1, <1>5, <1>8 DEF SameRest, IterBacked
<1>12. Base(ins, t, new)
  BY <1>5, <1>9, <1>10, <1>11, BaseParts
<1> QED BY <1>2, <1>7, <1>8, <1>12 DEF Copied

\* What is taken when only the innermost frame changes.
TakenApart(stk, new, n, h) ==
    \E below \in Nat : /\ Taken(stk, h) = below + TakenBy(stk[n + 1], h)
                       /\ Taken(new, h) = below + TakenBy(new[n + 1], h)

LEMMA TakenTop ==
    ASSUME NEW stk \in Seq(FrameRecord), NEW new \in Seq(FrameRecord),
           NEW n \in Nat, Len(stk) = n + 1, Len(new) = n + 1,
           \A d \in 1..n : new[d] = stk[d], NEW h
    PROVE  TakenApart(stk, new, n, h)
<1>1. /\ Under(stk) \in Seq(FrameRecord) /\ Len(Under(stk)) = n
      /\ \A d \in 1..n : Under(stk)[d] = stk[d]
  BY UnderOf DEF FramesBelow
<1>2. /\ Under(new) \in Seq(FrameRecord) /\ Len(Under(new)) = n
      /\ \A d \in 1..n : Under(new)[d] = new[d]
  BY UnderOf DEF FramesBelow
<1>3. Under(new) = Under(stk)
  BY <1>1, <1>2
<1>4. /\ Taken(Under(stk), h) \in Nat
      /\ Taken(stk, h) = Taken(Under(stk), h) + TakenBy(stk[n + 1], h)
  BY TakenPopped
<1>5. Taken(new, h) = Taken(Under(new), h) + TakenBy(new[n + 1], h)
  BY TakenPopped
<1> QED BY <1>3, <1>4, <1>5 DEF TakenApart

\* Frame d is replaced.
ReplacedAt(stk, d, f, new) ==
    /\ new \in Seq(FrameRecord) /\ Len(new) = Len(stk) /\ new[d] = f
    /\ \A e \in 1..Len(stk) : e # d => new[e] = stk[e]

LEMMA ReplacedFrame ==
    ASSUME NEW stk \in Seq(FrameRecord), NEW d \in 1..Len(stk), NEW f \in FrameRecord
    PROVE  ReplacedAt(stk, d, f, [stk EXCEPT ![d] = f])
BY DEF ReplacedAt

\* The innermost frame, in_read's or out_write's, may become f.
GoesOn(ins, stk, n, f) ==
    /\ f.kind = stk[n + 1].kind /\ f.kind # "wrapper"
    /\ f.kind = "in_read" => f.handle = stk[n + 1].handle /\ (f.pending => f.left > 0)
    /\ f.kind = "out_write" =>
          f.handle = stk[n + 1].handle /\ f.want = stk[n + 1].want /\ f.left <= f.want
    /\ \A h \in Allocated(ins) : ~ins.storage[h].buffer.raw =>
          RestOf(ins, stk, h) + Taken(stk, h) - TakenBy(stk[n + 1], h) + TakenBy(f, h)
              <= ins.storage[h].buffer.len

LEMMA TopChanged ==
    ASSUME NEW ins, NEW outs, NEW stk, Base(ins, outs, stk), NEW n \in Nat, Len(stk) = n + 1,
           NEW f \in FrameRecord, GoesOn(ins, stk, n, f),
           NEW new, ReplacedAt(stk, n + 1, f, new)
    PROVE  Base(ins, outs, new) /\ SameBuffers(stk, new)
<1>1. /\ SlabFine(ins) /\ SlabFine(outs) /\ Owned(FALSE, ins, stk) /\ Owned(TRUE, outs, stk)
      /\ RawBacked(ins, stk) /\ RawBacked(outs, stk) /\ IterBacked(ins, stk)
      /\ stk \in Seq(FrameRecord) /\ Skeleton(ins, outs, stk) /\ ShimsFine(ins, outs, stk)
  BY DEF Base, Skeleton
<1>2. /\ new \in Seq(FrameRecord) /\ Len(new) = n + 1
      /\ \A d \in 1..(n + 1) : new[d] = IF d = n + 1 THEN f ELSE stk[d]
  BY DEF ReplacedAt
<1>3. Alike(stk, new)
  <2> SUFFICES ASSUME NEW d \in 1..(n + 1)
               PROVE  /\ new[d].kind = stk[d].kind
                      /\ stk[d].kind = "wrapper" => new[d] = stk[d]
                      /\ stk[d].kind = "in_read" =>
                            /\ new[d].handle = stk[d].handle
                            /\ new[d].pending => new[d].left > 0
                      /\ stk[d].kind = "out_write" =>
                            /\ new[d].handle = stk[d].handle /\ new[d].want = stk[d].want
                            /\ new[d].left <= new[d].want
    BY <1>2 DEF Alike
  <2>1. CASE d = n + 1
    BY <2>1, <1>2 DEF GoesOn
  <2>2. CASE d # n + 1
    <3>1. new[d] = stk[d]
      BY <2>2, <1>2
    <3>2. /\ stk[d].kind = "in_read" => (stk[d].pending => stk[d].left > 0)
          /\ stk[d].kind = "out_write" => stk[d].left <= stk[d].want
      BY <1>1 DEF ShimsFine, ReadFine, WriteFine
    <3> QED BY <3>1, <3>2
  <2> QED BY <2>1, <2>2
<1>4. Skeleton(ins, outs, new)
  BY <1>1, <1>2, <1>3, AlikeSkeleton
<1>5. SameBuffers(stk, new)
  <2> SUFFICES ASSUME NEW d \in Nat, NEW k \in Nat
               PROVE  /\ IsBuffer(stk, d, k) <=> IsBuffer(new, d, k)
                      /\ IsBuffer(stk, d, k) => new[d].buffers[k] = stk[d].buffers[k]
    BY DEF SameBuffers
  <2>1. CASE d = n + 1
    BY <2>1, <1>2 DEF IsBuffer, GoesOn
  <2>2. CASE d # n + 1
    BY <2>2, <1>2 DEF IsBuffer
  <2> QED BY <2>1, <2>2
<1>6. /\ RawBacked(ins, new) /\ \A h \in Allocated(ins) : RestOf(ins, new, h) = RestOf(ins, stk, h)
  BY <1>1, <1>5, BuffersKept
<1>7. RawBacked(outs, new)
  BY <1>1, <1>5, BuffersKept
<1>8. IterBacked(ins, new)
  <2> SUFFICES ASSUME NEW h \in Allocated(ins), ~ins.storage[h].buffer.raw
               PROVE  /\ RestOf(ins, new, h) >= 0
                      /\ RestOf(ins, new, h) + Taken(new, h) <= ins.storage[h].buffer.len
    BY DEF IterBacked
  <2>1. PICK below \in Nat : /\ Taken(stk, h) = below + TakenBy(stk[n + 1], h)
                             /\ Taken(new, h) = below + TakenBy(f, h)
    <3>1. \A d \in 1..n : new[d] = stk[d]
      BY <1>2
    <3>2. TakenApart(stk, new, n, h)
      BY <3>1, <1>1, <1>2, TakenTop
    <3>3. new[n + 1] = f
      BY <1>2
    <3> QED BY <3>2, <3>3 DEF TakenApart
  <2>2. TakenBy(stk[n + 1], h) \in Nat
    <3>1. stk[n + 1] \in FrameRecord
      BY <1>1
    <3> QED BY <3>1, TakenByNatural
  <2>3. TakenBy(f, h) \in Nat
    BY TakenByNatural
  <2>4. RestOf(ins, stk, h) \in Int /\ RestOf(ins, stk, h) >= 0
    BY <1>1, RestInteger DEF IterBacked
  <2>5. RestOf(ins, stk, h) + Taken(stk, h) - TakenBy(stk[n + 1], h) + TakenBy(f, h)
            <= ins.storage[h].buffer.len
    BY DEF GoesOn
  <2>6. ins.storage[h].buffer.len \in Nat
    BY <1>1, EntryLinked
  <2> DEFINE a == RestOf(ins, stk, h)
             b == below
             c == TakenBy(stk[n + 1], h)
             e == TakenBy(f, h)
             l == ins.storage[h].buffer.len
  <2>7. a \in Int /\ b \in Nat /\ c \in Nat /\ e \in Nat /\ l \in Nat /\ a + (b + c) - c + e <= l
    BY <2>1, <2>2, <2>3, <2>4, <2>5, <2>6
  <2> HIDE DEF a, b, c, e, l
  <2>8. a + (b + e) <= l
    BY <2>7
  <2> QED BY <2>1, <2>4, <2>8, <1>6 DEF a, b, e, l
<1>9. Base(ins, outs, new)
  BY <1>4, <1>6, <1>7, <1>8, BaseParts
<1> QED BY <1>5, <1>9

\* The next item of an iterator is taken.
LEMMA AdvancedIter ==
    ASSUME NEW ins, NEW outs, NEW stk, Base(ins, outs, stk),
           NEW h \in Allocated(ins), ~ins.storage[h].buffer.raw, RestOf(ins, stk, h) > 0,
           NEW new, new = Advanced(stk, FrameOf(ins, h), IndexOf(ins, h), 1)
    PROVE  /\ Base(ins, outs, new) /\ Len(new) = Len(stk)
           /\ \A e \in 1..Len(stk) : stk[e].kind # "wrapper" => new[e] = stk[e]
           /\ \A i : Taken(new, i) = Taken(stk, i)
           /\ MovedOn(ins, stk, h, 1, new) /\ SameRest(outs, stk, new)
<1>1. /\ SlabFine(ins) /\ SlabFine(outs) /\ Owned(FALSE, ins, stk) /\ Owned(TRUE, outs, stk)
      /\ RawBacked(ins, stk) /\ RawBacked(outs, stk) /\ IterBacked(ins, stk)
      /\ stk \in Seq(FrameRecord) /\ Skeleton(ins, outs, stk)
  BY DEF Base, Skeleton
<1>2. /\ FrameOf(ins, h) \in Nat /\ IndexOf(ins, h) \in Nat
      /\ IsBuffer(stk, FrameOf(ins, h), IndexOf(ins, h))
  BY <1>1, EntryLinked
<1>3. /\ Skeleton(ins, outs, new) /\ Len(new) = Len(stk)
      /\ \A e \in 1..Len(stk) : stk[e].kind # "wrapper" => new[e] = stk[e]
      /\ \A i : Taken(new, i) = Taken(stk, i)
  BY <1>1, <1>2, AdvancedSkeleton
<1>4. MovedOn(ins, stk, h, 1, new)
  BY <1>1, AdvancedRest
<1>5. SameRest(outs, stk, new)
  <2>1. Linked(FALSE, ins, stk, h)
    BY <1>1 DEF Owned
  <2>2. stk[FrameOf(ins, h)].buffers[IndexOf(ins, h)].out # TRUE
    BY <2>1 DEF Linked
  <2> QED BY <2>2, <1>1, <1>2, AdvancedOther
<1>6. RawBacked(ins, new)
  BY <1>1, <1>4 DEF RawBacked, MovedOn
<1>7. RawBacked(outs, new)
  BY <1>1, <1>5 DEF RawBacked, SameRest
<1>8. IterBacked(ins, new)
  <2> SUFFICES ASSUME NEW i \in Allocated(ins), ~ins.storage[i].buffer.raw
               PROVE  /\ RestOf(ins, new, i) >= 0
                      /\ RestOf(ins, new, i) + Taken(new, i) <= ins.storage[i].buffer.len
    BY DEF IterBacked
  <2>1. CASE i = h
    <3>1. RestOf(ins, new, i) = RestOf(ins, stk, i) - 1 /\ Taken(new, i) = Taken(stk, i)
      BY <2>1, <1>3, <1>4 DEF MovedOn
    <3>2. RestOf(ins, stk, i) \in Int /\ ins.storage[i].buffer.len \in Nat /\ RestOf(ins, stk, i) > 0
      BY <2>1, <1>1, RestInteger, EntryLinked
    <3>3. Taken(stk, i) \in Nat
      BY <1>1, TakenNatural
    <3>4. RestOf(ins, stk, i) + Taken(stk, i) <= ins.storage[i].buffer.len
      BY <1>1 DEF IterBacked
    <3> QED BY <3>1, <3>2, <3>3, <3>4
  <2>2. CASE i # h
    BY <2>2, <1>1, <1>3, <1>4 DEF IterBacked, MovedOn
  <2> QED BY <2>1, <2>2
<1>9. Base(ins, outs, new)
  BY <1>3, <1>6, <1>7, <1>8, BaseParts
<1> QED BY <1>3, <1>4, <1>5, <1>9

\* One more item is in a vector.
LEMMA AdvancedVector ==
    ASSUME NEW ins, NEW outs, NEW stk, Base(ins, outs, stk),
           NEW h \in Allocated(outs), ~outs.storage[h].buffer.raw,
           NEW new, new = Advanced(stk, FrameOf(outs, h), IndexOf(outs, h), 1)
    PROVE  /\ Base(ins, outs, new) /\ Len(new) = Len(stk)
           /\ \A e \in 1..Len(stk) : stk[e].kind # "wrapper" => new[e] = stk[e]
           /\ \A i : Taken(new, i) = Taken(stk, i)
           /\ MovedOn(outs, stk, h, 1, new) /\ SameRest(ins, stk, new)
<1>1. /\ SlabFine(ins) /\ SlabFine(outs) /\ Owned(FALSE, ins, stk) /\ Owned(TRUE, outs, stk)
      /\ RawBacked(ins, stk) /\ RawBacked(outs, stk) /\ IterBacked(ins, stk)
      /\ stk \in Seq(FrameRecord) /\ Skeleton(ins, outs, stk)
  BY DEF Base, Skeleton
<1>2. /\ FrameOf(outs, h) \in Nat /\ IndexOf(outs, h) \in Nat
      /\ IsBuffer(stk, FrameOf(outs, h), IndexOf(outs, h))
  BY <1>1, EntryLinked
<1>3. /\ Skeleton(ins, outs, new) /\ Len(new) = Len(stk)
      /\ \A e \in 1..Len(stk) : stk[e].kind # "wrapper" => new[e] = stk[e]
      /\ \A i : Taken(new, i) = Taken(stk, i)
  BY <1>1, <1>2, AdvancedSkeleton
<1>4. MovedOn(outs, stk, h, 1, new)
  BY <1>1, AdvancedRest
<1>5. SameRest(ins, stk, new)
  <2>1. Linked(TRUE, outs, stk, h)
    BY <1>1 DEF Owned
  <2>2. stk[FrameOf(outs, h)].buffers[IndexOf(outs, h)].out # FALSE
    BY <2>1 DEF Linked
  <2> QED BY <2>2, <1>1, <1>2, AdvancedOther
<1>6. RawBacked(outs, new)
  BY <1>1, <1>4 DEF RawBacked, MovedOn
<1>7. RawBacked(ins, new)
  BY <1>1, <1>5 DEF RawBacked, SameRest
<1>8. IterBacked(ins, new)
  BY <1>1, <1>3, <1>5 DEF IterBacked, SameRest
<1>9. Base(ins, outs, new)
  BY <1>3, <1>6, <1>7, <1>8, BaseParts
<1> QED BY <1>3, <1>4, <1>5, <1>9

(***************************************************************************)
(* A buffer is passed.                                                     *)
(***************************************************************************)

\* The frames after one more buffer of the innermost wrapper.
PassedAt(stk, d, b, new) ==
    /\ new \in Seq(FrameRecord) /\ Len(new) = d
    /\ \A e \in 1..d : e # d => new[e] = stk[e]
    /\ stk[d].buffers \in Seq(Passed) /\ new[d].kind = "wrapper"
    /\ new[d].called = stk[d].called
    /\ Len(new[d].buffers) = Len(stk[d].buffers) + 1
    /\ new[d].buffers[Len(stk[d].buffers) + 1] = b
    /\ \A k \in 1..Len(stk[d].buffers) : new[d].buffers[k] = stk[d].buffers[k]

LEMMA PassedStack ==
    ASSUME NEW stk \in Seq(FrameRecord), NEW d \in Nat, d = Len(stk), d > 0,
           stk[d].kind = "wrapper", NEW b \in Passed,
           NEW new, new = [stk EXCEPT ![d].buffers = Append(@, b)]
    PROVE  PassedAt(stk, d, b, new)
<1> DEFINE f == stk[d]
           q == Append(f.buffers, b)
           g == [kind |-> "wrapper", buffers |-> q, called |-> f.called]
<1>1. d \in 1..Len(stk) /\ f \in FrameRecord /\ f.kind = "wrapper"
  OBVIOUS
<1>2. /\ f = [kind |-> "wrapper", buffers |-> f.buffers, called |-> f.called]
      /\ f.buffers \in Seq(Passed) /\ f.called \in BOOLEAN
  BY <1>1, FrameFields
<1>3. /\ q \in Seq(Passed) /\ Len(q) = Len(f.buffers) + 1 /\ q[Len(f.buffers) + 1] = b
      /\ \A k \in 1..Len(f.buffers) : q[k] = f.buffers[k]
  <2> HIDE DEF f
  <2> QED BY <1>2
<1>4. new = [stk EXCEPT ![d] = g]
  <2> HIDE DEF q
  <2>1. [f EXCEPT !.buffers = q] = g
    BY <1>2
  <2>2. new = [stk EXCEPT ![d] = [f EXCEPT !.buffers = q]]
    BY DEF q
  <2> HIDE DEF g, f
  <2> QED BY <2>1, <2>2
<1>5. g \in FrameRecord
  <2> HIDE DEF q, f
  <2> QED BY <1>2, <1>3 DEF FrameRecord, WrapperFrame
<1>6. g.kind = "wrapper" /\ g.buffers = q /\ g.called = f.called
  OBVIOUS
<1>7. /\ new \in Seq(FrameRecord) /\ Len(new) = d /\ new[d] = g
      /\ \A e \in 1..d : e # d => new[e] = stk[e]
  <2> HIDE DEF g
  <2>1. ReplacedAt(stk, d, g, [stk EXCEPT ![d] = g])
    BY <1>1, <1>5, ReplacedFrame
  <2> QED BY <2>1, <1>4 DEF ReplacedAt
<1> HIDE DEF q, g
<1> QED BY <1>2, <1>3, <1>6, <1>7 DEF PassedAt

\* What it leaves of a slab which the buffer is not put into.
LEMMA PassedOther ==
    ASSUME NEW stk, NEW d \in Nat, d = Len(stk), d > 0, stk[d].kind = "wrapper",
           NEW b, NEW new, PassedAt(stk, d, b, new),
           NEW s, SlabFine(s), NEW out, Owned(out, s, stk), b.out # out
    PROVE  Owned(out, s, new) /\ SameRest(s, stk, new)
<1>1. ASSUME NEW e \in Nat, NEW k \in Nat, IsBuffer(stk, e, k)
      PROVE  IsBuffer(new, e, k) /\ new[e].buffers[k] = stk[e].buffers[k]
  <2>1. CASE e = d
    BY <2>1, <1>1 DEF PassedAt, IsBuffer
  <2>2. CASE e # d
    BY <2>2, <1>1 DEF PassedAt, IsBuffer
  <2> QED BY <2>1, <2>2
<1>2. ASSUME NEW e \in Nat, NEW k \in Nat, IsBuffer(new, e, k), new[e].buffers[k].out = out
      PROVE  IsBuffer(stk, e, k)
  <2>1. CASE e = d
    <3>1. k # Len(stk[d].buffers) + 1
      BY <2>1, <1>2 DEF PassedAt
    <3> QED BY <2>1, <3>1, <1>2 DEF PassedAt, IsBuffer
  <2>2. CASE e # d
    BY <2>2, <1>2 DEF PassedAt, IsBuffer
  <2> QED BY <2>1, <2>2
<1>3. ASSUME NEW i \in Allocated(s)
      PROVE  Linked(out, s, new, i) /\ RestOf(s, new, i) = RestOf(s, stk, i)
  <2>1. /\ Linked(out, s, stk, i) /\ FrameOf(s, i) \in Nat /\ IndexOf(s, i) \in Nat
        /\ IsBuffer(stk, FrameOf(s, i), IndexOf(s, i))
    <3>1. Linked(out, s, stk, i)
      BY DEF Owned
    <3> QED BY <3>1, EntryLinked
  <2> QED BY <2>1, <1>1 DEF Linked, RestOf
<1>4. ASSUME NEW e \in Nat, NEW k \in Nat, IsBuffer(new, e, k), new[e].buffers[k].out = out
      PROVE  /\ k <= MaxBuffers
             /\ new[e].buffers[k].handle \in Allocated(s)
             /\ FrameOf(s, new[e].buffers[k].handle) = e
             /\ IndexOf(s, new[e].buffers[k].handle) = k
  <2>1. IsBuffer(stk, e, k) /\ new[e].buffers[k] = stk[e].buffers[k]
    BY <1>1, <1>2, <1>4
  <2> QED BY <2>1, <1>4 DEF Owned
<1>5. Owned(out, s, new)
  BY <1>3, <1>4 DEF Owned
<1> QED BY <1>3, <1>5 DEF SameRest

\* What it makes of the slab which the buffer is put into, with handle h.
Inserted(s, out, stk, new, h, b, t) ==
    /\ SlabFine(t) /\ Owned(out, t, new)
    /\ h \notin Allocated(s) /\ Allocated(t) = Allocated(s) \cup {h}
    /\ t.storage[h].buffer = b /\ RestOf(t, new, h) = b.len
    /\ \A i \in Allocated(s) : /\ t.storage[i] = s.storage[i]
                               /\ RestOf(t, new, i) = RestOf(s, stk, i)

LEMMA InsertedOwned ==
    ASSUME NEW stk, NEW d \in Nat, d = Len(stk), d > 0, stk[d].kind = "wrapper",
           NEW s, SlabFine(s), NEW out, Owned(out, s, stk),
           NEW b \in BufferRecord, b.ptr = <<d, Len(stk[d].buffers) + 1>>,
           Len(stk[d].buffers) + 1 <= MaxBuffers,
           NEW new, PassedAt(stk, d, [out |-> out, handle |-> s.next, rest |-> b.len], new),
           NEW t, t = SlabInsert(s, b)
    PROVE  Inserted(s, out, stk, new, s.next, b, t)
<1> DEFINE h == s.next
           m == Len(stk[d].buffers) + 1
<1>1. /\ SlabFine(t) /\ Allocated(t) = Allocated(s) \cup {h}
      /\ h \in Nat /\ h \notin Allocated(s) /\ t.storage[h].buffer = b
      /\ \A i \in Allocated(s) : t.storage[i] = s.storage[i]
  BY SlabInsertFine
<1> HIDE DEF h
<1>2. /\ m \in Nat /\ m > 0 /\ new[d].kind = "wrapper" /\ Len(new) = d /\ Len(new[d].buffers) = m
      /\ new[d].buffers[m] = [out |-> out, handle |-> h, rest |-> b.len]
  BY DEF PassedAt, h
<1>3. FrameOf(t, h) = d /\ IndexOf(t, h) = m
  BY <1>1 DEF FrameOf, IndexOf
<1>4. ASSUME NEW e \in Nat, NEW k \in Nat, IsBuffer(stk, e, k)
      PROVE  IsBuffer(new, e, k) /\ new[e].buffers[k] = stk[e].buffers[k]
  <2>1. CASE e = d
    BY <2>1, <1>4 DEF PassedAt, IsBuffer
  <2>2. CASE e # d
    BY <2>2, <1>4 DEF PassedAt, IsBuffer
  <2> QED BY <2>1, <2>2
<1>5. ASSUME NEW e \in Nat, NEW k \in Nat, IsBuffer(new, e, k), ~(e = d /\ k = m)
      PROVE  IsBuffer(stk, e, k)
  <2>1. CASE e = d
    BY <2>1, <1>5 DEF PassedAt, IsBuffer
  <2>2. CASE e # d
    BY <2>2, <1>5 DEF PassedAt, IsBuffer
  <2> QED BY <2>1, <2>2
<1>6. ASSUME NEW i \in Allocated(s)
      PROVE  Linked(out, t, new, i) /\ RestOf(t, new, i) = RestOf(s, stk, i)
  <2>1. /\ Linked(out, s, stk, i) /\ FrameOf(s, i) \in Nat /\ IndexOf(s, i) \in Nat
        /\ IsBuffer(stk, FrameOf(s, i), IndexOf(s, i))
    <3>1. Linked(out, s, stk, i)
      BY DEF Owned
    <3> QED BY <3>1, EntryLinked
  <2>2. FrameOf(t, i) = FrameOf(s, i) /\ IndexOf(t, i) = IndexOf(s, i)
    BY <1>1 DEF FrameOf, IndexOf
  <2> QED BY <2>1, <2>2, <1>4 DEF Linked, RestOf
<1>7. IsBuffer(new, d, m)
  BY <1>2 DEF IsBuffer
<1>8. Linked(out, t, new, h) /\ RestOf(t, new, h) = b.len
  BY <1>2, <1>3, <1>7 DEF Linked, RestOf
<1>9. ASSUME NEW e \in Nat, NEW k \in Nat, IsBuffer(new, e, k), new[e].buffers[k].out = out
      PROVE  /\ k <= MaxBuffers
             /\ new[e].buffers[k].handle \in Allocated(t)
             /\ FrameOf(t, new[e].buffers[k].handle) = e
             /\ IndexOf(t, new[e].buffers[k].handle) = k
  <2>1. CASE e = d /\ k = m
    BY <2>1, <1>1, <1>2, <1>3
  <2>2. CASE ~(e = d /\ k = m)
    <3>1. IsBuffer(stk, e, k) /\ new[e].buffers[k] = stk[e].buffers[k]
      BY <2>2, <1>4, <1>5, <1>9
    <3>2. /\ k <= MaxBuffers
          /\ new[e].buffers[k].handle \in Allocated(s)
          /\ FrameOf(s, new[e].buffers[k].handle) = e
          /\ IndexOf(s, new[e].buffers[k].handle) = k
      BY <3>1, <1>9 DEF Owned
    <3> QED BY <3>2, <1>1 DEF FrameOf, IndexOf
  <2> QED BY <2>1, <2>2
<1>10. Owned(out, t, new)
  <2>1. \A i \in Allocated(t) : Linked(out, t, new, i)
    BY <1>1, <1>6, <1>8
  <2> QED BY <2>1, <1>9 DEF Owned
<1> QED BY <1>1, <1>6, <1>8, <1>10 DEF Inserted, h

\* What passing a buffer needs of the frames.
MayPass(stk, d) ==
    /\ d = Len(stk) /\ d > 0 /\ stk[d].kind = "wrapper"
    /\ Len(stk[d].buffers) + 1 <= MaxBuffers
    /\ \A e \in 1..d : stk[e].kind # "out_write"

\* The frames that are not wrappers do not change.
LEMMA PassedFrames ==
    ASSUME NEW stk \in Seq(FrameRecord), NEW d \in Nat, MayPass(stk, d),
           NEW b, NEW new, PassedAt(stk, d, b, new), WasmBelow(stk)
    PROVE  /\ \A e \in 1..d : /\ new[e].kind = stk[e].kind
                              /\ stk[e].kind # "wrapper" => new[e] = stk[e]
           /\ LockKept(new) /\ WasmBelow(new)
           /\ \A h : Taken(new, h) = Taken(stk, h)
<1>1. \A e \in 1..d : /\ new[e].kind = stk[e].kind
                      /\ stk[e].kind # "wrapper" => new[e] = stk[e]
  BY DEF PassedAt, MayPass
<1>2. LockKept(new)
  BY <1>1 DEF LockKept, PassedAt, MayPass
<1>3. WasmBelow(new)
  <2> SUFFICES ASSUME NEW e \in 1..d, new[e].kind = "wasm" PROVE e > 1 /\ new[e - 1].kind = "wrapper"
    BY DEF WasmBelow, PassedAt
  <2>1. e > 1 /\ stk[e - 1].kind = "wrapper"
    BY <1>1 DEF WasmBelow, MayPass
  <2>2. e - 1 \in 1..d
    BY <2>1
  <2> QED BY <2>1, <2>2, <1>1
<1>4. ASSUME NEW h PROVE Taken(new, h) = Taken(stk, h)
  <2>1. \A e \in 1..d : TakenBy(new[e], h) = TakenBy(stk[e], h)
    BY <1>1 DEF TakenBy, Reads
  <2>2. new \in Seq(FrameRecord) /\ Len(new) = Len(stk) /\ d = Len(stk)
    BY DEF PassedAt, MayPass
  <2> QED BY <2>1, <2>2, TakenKept
<1> QED BY <1>1, <1>2, <1>3, <1>4

LEMMA PassedIn ==
    ASSUME NEW ins, NEW outs, NEW stk, Base(ins, outs, stk), NEW d \in Nat, MayPass(stk, d),
           NEW b \in BufferRecord, b.ptr = <<d, Len(stk[d].buffers) + 1>>,
           NEW new, PassedAt(stk, d, [out |-> FALSE, handle |-> ins.next, rest |-> b.len], new),
           NEW t, t = SlabInsert(ins, b)
    PROVE  /\ Base(t, outs, new) /\ Inserted(ins, FALSE, stk, new, ins.next, b, t)
           /\ SameRest(outs, stk, new)
           /\ \A e \in 1..d : /\ new[e].kind = stk[e].kind
                              /\ stk[e].kind # "wrapper" => new[e] = stk[e]
<1>1. /\ SlabFine(ins) /\ SlabFine(outs) /\ Owned(FALSE, ins, stk) /\ Owned(TRUE, outs, stk)
      /\ RawBacked(ins, stk) /\ RawBacked(outs, stk) /\ IterBacked(ins, stk)
      /\ ShimsFine(ins, outs, stk) /\ WasmBelow(stk)
      /\ Len(stk) <= MaxDepth /\ stk \in Seq(FrameRecord)
  BY DEF Base
<1>2. /\ \A e \in 1..d : /\ new[e].kind = stk[e].kind
                         /\ stk[e].kind # "wrapper" => new[e] = stk[e]
      /\ LockKept(new) /\ WasmBelow(new) /\ \A h : Taken(new, h) = Taken(stk, h)
  BY <1>1, PassedFrames
<1>3. /\ d = Len(stk) /\ d > 0 /\ stk[d].kind = "wrapper"
      /\ Len(stk[d].buffers) + 1 <= MaxBuffers
  BY DEF MayPass
<1>4. Inserted(ins, FALSE, stk, new, ins.next, b, t)
  BY <1>1, <1>3, InsertedOwned
<1>5. Owned(TRUE, outs, new) /\ SameRest(outs, stk, new)
  <2> DEFINE p == [out |-> FALSE, handle |-> ins.next, rest |-> b.len]
  <2>1. p.out # TRUE /\ PassedAt(stk, d, p, new)
    OBVIOUS
  <2> HIDE DEF p
  <2> QED BY <2>1, <1>1, <1>3, PassedOther
<1>6. b.len \in Nat
  BY DEF BufferRecord
<1>7. RawBacked(t, new)
  <2> SUFFICES ASSUME NEW i \in Allocated(t), t.storage[i].buffer.raw
               PROVE  t.storage[i].buffer.len = RestOf(t, new, i)
    BY DEF RawBacked
  <2>1. CASE i = ins.next
    BY <2>1, <1>4 DEF Inserted
  <2>2. CASE i # ins.next
    BY <2>2, <1>1, <1>4 DEF Inserted, RawBacked
  <2> QED BY <2>1, <2>2
<1>8. RawBacked(outs, new)
  BY <1>1, <1>5 DEF RawBacked, SameRest
<1>9. Taken(stk, ins.next) = 0
  <2>1. \A e \in 1..Len(stk) : TakenBy(stk[e], ins.next) = 0
    BY <1>1, <1>4 DEF TakenBy, Reads, ShimsFine, ReadFine, Inserted
  <2> QED BY <2>1, TakenNothing
<1>10. IterBacked(t, new)
  <2> SUFFICES ASSUME NEW i \in Allocated(t), ~t.storage[i].buffer.raw
               PROVE  /\ RestOf(t, new, i) >= 0
                      /\ RestOf(t, new, i) + Taken(new, i) <= t.storage[i].buffer.len
    BY DEF IterBacked
  <2>1. CASE i = ins.next
    BY <2>1, <1>2, <1>4, <1>6, <1>9 DEF Inserted
  <2>2. CASE i # ins.next
    BY <2>2, <1>1, <1>2, <1>4 DEF Inserted, IterBacked
  <2> QED BY <2>1, <2>2
<1>11. ShimsFine(t, outs, new)
  <2>1. Len(new) = d
    BY DEF PassedAt
  <2>2. \A i \in Allocated(ins) : i \in Allocated(t) /\ t.storage[i] = ins.storage[i]
    BY <1>4 DEF Inserted
  <2> QED BY <2>1, <2>2, <1>1, <1>2, <1>3 DEF ShimsFine, ReadFine, WriteFine, FrameOf
<1>12. Len(new) = Len(stk) /\ new \in Seq(FrameRecord)
  BY <1>3 DEF PassedAt
<1>13. Base(t, outs, new)
  BY <1>1, <1>2, <1>4, <1>5, <1>7, <1>8, <1>10, <1>11, <1>12 DEF Base, Inserted
<1> QED BY <1>2, <1>4, <1>5, <1>13

LEMMA PassedOut ==
    ASSUME NEW ins, NEW outs, NEW stk, Base(ins, outs, stk), NEW d \in Nat, MayPass(stk, d),
           NEW b \in BufferRecord, b.ptr = <<d, Len(stk[d].buffers) + 1>>,
           NEW new, PassedAt(stk, d, [out |-> TRUE, handle |-> outs.next, rest |-> b.len], new),
           NEW t, t = SlabInsert(outs, b)
    PROVE  /\ Base(ins, t, new) /\ Inserted(outs, TRUE, stk, new, outs.next, b, t)
           /\ SameRest(ins, stk, new)
           /\ \A e \in 1..d : /\ new[e].kind = stk[e].kind
                              /\ stk[e].kind # "wrapper" => new[e] = stk[e]
<1>1. /\ SlabFine(ins) /\ SlabFine(outs) /\ Owned(FALSE, ins, stk) /\ Owned(TRUE, outs, stk)
      /\ RawBacked(ins, stk) /\ RawBacked(outs, stk) /\ IterBacked(ins, stk)
      /\ ShimsFine(ins, outs, stk) /\ WasmBelow(stk)
      /\ Len(stk) <= MaxDepth /\ stk \in Seq(FrameRecord)
  BY DEF Base
<1>2. /\ \A e \in 1..d : /\ new[e].kind = stk[e].kind
                         /\ stk[e].kind # "wrapper" => new[e] = stk[e]
      /\ LockKept(new) /\ WasmBelow(new) /\ \A h : Taken(new, h) = Taken(stk, h)
  BY <1>1, PassedFrames
<1>3. /\ d = Len(stk) /\ d > 0 /\ stk[d].kind = "wrapper"
      /\ Len(stk[d].buffers) + 1 <= MaxBuffers
      /\ \A e \in 1..d : stk[e].kind # "out_write"
  BY DEF MayPass
<1>4. Inserted(outs, TRUE, stk, new, outs.next, b, t)
  BY <1>1, <1>3, InsertedOwned
<1>5. Owned(FALSE, ins, new) /\ SameRest(ins, stk, new)
  <2> DEFINE p == [out |-> TRUE, handle |-> outs.next, rest |-> b.len]
  <2>1. p.out # FALSE /\ PassedAt(stk, d, p, new)
    OBVIOUS
  <2> HIDE DEF p
  <2> QED BY <2>1, <1>1, <1>3, PassedOther
<1>6. b.len \in Nat
  BY DEF BufferRecord
<1>7. RawBacked(t, new)
  <2> SUFFICES ASSUME NEW i \in Allocated(t), t.storage[i].buffer.raw
               PROVE  t.storage[i].buffer.len = RestOf(t, new, i)
    BY DEF RawBacked
  <2>1. CASE i = outs.next
    BY <2>1, <1>4 DEF Inserted
  <2>2. CASE i # outs.next
    BY <2>2, <1>1, <1>4 DEF Inserted, RawBacked
  <2> QED BY <2>1, <2>2
<1>8. RawBacked(ins, new)
  BY <1>1, <1>5 DEF RawBacked, SameRest
<1>9. IterBacked(ins, new)
  BY <1>1, <1>2, <1>5 DEF IterBacked, SameRest
<1>10. ShimsFine(ins, t, new)
  <2>1. Len(new) = d
    BY DEF PassedAt
  <2> QED BY <2>1, <1>1, <1>2, <1>3 DEF ShimsFine, ReadFine
<1>11. Len(new) = Len(stk) /\ new \in Seq(FrameRecord)
  BY <1>3 DEF PassedAt
<1>12. Base(ins, t, new)
  BY <1>1, <1>2, <1>4, <1>5, <1>7, <1>8, <1>9, <1>10, <1>11 DEF Base, Inserted
<1> QED BY <1>2, <1>4, <1>5, <1>12

(***************************************************************************)
(* What more holds of a guest built on the runtime.                        *)
(***************************************************************************)

Exact(ins, outs, stk, unw) ==
    /\ ShimsOnTop(stk) /\ ShimsExact(ins, outs, stk)
    /\ LenExact("in_read", ins, stk, unw) /\ LenExact("out_write", outs, stk, unw)

\* No shim runs, and all the buffers have what they say.
Quiet(stk) == \A d \in 1..Len(stk) : stk[d].kind \notin Shims
LenAll(s, stk) == \A h \in Allocated(s) : s.storage[h].buffer.len = RestOf(s, stk, h)

LEMMA QuietExact ==
    ASSUME NEW ins, NEW outs, NEW stk, Quiet(stk), LenAll(ins, stk), LenAll(outs, stk), NEW unw
    PROVE  Exact(ins, outs, stk, unw)
BY DEF Exact, Quiet, LenAll, ShimsOnTop, ShimsExact, LenExact, Shims

LEMMA ExactQuiet ==
    ASSUME NEW ins, NEW outs, NEW stk, Quiet(stk), Exact(ins, outs, stk, "no")
    PROVE  LenAll(ins, stk) /\ LenAll(outs, stk)
BY DEF Exact, Quiet, LenAll, LenExact, Shims

LEMMA QuietTop ==
    ASSUME NEW stk, NEW n \in Nat, Len(stk) = n,
           n > 0 => stk[n].kind \notin Shims /\ stk[n].kind # "alloc", ShimsOnTop(stk)
    PROVE  Quiet(stk)
BY DEF Quiet, ShimsOnTop, Shims

LEMMA ExactFails ==
    ASSUME NEW ins, NEW outs, NEW stk, Exact(ins, outs, stk, "no")
    PROVE  Exact(ins, outs, stk, "trap")
BY DEF Exact, LenExact

\* A frame that is no shim is put on a stack without one.
LEMMA QuietPushed ==
    ASSUME NEW ins, NEW outs, NEW stk \in Seq(FrameRecord), Quiet(stk),
           SlabFine(ins), SlabFine(outs), Owned(FALSE, ins, stk), Owned(TRUE, outs, stk),
           LenAll(ins, stk), LenAll(outs, stk), NEW f \in FrameRecord, f.kind \notin Shims, NEW unw
    PROVE  Exact(ins, outs, Append(stk, f), unw)
<1> DEFINE new == Append(stk, f)
<1>1. PICK n \in Nat : n = Len(stk)
  OBVIOUS
<1>2. Len(new) = n + 1 /\ new[n + 1] = f /\ \A d \in 1..n : new[d] = stk[d]
  BY <1>1
<1> HIDE DEF new
<1>3. Quiet(new)
  BY <1>1, <1>2 DEF Quiet
<1>4. ASSUME NEW s, SlabFine(s), NEW out, Owned(out, s, stk), LenAll(s, stk)
      PROVE  LenAll(s, new)
  <2>1. \A h \in Allocated(s) : FrameOf(s, h) \in 1..n
    BY <1>1, <1>4, EntryLinked DEF IsBuffer
  <2> QED BY <2>1, <1>2, <1>4 DEF LenAll, RestOf
<1>5. LenAll(ins, new) /\ LenAll(outs, new)
  BY <1>4
<1> QED BY <1>3, <1>5, QuietExact DEF new

\* The runtime's allocator is called.
LEMMA AllocPushed ==
    ASSUME NEW ins, NEW outs, NEW stk \in Seq(FrameRecord),
           SlabFine(ins), SlabFine(outs), Owned(FALSE, ins, stk), Owned(TRUE, outs, stk),
           ShimsFine(ins, outs, stk), Exact(ins, outs, stk, "no"),
           NEW n \in Nat, Len(stk) = n, n > 0, stk[n].kind # "alloc"
    PROVE  Exact(ins, outs, Append(stk, [kind |-> "alloc"]), "no")
<1> DEFINE f == [kind |-> "alloc"]
           new == Append(stk, f)
<1>1. Len(new) = n + 1 /\ new[n + 1] = f /\ \A d \in 1..n : new[d] = stk[d]
  OBVIOUS
<1>2. f.kind = "alloc"
  OBVIOUS
<1> HIDE DEF new, f
<1>3. ShimsOnTop(new)
  <2> SUFFICES ASSUME NEW d \in 1..(n + 1), new[d].kind \in Shims
               PROVE  /\ d = n + 1 \/ (d = n /\ new[n + 1].kind = "alloc")
                      /\ d > 2 /\ new[d - 1].kind = "wasm"
    BY <1>1 DEF ShimsOnTop
  <2>1. d \in 1..n /\ stk[d].kind \in Shims
    BY <1>1, <1>2 DEF Shims
  <2>2. d = n /\ d > 2 /\ stk[d - 1].kind = "wasm"
    BY <2>1 DEF Exact, ShimsOnTop
  <2>3. d - 1 \in 1..n
    BY <2>2
  <2> QED BY <2>2, <2>3, <1>1, <1>2
<1>4. ASSUME NEW s, SlabFine(s), NEW out, Owned(out, s, stk), NEW h \in Allocated(s)
      PROVE  FrameOf(s, h) \in 1..n /\ RestOf(s, new, h) = RestOf(s, stk, h)
  <2>1. FrameOf(s, h) \in 1..n
    BY <1>4, EntryLinked DEF IsBuffer
  <2> QED BY <2>1, <1>1 DEF RestOf
<1>5. ShimsExact(ins, outs, new)
  <2> SUFFICES ASSUME NEW d \in 1..(n + 1)
               PROVE  /\ new[d].kind = "in_read" => ReadExact(ins, new, d)
                      /\ new[d].kind = "out_write" => WriteExact(outs, new, d)
    BY <1>1 DEF ShimsExact
  <2>1. CASE d = n + 1
    BY <2>1, <1>1, <1>2
  <2>2. CASE d # n + 1
    <3>1. d \in 1..n /\ new[d] = stk[d]
      BY <2>2, <1>1
    <3>2. ASSUME stk[d].kind = "in_read" PROVE ReadExact(ins, new, d)
      <4>1. stk[d].handle \in Allocated(ins) /\ ReadExact(ins, stk, d)
        BY <3>1, <3>2 DEF ShimsFine, ReadFine, Exact, ShimsExact
      <4>2. RestOf(ins, new, stk[d].handle) = RestOf(ins, stk, stk[d].handle)
        BY <4>1, <1>4
      <4> QED BY <3>1, <4>1, <4>2 DEF ReadExact
    <3>3. ASSUME stk[d].kind = "out_write" PROVE WriteExact(outs, new, d)
      <4>1. stk[d].handle \in Allocated(outs) /\ WriteExact(outs, stk, d)
        BY <3>1, <3>3 DEF ShimsFine, WriteFine, Exact, ShimsExact
      <4>2. RestOf(outs, new, stk[d].handle) = RestOf(outs, stk, stk[d].handle)
        BY <4>1, <1>4
      <4> QED BY <3>1, <4>1, <4>2 DEF WriteExact
    <3> QED BY <3>1, <3>2, <3>3
  <2> QED BY <2>1, <2>2
<1>6. ASSUME NEW s, SlabFine(s), NEW out, Owned(out, s, stk), NEW kind, LenExact(kind, s, stk, "no")
      PROVE  LenExact(kind, s, new, "no")
  <2> SUFFICES ASSUME NEW h \in Allocated(s),
                      \A d \in 1..Len(new) : new[d].kind = kind => new[d].handle # h
               PROVE  s.storage[h].buffer.len = RestOf(s, new, h)
    BY DEF LenExact
  <2>1. \A d \in 1..n : stk[d].kind = kind => stk[d].handle # h
    BY <1>1
  <2>2. s.storage[h].buffer.len = RestOf(s, stk, h)
    BY <2>1, <1>6 DEF LenExact
  <2>3. RestOf(s, new, h) = RestOf(s, stk, h)
    BY <1>4, <1>6
  <2> QED BY <2>2, <2>3
<1>7. LenExact("in_read", ins, new, "no") /\ LenExact("out_write", outs, new, "no")
  BY <1>6 DEF Exact
<1>8. Exact(ins, outs, new, "no")
  BY <1>3, <1>5, <1>7 DEF Exact
<1> QED BY <1>8 DEF new, f

\* Taking a frame away leaves what holds of the buffers it did not work on:
\* all of them (if nothing is thrown), or those of wrappers further out.
LenExactBelow(kind, s, stk, n, unw) ==
    \A h \in Allocated(s) :
        /\ stk[n + 1].kind = kind => stk[n + 1].handle # h
        /\ \A d \in 1..n : stk[d].kind = kind => stk[d].handle # h
        /\ unw = "no" \/ \E e \in (FrameOf(s, h) + 1)..n : stk[e].kind = "wrapper"
        => s.storage[h].buffer.len = RestOf(s, stk, h)

LEMMA LenPopped ==
    ASSUME NEW stk, NEW n \in Nat, Len(stk) = n + 1,
           NEW unw, NEW unw2, unw2 = "no" => unw = "no",
           NEW kind, NEW s, LenExact(kind, s, stk, unw),
           \A h \in Allocated(s) : FrameOf(s, h) \in Nat
    PROVE  LenExactBelow(kind, s, stk, n, unw2)
<1> SUFFICES ASSUME NEW h \in Allocated(s), stk[n + 1].kind = kind => stk[n + 1].handle # h,
                    \A d \in 1..n : stk[d].kind = kind => stk[d].handle # h,
                    unw2 = "no" \/ \E e \in (FrameOf(s, h) + 1)..n : stk[e].kind = "wrapper"
             PROVE  s.storage[h].buffer.len = RestOf(s, stk, h)
  BY DEF LenExactBelow
<1>1. \A d \in 1..Len(stk) : stk[d].kind = kind => stk[d].handle # h
  OBVIOUS
<1>2. FrameOf(s, h) \in Nat
  OBVIOUS
<1>3. unw = "no" \/ \E e \in (FrameOf(s, h) + 1)..Len(stk) : stk[e].kind = "wrapper"
  BY <1>2
<1> QED BY <1>1, <1>3 DEF LenExact

\* A frame that is no shim and no wrapper returns, or a trap leaves it.
LEMMA ExactPopped ==
    ASSUME NEW ins, NEW outs, NEW stk, Base(ins, outs, stk), NEW n \in Nat, Len(stk) = n + 1,
           stk[n + 1].kind \in {"wasm", "alloc", "import"},
           NEW unw, NEW unw2, unw2 = "no" => unw = "no", Exact(ins, outs, stk, unw)
    PROVE  Exact(ins, outs, Under(stk), unw2)
<1>1. /\ stk \in Seq(FrameRecord) /\ SlabFine(ins) /\ SlabFine(outs)
      /\ Owned(FALSE, ins, stk) /\ Owned(TRUE, outs, stk) /\ ShimsFine(ins, outs, stk)
  BY DEF Base
<1> DEFINE new == Under(stk)
<1> HIDE DEF new
<1>2. Len(new) = n /\ \A d \in 1..n : new[d] = stk[d]
  BY <1>1, UnderOf DEF FramesBelow, new
<1>3. /\ \A h \in Allocated(ins) : RestOf(ins, new, h) = RestOf(ins, stk, h)
      /\ \A h \in Allocated(outs) : RestOf(outs, new, h) = RestOf(outs, stk, h)
  <2>1. stk[n + 1].kind = "wrapper" => stk[n + 1].buffers = <<>>
    OBVIOUS
  <2>2. /\ Base(ins, outs, Under(stk))
        /\ \A h \in Allocated(ins) : RestOf(ins, Under(stk), h) = RestOf(ins, stk, h)
        /\ \A h \in Allocated(outs) : RestOf(outs, Under(stk), h) = RestOf(outs, stk, h)
        /\ \A h \in Allocated(ins) : ~ins.storage[h].buffer.raw =>
              RestOf(ins, Under(stk), h) + Taken(Under(stk), h) + TakenBy(stk[n + 1], h)
                  <= ins.storage[h].buffer.len
    BY <2>1, PoppedFrame
  <2> QED BY <2>2 DEF new
<1>4. ShimsOnTop(new)
  <2> SUFFICES ASSUME NEW d \in 1..n, stk[d].kind \in Shims
               PROVE  d = n /\ d > 2 /\ new[d - 1].kind = "wasm"
    BY <1>2 DEF ShimsOnTop
  <2>1. d = n /\ d > 2 /\ stk[d - 1].kind = "wasm"
    BY DEF Exact, ShimsOnTop
  <2>2. d - 1 \in 1..n
    BY <2>1
  <2> QED BY <2>1, <2>2, <1>2
<1>5. ShimsExact(ins, outs, new)
  <2> SUFFICES ASSUME NEW d \in 1..n
               PROVE  /\ stk[d].kind = "in_read" => ReadExact(ins, new, d)
                      /\ stk[d].kind = "out_write" => WriteExact(outs, new, d)
    BY <1>2 DEF ShimsExact
  <2>1. ASSUME stk[d].kind = "in_read" PROVE ReadExact(ins, new, d)
    <3>1. stk[d].handle \in Allocated(ins) /\ ReadExact(ins, stk, d)
      BY <2>1, <1>1 DEF ShimsFine, ReadFine, Exact, ShimsExact
    <3> QED BY <3>1, <1>2, <1>3 DEF ReadExact
  <2>2. ASSUME stk[d].kind = "out_write" PROVE WriteExact(outs, new, d)
    <3>1. stk[d].handle \in Allocated(outs) /\ WriteExact(outs, stk, d)
      BY <2>2, <1>1 DEF ShimsFine, WriteFine, Exact, ShimsExact
    <3> QED BY <3>1, <1>2, <1>3 DEF WriteExact
  <2> QED BY <2>1, <2>2
<1>6. ASSUME NEW s, SlabFine(s), NEW out, Owned(out, s, stk),
             NEW kind \in Shims, LenExact(kind, s, stk, unw),
             \A h \in Allocated(s) : RestOf(s, new, h) = RestOf(s, stk, h)
      PROVE  LenExact(kind, s, new, unw2)
  <2> SUFFICES ASSUME NEW h \in Allocated(s),
                      \A d \in 1..n : stk[d].kind = kind => stk[d].handle # h,
                      unw2 = "no" \/ \E e \in (FrameOf(s, h) + 1)..n : stk[e].kind = "wrapper"
               PROVE  s.storage[h].buffer.len = RestOf(s, new, h)
    <3>1. \A h \in Allocated(s) : FrameOf(s, h) \in Nat
      BY <1>6, EntryLinked
    <3> QED BY <3>1, <1>2 DEF LenExact
  <2>1. FrameOf(s, h) \in Nat
    BY <1>6, EntryLinked
  <2>2. stk[n + 1].kind # "wrapper" /\ stk[n + 1].kind # kind
    BY DEF Shims
  <2>3. LenExactBelow(kind, s, stk, n, unw2)
    <3>1. \A i \in Allocated(s) : FrameOf(s, i) \in Nat
      BY <1>6, EntryLinked
    <3> QED BY <3>1, <1>6, LenPopped
  <2>4. s.storage[h].buffer.len = RestOf(s, stk, h)
    BY <2>2, <2>3 DEF LenExactBelow
  <2> QED BY <2>4, <1>6
<1>7. LenExact("in_read", ins, new, unw2)
  <2>1. "in_read" \in Shims /\ LenExact("in_read", ins, stk, unw)
    BY DEF Shims, Exact
  <2> QED BY <2>1, <1>1, <1>3, <1>6
<1>8. LenExact("out_write", outs, new, unw2)
  <2>1. "out_write" \in Shims /\ LenExact("out_write", outs, stk, unw)
    BY DEF Shims, Exact
  <2> QED BY <2>1, <1>1, <1>3, <1>6
<1>9. Exact(ins, outs, new, unw2)
  BY <1>4, <1>5, <1>7, <1>8 DEF Exact
<1> QED BY <1>9 DEF new

\* in_read returns, or a trap leaves it.
LEMMA ReadPopped ==
    ASSUME NEW ins, NEW outs, NEW stk, Base(ins, outs, stk), NEW n \in Nat, Len(stk) = n + 1,
           stk[n + 1].kind = "in_read",
           NEW unw, NEW unw2, unw2 = "no" => unw = "no" /\ stk[n + 1].left = 0,
           NEW t, t = Consume(ins, stk[n + 1].handle, stk[n + 1].processed)
    PROVE  /\ Base(t, outs, Under(stk))
           /\ Exact(ins, outs, stk, unw) => Exact(t, outs, Under(stk), unw2)
<1> DEFINE f == stk[n + 1]
           h == f.handle
           new == Under(stk)
<1>1. /\ stk \in Seq(FrameRecord) /\ SlabFine(ins) /\ SlabFine(outs)
      /\ Owned(FALSE, ins, stk) /\ Owned(TRUE, outs, stk) /\ ShimsFine(ins, outs, stk)
  BY DEF Base
<1>2. ReadFine(ins, stk, n + 1) /\ f \in FrameRecord
  BY <1>1 DEF ShimsFine
<1>3. h \in Allocated(ins) /\ ~ins.storage[h].buffer.raw /\ (f.pending => f.left > 0)
  BY <1>2 DEF ReadFine
<1>4. f.processed \in Nat /\ f.pending \in BOOLEAN /\ f.left \in Nat
  BY <1>2, FrameFields
<1>5. TakenBy(f, h) = f.processed + (IF f.pending THEN 1 ELSE 0)
  BY DEF TakenBy, Reads
<1>6. /\ Base(ins, outs, new)
      /\ \A i \in Allocated(ins) : RestOf(ins, new, i) = RestOf(ins, stk, i)
      /\ \A i \in Allocated(outs) : RestOf(outs, new, i) = RestOf(outs, stk, i)
      /\ \A i \in Allocated(ins) : ~ins.storage[i].buffer.raw =>
            RestOf(ins, new, i) + Taken(new, i) + TakenBy(f, i) <= ins.storage[i].buffer.len
  BY PoppedFrame
<1> HIDE DEF new, f, h
<1>7. Len(new) = n /\ \A d \in 1..n : new[d] = stk[d]
  BY <1>1, UnderOf DEF FramesBelow, new
<1>8. /\ SlabFine(ins) /\ Owned(FALSE, ins, new) /\ new \in Seq(FrameRecord)
      /\ SlabFine(outs) /\ Owned(TRUE, outs, new)
  BY <1>6 DEF Base
<1>9. /\ RestOf(ins, new, h) \in Int /\ RestOf(ins, new, h) >= 0
      /\ Taken(new, h) \in Nat /\ ins.storage[h].buffer.len \in Nat
  <2>1. IterBacked(ins, new)
    BY <1>6 DEF Base
  <2> QED BY <2>1, <1>3, <1>8, RestInteger, TakenNatural, EntryLinked DEF IterBacked
<1>10. RestOf(ins, new, h) + Taken(new, h) + f.processed <= ins.storage[h].buffer.len
  <2> DEFINE p == IF f.pending THEN 1 ELSE 0
             r == RestOf(ins, new, h)
             k == Taken(new, h)
             l == ins.storage[h].buffer.len
             q == f.processed
  <2>1. p \in Nat /\ r \in Int /\ k \in Nat /\ l \in Nat /\ q \in Nat
    BY <1>4, <1>9
  <2>2. r + k + (q + p) <= l
    BY <1>3, <1>5, <1>6
  <2> HIDE DEF p, r, k, l, q
  <2>3. r + k + q <= l
    BY <2>1, <2>2
  <2> QED BY <2>3 DEF r, k, l, q
<1>11. t = Consume(ins, h, f.processed)
  BY DEF h, f
<1>12. Base(t, outs, new)
  BY <1>3, <1>4, <1>6, <1>10, <1>11, ConsumedIn
<1>13. Drained(ins, FALSE, new, h, f.processed, t)
  <2>1. f.processed <= ins.storage[h].buffer.len
    BY <1>4, <1>9, <1>10
  <2> QED BY <2>1, <1>3, <1>4, <1>8, <1>11, ConsumedOwned
<1>14. ASSUME Exact(ins, outs, stk, unw) PROVE Exact(t, outs, new, unw2)
  <2>1. ShimsOnTop(stk) /\ ReadExact(ins, stk, n + 1) /\ f.kind = "in_read"
    BY <1>14 DEF Exact, ShimsExact, f
  <2>2. Quiet(new)
    BY <2>1, <1>7 DEF Quiet, ShimsOnTop, Shims, f
  <2>3. FrameOf(ins, h) = n - 1 /\ n > 1 /\ stk[n].kind = "wasm"
    BY <2>1 DEF ReadExact, ShimsOnTop, Shims, f, h
  <2>4. ins.storage[h].buffer.len = RestOf(ins, new, h) + f.processed + (IF f.pending THEN 1 ELSE 0)
    <3>1. ins.storage[h].buffer.len = RestOf(ins, stk, h) + TakenBy(f, h)
      BY <2>1 DEF ReadExact, f, h
    <3>2. RestOf(ins, stk, h) = RestOf(ins, new, h)
      BY <1>3, <1>6
    <3> QED BY <3>1, <3>2, <1>4, <1>5, <1>9
  <2>5. ASSUME NEW i \in Allocated(t),
               unw2 = "no" \/ \E e \in (FrameOf(t, i) + 1)..n : stk[e].kind = "wrapper"
        PROVE  t.storage[i].buffer.len = RestOf(t, new, i)
    <3>1. /\ i \in Allocated(ins) /\ FrameOf(t, i) = FrameOf(ins, i)
          /\ RestOf(t, new, i) = RestOf(ins, new, i)
          /\ i # h => t.storage[i].buffer.len = ins.storage[i].buffer.len
          /\ t.storage[h].buffer.len = ins.storage[h].buffer.len - f.processed
      BY <1>13 DEF Drained, RestOf
    <3>2. CASE i = h
      <4>1. unw2 = "no"
        BY <2>3, <2>5, <3>1, <3>2
      <4>2. ~f.pending
        BY <4>1, <1>3, <1>4 DEF f
      <4> QED BY <3>1, <3>2, <4>2, <2>4, <1>4, <1>9
    <3>3. CASE i # h
      <4>1. \A d \in 1..n : stk[d].kind # "in_read"
        BY <2>2, <1>7 DEF Quiet, Shims
      <4>2. FrameOf(ins, i) \in Nat
        BY <3>1, <1>1, EntryLinked
      <4>3. stk[n + 1].kind # "wrapper" /\ stk[n + 1].handle # i
        BY <3>3, <2>1 DEF f, h
      <4>4. LenExact("in_read", ins, stk, unw)
        BY <1>14 DEF Exact
      <4>5. LenExactBelow("in_read", ins, stk, n, unw2)
        <5>1. \A k \in Allocated(ins) : FrameOf(ins, k) \in Nat
          BY <1>1, EntryLinked
        <5> QED BY <5>1, <4>4, LenPopped
      <4>6. ins.storage[i].buffer.len = RestOf(ins, stk, i)
        BY <2>5, <3>1, <4>1, <4>3, <4>5 DEF LenExactBelow
      <4> QED BY <3>1, <3>3, <4>6, <1>6
    <3> QED BY <3>2, <3>3
  <2>6. LenExact("in_read", t, new, unw2)
    <3>1. \A i \in Allocated(t) : FrameOf(t, i) \in Nat
      BY <1>12, EntryLinked DEF Base
    <3> QED BY <2>5, <3>1, <1>7 DEF LenExact
  <2>7. LenExact("out_write", outs, new, unw2)
    <3> SUFFICES ASSUME NEW i \in Allocated(outs),
                        unw2 = "no" \/ \E e \in (FrameOf(outs, i) + 1)..n : stk[e].kind = "wrapper"
                 PROVE  outs.storage[i].buffer.len = RestOf(outs, new, i)
      <4>1. \A i \in Allocated(outs) : FrameOf(outs, i) \in Nat
        BY <1>1, EntryLinked
      <4> QED BY <4>1, <1>7 DEF LenExact
    <3>1. \A d \in 1..n : stk[d].kind # "out_write"
      BY <2>2, <1>7 DEF Quiet, Shims
    <3>2. FrameOf(outs, i) \in Nat
      BY <1>1, EntryLinked
    <3>3. stk[n + 1].kind # "wrapper" /\ stk[n + 1].kind # "out_write"
      BY <2>1 DEF f
    <3>4. LenExact("out_write", outs, stk, unw)
      BY <1>14 DEF Exact
    <3>5. LenExactBelow("out_write", outs, stk, n, unw2)
      <4>1. \A k \in Allocated(outs) : FrameOf(outs, k) \in Nat
        BY <1>1, EntryLinked
      <4> QED BY <4>1, <3>4, LenPopped
    <3>6. outs.storage[i].buffer.len = RestOf(outs, stk, i)
      BY <3>1, <3>3, <3>5 DEF LenExactBelow
    <3> QED BY <3>6, <1>6
  <2>8. ShimsOnTop(new) /\ ShimsExact(t, outs, new)
    BY <2>2 DEF Quiet, Shims, ShimsOnTop, ShimsExact
  <2> QED BY <2>6, <2>7, <2>8 DEF Exact
<1> QED BY <1>12, <1>14 DEF new

\* out_write returns, or a trap leaves it.
LEMMA WritePopped ==
    ASSUME NEW ins, NEW outs, NEW stk, Base(ins, outs, stk), NEW n \in Nat, Len(stk) = n + 1,
           stk[n + 1].kind = "out_write",
           NEW unw, NEW unw2, unw2 = "no" => unw = "no" /\ stk[n + 1].left = 0,
           NEW t, t = IF unw2 = "no" THEN Consume(outs, stk[n + 1].handle, stk[n + 1].want)
                                     ELSE outs
    PROVE  /\ Base(ins, t, Under(stk))
           /\ Exact(ins, outs, stk, unw) => Exact(ins, t, Under(stk), unw2)
<1> DEFINE f == stk[n + 1]
           h == f.handle
           new == Under(stk)
<1>1. /\ stk \in Seq(FrameRecord) /\ SlabFine(ins) /\ SlabFine(outs)
      /\ Owned(FALSE, ins, stk) /\ Owned(TRUE, outs, stk) /\ ShimsFine(ins, outs, stk)
      /\ LockKept(stk)
  BY DEF Base
<1>2. WriteFine(outs, stk, n + 1) /\ f \in FrameRecord
  BY <1>1 DEF ShimsFine
<1>3. h \in Allocated(outs) /\ ~outs.storage[h].buffer.raw /\ f.want <= outs.storage[h].buffer.len
  BY <1>2 DEF WriteFine
<1>4. f.want \in Nat /\ f.left \in Nat
  BY <1>2, FrameFields
<1>5. /\ Base(ins, outs, new)
      /\ \A i \in Allocated(ins) : RestOf(ins, new, i) = RestOf(ins, stk, i)
      /\ \A i \in Allocated(outs) : RestOf(outs, new, i) = RestOf(outs, stk, i)
      /\ \A i \in Allocated(ins) : ~ins.storage[i].buffer.raw =>
            RestOf(ins, new, i) + Taken(new, i) + TakenBy(f, i) <= ins.storage[i].buffer.len
  BY PoppedFrame
<1> HIDE DEF new, f, h
<1>6. Len(new) = n /\ \A d \in 1..n : new[d] = stk[d]
  BY <1>1, UnderOf DEF FramesBelow, new
<1>7. \A d \in 1..n : new[d].kind # "out_write"
  <2> SUFFICES ASSUME NEW d \in 1..n, stk[d].kind = "out_write" PROVE FALSE
    BY <1>6
  <2>1. d \in 1..Len(stk) /\ n + 1 \in 1..Len(stk) /\ d < n + 1
    OBVIOUS
  <2> QED BY <2>1, <1>1 DEF LockKept
<1>8. SlabFine(outs) /\ Owned(TRUE, outs, new) /\ new \in Seq(FrameRecord)
  BY <1>5 DEF Base
<1>9. ASSUME unw2 = "no"
      PROVE  Base(ins, t, new) /\ Drained(outs, TRUE, new, h, f.want, t)
  <2>1. t = Consume(outs, h, f.want)
    BY <1>9 DEF h, f
  <2>2. Base(ins, t, new)
    BY <2>1, <1>3, <1>4, <1>5, <1>6, <1>7, ConsumedOut
  <2>3. Drained(outs, TRUE, new, h, f.want, t)
    BY <2>1, <1>3, <1>4, <1>8, ConsumedOwned
  <2> QED BY <2>2, <2>3
<1>10. Base(ins, t, new)
  BY <1>5, <1>9
<1>11. ASSUME Exact(ins, outs, stk, unw) PROVE Exact(ins, t, new, unw2)
  <2>1. ShimsOnTop(stk) /\ WriteExact(outs, stk, n + 1) /\ f.kind = "out_write"
    BY <1>11 DEF Exact, ShimsExact, f
  <2>2. Quiet(new)
    BY <2>1, <1>6 DEF Quiet, ShimsOnTop, Shims, f
  <2>3. FrameOf(outs, h) = n - 1 /\ n > 1 /\ stk[n].kind = "wasm"
    BY <2>1 DEF WriteExact, ShimsOnTop, Shims, f, h
  <2>4. outs.storage[h].buffer.len = RestOf(outs, new, h) + f.want - f.left
    BY <2>1, <1>3, <1>5 DEF WriteExact, f, h
  <2>5. LenExactBelow("out_write", outs, stk, n, unw2)
    <3>1. \A k \in Allocated(outs) : FrameOf(outs, k) \in Nat
      BY <1>1, EntryLinked
    <3> QED BY <3>1, <1>11, LenPopped DEF Exact
  <2>6. ASSUME NEW i \in Allocated(outs), i # h,
               unw2 = "no" \/ \E e \in (FrameOf(outs, i) + 1)..n : stk[e].kind = "wrapper"
        PROVE  outs.storage[i].buffer.len = RestOf(outs, new, i)
    <3>1. \A d \in 1..n : stk[d].kind # "out_write"
      BY <1>6, <1>7
    <3>2. stk[n + 1].handle # i
      BY <2>6 DEF f, h
    <3>3. outs.storage[i].buffer.len = RestOf(outs, stk, i)
      BY <2>5, <2>6, <3>1, <3>2 DEF LenExactBelow
    <3> QED BY <3>3, <1>5
  <2>7. LenExact("out_write", t, new, unw2)
    <3>1. CASE unw2 = "no"
      <4> SUFFICES ASSUME NEW i \in Allocated(t) PROVE t.storage[i].buffer.len = RestOf(t, new, i)
        BY DEF LenExact
      <4>1. /\ i \in Allocated(outs) /\ RestOf(t, new, i) = RestOf(outs, new, i)
            /\ i # h => t.storage[i].buffer.len = outs.storage[i].buffer.len
            /\ t.storage[h].buffer.len = outs.storage[h].buffer.len - f.want
        BY <3>1, <1>9 DEF Drained, RestOf
      <4>2. CASE i = h
        <5>1. f.left = 0 /\ RestOf(outs, new, h) \in Int
          BY <3>1, <1>3, <1>8, RestInteger DEF f
        <5> QED BY <4>1, <4>2, <5>1, <2>4, <1>4
      <4>3. CASE i # h
        BY <4>1, <4>3, <3>1, <2>6
      <4> QED BY <4>2, <4>3
    <3>2. CASE unw2 # "no"
      <4> SUFFICES ASSUME NEW i \in Allocated(outs),
                          \E e \in (FrameOf(outs, i) + 1)..n : stk[e].kind = "wrapper"
                   PROVE  outs.storage[i].buffer.len = RestOf(outs, new, i)
        <5>1. t = outs /\ \A i \in Allocated(outs) : FrameOf(outs, i) \in Nat
          BY <3>2, <1>1, EntryLinked
        <5> QED BY <3>2, <5>1, <1>6 DEF LenExact
      <4>1. i # h
        BY <2>3
      <4> QED BY <4>1, <2>6
    <3> QED BY <3>1, <3>2
  <2>8. LenExact("in_read", ins, new, unw2)
    <3> SUFFICES ASSUME NEW i \in Allocated(ins),
                        unw2 = "no" \/ \E e \in (FrameOf(ins, i) + 1)..n : stk[e].kind = "wrapper"
                 PROVE  ins.storage[i].buffer.len = RestOf(ins, new, i)
      <4>1. \A i \in Allocated(ins) : FrameOf(ins, i) \in Nat
        BY <1>1, EntryLinked
      <4> QED BY <4>1, <1>6 DEF LenExact
    <3>1. \A d \in 1..n : stk[d].kind # "in_read"
      BY <2>2, <1>6 DEF Quiet, Shims
    <3>2. stk[n + 1].kind # "in_read"
      BY <2>1 DEF f
    <3>3. LenExactBelow("in_read", ins, stk, n, unw2)
      <4>1. \A k \in Allocated(ins) : FrameOf(ins, k) \in Nat
        BY <1>1, EntryLinked
      <4> QED BY <4>1, <1>11, LenPopped DEF Exact
    <3>4. ins.storage[i].buffer.len = RestOf(ins, stk, i)
      BY <3>1, <3>2, <3>3 DEF LenExactBelow
    <3> QED BY <3>4, <1>5
  <2>9. ShimsOnTop(new) /\ ShimsExact(ins, t, new)
    BY <2>2 DEF Quiet, Shims, ShimsOnTop, ShimsExact
  <2> QED BY <2>7, <2>8, <2>9 DEF Exact
<1> QED BY <1>10, <1>11 DEF new

\* The wrapper is left: what a trap got wrong was in its own buffers.
LEMMA WrapperExact ==
    ASSUME NEW ins, NEW outs, NEW stk, Base(ins, outs, stk), NEW n \in Nat, Len(stk) = n + 1,
           stk[n + 1].kind = "wrapper", NEW unw, Exact(ins, outs, stk, unw), NEW unw2
    PROVE  Exact(Emptied(ins, FALSE, stk[n + 1].buffers),
                 Emptied(outs, TRUE, stk[n + 1].buffers), Under(stk), unw2)
<1> DEFINE int == Emptied(ins, FALSE, stk[n + 1].buffers)
           outt == Emptied(outs, TRUE, stk[n + 1].buffers)
           new == Under(stk)
<1> HIDE DEF int, outt
<1>1. /\ stk \in Seq(FrameRecord) /\ SlabFine(ins) /\ SlabFine(outs)
      /\ Owned(FALSE, ins, stk) /\ Owned(TRUE, outs, stk)
      /\ LockKept(stk) /\ WasmBelow(stk)
  BY DEF Base
<1>2. KeepsBelow(ins, FALSE, stk, n, int)
  BY <1>1, EmptiedOwned DEF int
<1>3. KeepsBelow(outs, TRUE, stk, n, outt)
  BY <1>1, EmptiedOwned DEF outt
<1>4. Len(new) = n /\ \A d \in 1..n : new[d] = stk[d]
  BY <1>1, UnderOf DEF FramesBelow
<1>5. Quiet(stk)
  <2>1. stk[n + 1].kind \notin Shims /\ stk[n + 1].kind # "alloc" /\ ShimsOnTop(stk) /\ n + 1 \in Nat
    BY DEF Shims, Exact
  <2> QED BY <2>1, QuietTop
<1> HIDE DEF new
<1>6. Quiet(new)
  BY <1>4, <1>5 DEF Quiet
<1>7. ASSUME NEW s, SlabFine(s), NEW out, Owned(out, s, stk), NEW t,
             KeepsBelow(s, out, stk, n, t), NEW kind \in Shims, LenExact(kind, s, stk, unw)
      PROVE  LenAll(t, new)
  <2> SUFFICES ASSUME NEW h \in Allocated(t) PROVE t.storage[h].buffer.len = RestOf(t, new, h)
    BY DEF LenAll
  <2>1. /\ h \in Allocated(s) /\ FrameOf(s, h) < n + 1 /\ t.storage[h] = s.storage[h]
        /\ RestOf(t, new, h) = RestOf(s, stk, h)
    BY <1>7 DEF KeepsBelow, new
  <2>2. n + 1 \in (FrameOf(s, h) + 1)..Len(stk)
    <3>1. FrameOf(s, h) \in Nat
      BY <2>1, <1>7, EntryLinked
    <3> QED BY <3>1, <2>1
  <2>3. \A d \in 1..Len(stk) : stk[d].kind # kind
    BY <1>5 DEF Quiet
  <2>4. s.storage[h].buffer.len = RestOf(s, stk, h)
    BY <2>1, <2>2, <2>3, <1>7 DEF LenExact
  <2> QED BY <2>1, <2>4
<1>8. LenAll(int, new)
  <2>1. "in_read" \in Shims /\ LenExact("in_read", ins, stk, unw)
    BY DEF Shims, Exact
  <2> QED BY <2>1, <1>1, <1>2, <1>7
<1>9. LenAll(outt, new)
  <2>1. "out_write" \in Shims /\ LenExact("out_write", outs, stk, unw)
    BY DEF Shims, Exact
  <2> QED BY <2>1, <1>1, <1>3, <1>7
<1>10. Exact(int, outt, new, unw2)
  BY <1>6, <1>8, <1>9, QuietExact
<1> QED BY <1>10 DEF int, outt, new

\* A shim starts: its handle is of the call whose function calls the intrinsic.
LEMMA ShimPushed ==
    ASSUME NEW ins, NEW outs, NEW stk, Base(ins, outs, stk), Quiet(stk),
           LenAll(ins, stk), LenAll(outs, stk),
           NEW n \in Nat, Len(stk) = n, n > 0, stk[n].kind = "wasm",
           NEW f \in FrameRecord, f.kind \in Shims,
           f.kind = "in_read" => /\ f.handle \in Allocated(ins) /\ FrameOf(ins, f.handle) = n - 1
                                 /\ f.left <= ins.storage[f.handle].buffer.len
                                 /\ f.processed = 0 /\ ~f.pending,
           f.kind = "out_write" => /\ f.handle \in Allocated(outs)
                                   /\ FrameOf(outs, f.handle) = n - 1 /\ f.left = f.want
    PROVE  Exact(ins, outs, Append(stk, f), "no")
<1> DEFINE new == Append(stk, f)
<1>1. /\ stk \in Seq(FrameRecord) /\ SlabFine(ins) /\ SlabFine(outs)
      /\ Owned(FALSE, ins, stk) /\ Owned(TRUE, outs, stk) /\ WasmBelow(stk)
  BY DEF Base
<1>2. Len(new) = n + 1 /\ new[n + 1] = f /\ \A d \in 1..n : new[d] = stk[d]
  BY <1>1
<1> HIDE DEF new
<1>3. n > 1
  BY <1>1 DEF WasmBelow
<1>4. \A d \in 1..(n + 1) : new[d].kind \in Shims => d = n + 1
  BY <1>2 DEF Quiet
<1>5. ASSUME NEW s, SlabFine(s), NEW out, Owned(out, s, stk), LenAll(s, stk)
      PROVE  \A i \in Allocated(s) : /\ RestOf(s, new, i) = RestOf(s, stk, i)
                                     /\ RestOf(s, new, i) = s.storage[i].buffer.len
                                     /\ s.storage[i].buffer.len \in Nat
  <2>1. \A i \in Allocated(s) : FrameOf(s, i) \in 1..n /\ s.storage[i].buffer.len \in Nat
    BY <1>5, EntryLinked DEF IsBuffer
  <2> QED BY <2>1, <1>2, <1>5 DEF LenAll, RestOf
<1>6. /\ \A i \in Allocated(ins) : /\ RestOf(ins, new, i) = ins.storage[i].buffer.len
                                   /\ ins.storage[i].buffer.len \in Nat
      /\ \A i \in Allocated(outs) : /\ RestOf(outs, new, i) = outs.storage[i].buffer.len
                                    /\ outs.storage[i].buffer.len \in Nat
  BY <1>1, <1>5
<1>7. ShimsOnTop(new)
  BY <1>2, <1>3, <1>4 DEF ShimsOnTop
<1>8. ASSUME f.kind = "in_read" PROVE ReadExact(ins, new, n + 1)
  <2>1. f.left \in Nat
    BY <1>8, FrameFields
  <2>2. TakenBy(f, f.handle) = 0
    BY <1>8 DEF TakenBy
  <2> QED BY <2>1, <2>2, <1>2, <1>6, <1>8 DEF ReadExact
<1>9. ASSUME f.kind = "out_write" PROVE WriteExact(outs, new, n + 1)
  <2>1. f.left \in Nat
    BY <1>9, FrameFields
  <2> QED BY <2>1, <1>2, <1>6, <1>9 DEF WriteExact
<1>10. ShimsExact(ins, outs, new)
  BY <1>2, <1>4, <1>8, <1>9 DEF ShimsExact, Shims
<1>11. LenExact("in_read", ins, new, "no") /\ LenExact("out_write", outs, new, "no")
  BY <1>6 DEF LenExact
<1>12. Exact(ins, outs, new, "no")
  BY <1>7, <1>10, <1>11 DEF Exact
<1> QED BY <1>12 DEF new

\* in_read's shim goes on.
LEMMA ReadMoved ==
    ASSUME NEW ins, NEW outs, NEW stk, NEW n \in Nat, Len(stk) = n + 1,
           Exact(ins, outs, stk, "no"), stk[n + 1].kind = "in_read",
           NEW new, Len(new) = n + 1, \A d \in 1..n : new[d].kind = stk[d].kind,
           new[n + 1].kind = "in_read", new[n + 1].handle = stk[n + 1].handle,
           NEW h, h = stk[n + 1].handle,
           new[n + 1].left + new[n + 1].processed <= ins.storage[h].buffer.len,
           ins.storage[h].buffer.len = RestOf(ins, new, h) + TakenBy(new[n + 1], h),
           \A i \in Allocated(ins) : i # h => RestOf(ins, new, i) = RestOf(ins, stk, i),
           SameRest(outs, stk, new)
    PROVE  Exact(ins, outs, new, "no")
<1>1. \A d \in 1..n : stk[d].kind \notin Shims
  BY DEF Exact, ShimsOnTop, Shims
<1>2. \A d \in 1..n : new[d].kind \notin Shims
  BY <1>1
<1>3. n + 1 > 2 /\ stk[n].kind = "wasm" /\ n \in 1..n /\ FrameOf(ins, h) = (n + 1) - 2
  BY DEF Exact, ShimsOnTop, ShimsExact, ReadExact, Shims
<1>4. ShimsOnTop(new)
  <2>1. \A d \in 1..(n + 1) : new[d].kind \in Shims => d = n + 1
    BY <1>2
  <2>2. n + 1 > 2 /\ new[(n + 1) - 1].kind = "wasm"
    BY <1>3
  <2> SUFFICES ASSUME NEW d \in 1..(n + 1), new[d].kind \in Shims
               PROVE  d = n + 1 /\ d > 2 /\ new[d - 1].kind = "wasm"
    BY DEF ShimsOnTop
  <2>3. d = n + 1
    BY <2>1
  <2> QED BY <2>2, <2>3
<1>5. ShimsExact(ins, outs, new)
  <2>1. ReadExact(ins, new, n + 1)
    BY <1>3 DEF ReadExact
  <2> QED BY <2>1, <1>2 DEF ShimsExact, Shims
<1>6. LenExact("in_read", ins, new, "no")
  <2> SUFFICES ASSUME NEW i \in Allocated(ins),
                      \A d \in 1..(n + 1) : new[d].kind = "in_read" => new[d].handle # i
               PROVE  ins.storage[i].buffer.len = RestOf(ins, new, i)
    BY DEF LenExact
  <2>1. i # h
    OBVIOUS
  <2>2. \A d \in 1..(n + 1) : stk[d].kind = "in_read" => stk[d].handle # i
    BY <2>1, <1>1 DEF Shims
  <2> QED BY <2>1, <2>2 DEF Exact, LenExact
<1>7. LenExact("out_write", outs, new, "no")
  <2>1. \A d \in 1..(n + 1) : stk[d].kind # "out_write"
    BY <1>1 DEF Shims
  <2> QED BY <2>1 DEF Exact, LenExact, SameRest
<1> QED BY <1>4, <1>5, <1>6, <1>7 DEF Exact

\* out_write's shim goes on.
LEMMA WriteMoved ==
    ASSUME NEW ins, NEW outs, NEW stk, NEW n \in Nat, Len(stk) = n + 1,
           Exact(ins, outs, stk, "no"), stk[n + 1].kind = "out_write",
           NEW new, Len(new) = n + 1, \A d \in 1..n : new[d].kind = stk[d].kind,
           new[n + 1].kind = "out_write", new[n + 1].handle = stk[n + 1].handle,
           NEW h, h = stk[n + 1].handle,
           outs.storage[h].buffer.len = RestOf(outs, new, h) + new[n + 1].want - new[n + 1].left,
           \A i \in Allocated(outs) : i # h => RestOf(outs, new, i) = RestOf(outs, stk, i),
           SameRest(ins, stk, new)
    PROVE  Exact(ins, outs, new, "no")
<1>1. \A d \in 1..n : stk[d].kind \notin Shims
  BY DEF Exact, ShimsOnTop, Shims
<1>2. \A d \in 1..n : new[d].kind \notin Shims
  BY <1>1
<1>3. n + 1 > 2 /\ stk[n].kind = "wasm" /\ n \in 1..n /\ FrameOf(outs, h) = (n + 1) - 2
  BY DEF Exact, ShimsOnTop, ShimsExact, WriteExact, Shims
<1>4. ShimsOnTop(new)
  <2>1. \A d \in 1..(n + 1) : new[d].kind \in Shims => d = n + 1
    BY <1>2
  <2> QED BY <2>1, <1>3 DEF ShimsOnTop
<1>5. ShimsExact(ins, outs, new)
  <2>1. WriteExact(outs, new, n + 1)
    BY <1>3 DEF WriteExact
  <2> QED BY <2>1, <1>2 DEF ShimsExact, Shims
<1>6. LenExact("out_write", outs, new, "no")
  <2> SUFFICES ASSUME NEW i \in Allocated(outs),
                      \A d \in 1..(n + 1) : new[d].kind = "out_write" => new[d].handle # i
               PROVE  outs.storage[i].buffer.len = RestOf(outs, new, i)
    BY DEF LenExact
  <2>1. i # h
    OBVIOUS
  <2>2. \A d \in 1..(n + 1) : stk[d].kind = "out_write" => stk[d].handle # i
    BY <2>1, <1>1 DEF Shims
  <2> QED BY <2>1, <2>2 DEF Exact, LenExact
<1>7. LenExact("in_read", ins, new, "no")
  <2>1. \A d \in 1..(n + 1) : stk[d].kind # "in_read"
    BY <1>1 DEF Shims
  <2> QED BY <2>1 DEF Exact, LenExact, SameRest
<1> QED BY <1>4, <1>5, <1>6, <1>7 DEF Exact

\* The wrapper of n buffers can take one more.
LEMMA RoomLeft ==
    ASSUME Base(in_buffers, out_buffers, stack), Depth > 0, Top.kind = "wrapper",
           Cardinality(LiveBuffers) < MaxBuffers
    PROVE  Len(Top.buffers) + 1 <= MaxBuffers
<1>1. /\ stack \in Seq(FrameRecord) /\ Owned(FALSE, in_buffers, stack)
      /\ Owned(TRUE, out_buffers, stack) /\ MaxBuffers \in Nat
  BY BufferAssumption DEF Base
<1>2. Depth \in Nat /\ Depth \in 1..Depth /\ Top \in FrameRecord
  BY <1>1 DEF Depth, Top
<1>3. Top.buffers \in Seq(Passed)
  BY <1>2, FrameFields
<1> DEFINE m == Len(Top.buffers)
           S == {Depth} \X (1..m)
<1>4. m \in Nat
  BY <1>3
<1>5. ASSUME NEW k \in 1..m PROVE k <= MaxBuffers
  <2>1. Depth \in Nat /\ k \in Nat /\ IsBuffer(stack, Depth, k)
    BY <1>2 DEF IsBuffer, Depth, Top
  <2>2. stack[Depth].buffers[k].out \in BOOLEAN
    <3>1. Top.buffers[k] \in Passed
      BY <1>3
    <3> QED BY <3>1 DEF Passed, Top
  <2> QED BY <2>1, <2>2, <1>1 DEF Owned
<1>6. m <= MaxBuffers
  <2>1. CASE m = 0
    BY <2>1, <1>1
  <2>2. CASE m # 0
    <3>1. m \in 1..m
      BY <2>2, <1>4
    <3> QED BY <3>1, <1>5
  <2> QED BY <2>1, <2>2
<1>7. S \subseteq LiveBuffers
  <2> SUFFICES ASSUME NEW k \in 1..m PROVE <<Depth, k>> \in LiveBuffers
    OBVIOUS
  <2>1. <<Depth, k>> \in (1..Depth) \X (1..MaxBuffers)
    BY <1>1, <1>2, <1>4, <1>6
  <2>2. k \in DOMAIN stack[Depth].buffers
    BY <1>3 DEF Top
  <2> QED BY <2>1, <2>2 DEF LiveBuffers, Top
<1>8. IsFiniteSet(LiveBuffers) /\ Cardinality(LiveBuffers) \in Nat
  <2>1. IsFiniteSet((1..Depth) \X (1..MaxBuffers))
    <3>1. IsFiniteSet(1..Depth) /\ IsFiniteSet(1..MaxBuffers)
      BY <1>1, <1>2, FS_Interval
    <3> QED BY <3>1, FS_Product
  <2>2. LiveBuffers \in SUBSET ((1..Depth) \X (1..MaxBuffers))
    BY DEF LiveBuffers
  <2>3. IsFiniteSet(LiveBuffers)
    BY <2>1, <2>2, FS_Subset
  <2> QED BY <2>3, FS_CardinalityType
<1>9. Cardinality(S) = m
  <2>1. IsFiniteSet({Depth}) /\ Cardinality({Depth}) = 1
    BY FS_Singleton
  <2>2. IsFiniteSet(1..m) /\ Cardinality(1..m) = m
    BY <1>4, FS_Interval
  <2> HIDE DEF m
  <2>3. Cardinality({Depth} \X (1..m)) = Cardinality({Depth}) * Cardinality(1..m)
    BY <2>1, <2>2, FS_Product
  <2> QED BY <2>1, <2>2, <2>3, <1>4
<1>10. Cardinality(S) <= Cardinality(LiveBuffers)
  <2> HIDE DEF S
  <2> QED BY <1>7, <1>8, FS_Subset
<1> QED BY <1>1, <1>4, <1>8, <1>9, <1>10

(***************************************************************************)
(* The steps.                                                              *)
(***************************************************************************)

\* What a step has to establish.
LEMMA StepFine ==
    ASSUME IInv, UNCHANGED runtime, Base(in_buffers', out_buffers', stack'),
           unwinding' \in {"no", "trap", "panic", "abort"},
           runtime => /\ unwinding' \in {"no", "trap"}
                      /\ Exact(in_buffers', out_buffers', stack', unwinding')
    PROVE  IInv'
BY DEF IInv, RuntimeFine, Exact

\* What holds before a step.
LEMMA Now ==
    ASSUME IInv
    PROVE  /\ Base(in_buffers, out_buffers, stack) /\ stack \in Seq(FrameRecord)
           /\ SlabFine(in_buffers) /\ SlabFine(out_buffers)
           /\ Owned(FALSE, in_buffers, stack) /\ Owned(TRUE, out_buffers, stack)
           /\ ShimsFine(in_buffers, out_buffers, stack) /\ LockKept(stack) /\ WasmBelow(stack)
           /\ Depth \in Nat /\ Depth = Len(stack) /\ (Depth > 0 => Top \in FrameRecord)
           /\ runtime => /\ unwinding \in {"no", "trap"}
                         /\ Exact(in_buffers, out_buffers, stack, unwinding)
<1>1. Base(in_buffers, out_buffers, stack) /\ stack \in Seq(FrameRecord)
  BY DEF IInv, Base
<1>2. Depth \in Nat /\ Depth = Len(stack) /\ (Depth > 0 => Top \in FrameRecord)
  BY <1>1 DEF Depth, Top
<1>3. runtime => /\ unwinding \in {"no", "trap"}
                 /\ Exact(in_buffers, out_buffers, stack, unwinding)
  BY DEF IInv, RuntimeFine, Exact
<1> QED BY <1>1, <1>2, <1>3 DEF Base

\* When a guest on the runtime is not in its allocator and no shim is innermost,
\* no shim runs at all.
LEMMA QuietNow ==
    ASSUME IInv, runtime, unwinding = "no", Depth > 0 => Top.kind \notin Shims \cup {"alloc"}
    PROVE  /\ Quiet(stack) /\ LenAll(in_buffers, stack) /\ LenAll(out_buffers, stack)
           /\ ~Locked
<1>1. /\ Depth \in Nat /\ Depth = Len(stack)
      /\ Exact(in_buffers, out_buffers, stack, "no")
  BY Now
<1>2. Quiet(stack)
  <2>1. ShimsOnTop(stack)
    BY <1>1 DEF Exact
  <2>2. Depth > 0 => stack[Depth].kind \notin Shims /\ stack[Depth].kind # "alloc"
    BY DEF Top
  <2> QED BY <1>1, <2>1, <2>2, QuietTop
<1>3. LenAll(in_buffers, stack) /\ LenAll(out_buffers, stack)
  BY <1>1, <1>2, ExactQuiet
<1>4. ~Locked
  BY <1>1, <1>2 DEF Quiet, Locked, Shims
<1> QED BY <1>2, <1>3, <1>4

\* A frame that is no shim is put on a stack where nothing else happens.
LEMMA QuietlyPushed ==
    ASSUME IInv, UNCHANGED <<slabs, unwinding, runtime>>, unwinding = "no", Depth < MaxDepth,
           NEW f \in FrameRecord, stack' = Append(stack, f), f.kind \notin Shims,
           f.kind = "wrapper" => f.buffers = <<>>,
           f.kind = "wasm" => Depth > 0 /\ Top.kind = "wrapper",
           runtime => (Depth > 0 => Top.kind \notin Shims \cup {"alloc"})
    PROVE  IInv'
<1>1. /\ Base(in_buffers, out_buffers, stack) /\ stack \in Seq(FrameRecord)
      /\ SlabFine(in_buffers) /\ SlabFine(out_buffers)
      /\ Owned(FALSE, in_buffers, stack) /\ Owned(TRUE, out_buffers, stack)
      /\ Depth = Len(stack)
  BY Now
<1>2. in_buffers' = in_buffers /\ out_buffers' = out_buffers /\ unwinding' = unwinding
  BY DEF slabs
<1>3. Base(in_buffers, out_buffers, Append(stack, f))
  BY <1>1, PushedFrame DEF Top, Shims
<1>4. runtime => Exact(in_buffers, out_buffers, Append(stack, f), "no")
  <2> SUFFICES ASSUME runtime PROVE Exact(in_buffers, out_buffers, Append(stack, f), "no")
    OBVIOUS
  <2>1. Quiet(stack) /\ LenAll(in_buffers, stack) /\ LenAll(out_buffers, stack)
    BY QuietNow
  <2> QED BY <1>1, <2>1, QuietPushed
<1> QED BY <1>2, <1>3, <1>4, StepFine

\* The stack without its innermost frame.
LEMMA BelowUnder == Below = Under(stack)
BY DEF Below, Under, Depth

LEMMA InitFine == ASSUME Init PROVE IInv
<1>1. /\ in_buffers = EmptySlab /\ out_buffers = EmptySlab /\ stack = <<>>
      /\ unwinding = "no" /\ runtime \in BOOLEAN
  BY DEF Init
<1>2. SlabFine(EmptySlab) /\ Allocated(EmptySlab) = {}
  BY EmptySlabFine
<1>3. stack \in Seq(FrameRecord) /\ Len(stack) = 0 /\ Len(stack) <= MaxDepth
  BY <1>1, BufferAssumption
<1>4. \A s : Allocated(s) = {} => \A out : Owned(out, s, stack)
  BY <1>3 DEF Owned, IsBuffer
<1>5. Base(in_buffers, out_buffers, stack)
  <2>1. \A s : Allocated(s) = {} => RawBacked(s, stack) /\ IterBacked(s, stack)
    BY DEF RawBacked, IterBacked
  <2>2. \A ins, outs : ShimsFine(ins, outs, stack)
    BY <1>3 DEF ShimsFine
  <2>3. LockKept(stack) /\ WasmBelow(stack)
    BY <1>3 DEF LockKept, WasmBelow
  <2> QED BY <1>1, <1>2, <1>3, <1>4, <2>1, <2>2, <2>3 DEF Base
<1>6. Exact(in_buffers, out_buffers, stack, unwinding)
  <2>1. Quiet(stack) /\ LenAll(in_buffers, stack) /\ LenAll(out_buffers, stack)
    BY <1>1, <1>2, <1>3 DEF Quiet, LenAll
  <2> QED BY <2>1, QuietExact
<1> QED BY <1>1, <1>5, <1>6 DEF IInv, RuntimeFine, Exact

LEMMA BeginCallFine == ASSUME IInv, BeginCall, UNCHANGED runtime PROVE IInv'
<1>1. Wrapper \in FrameRecord /\ Wrapper.kind = "wrapper" /\ Wrapper.buffers = <<>>
  BY DEF Wrapper, FrameRecord, WrapperFrame
<1>2. /\ stack' = Append(stack, Wrapper) /\ unwinding = "no" /\ Depth < MaxDepth
      /\ UNCHANGED <<slabs, unwinding>> /\ (Depth > 0 => Top.kind = "import")
  <2>1. Depth \in Nat
    BY Now
  <2> QED BY <2>1 DEF BeginCall, HostRuns, TopIs, Pushed
<1> HIDE DEF Wrapper
<1> QED BY <1>1, <1>2, QuietlyPushed DEF Shims

LEMMA GuestCallsImportFine ==
    ASSUME IInv, MayCall, GuestCallsImport, UNCHANGED runtime PROVE IInv'
<1>1. Frame("import") \in FrameRecord /\ Frame("import").kind = "import"
  BY DEF Frame, FrameRecord
<1>2. /\ stack' = Append(stack, Frame("import")) /\ unwinding = "no" /\ Depth < MaxDepth
      /\ UNCHANGED <<slabs, unwinding>> /\ (runtime => Top.kind = "wasm")
  BY DEF GuestCallsImport, GuestRuns, TopIs, Pushed, MayCall
<1> QED BY <1>1, <1>2, QuietlyPushed DEF Shims

\* That a wrapper has called its function changes none of its buffers.
LEMMA Called ==
    ASSUME NEW ins, NEW outs, NEW stk, Base(ins, outs, stk), NEW n \in Nat, Len(stk) = n + 1,
           stk[n + 1].kind = "wrapper", NEW f \in FrameRecord, f.kind = "wrapper",
           f.buffers = stk[n + 1].buffers, NEW new, ReplacedAt(stk, n + 1, f, new)
    PROVE  /\ Base(ins, outs, new) /\ SameBuffers(stk, new) /\ Len(new) = n + 1
           /\ \A d \in 1..(n + 1) : new[d].kind = stk[d].kind
<1>1. stk \in Seq(FrameRecord) /\ n + 1 \in 1..Len(stk) /\ stk[n + 1] \in FrameRecord
  BY DEF Base
<1>6. /\ new \in Seq(FrameRecord) /\ Len(new) = n + 1 /\ new[n + 1] = f
      /\ \A e \in 1..Len(stk) : e # n + 1 => new[e] = stk[e]
  BY DEF ReplacedAt
<1>7. \A d \in 1..(n + 1) : /\ new[d].kind = stk[d].kind
                            /\ stk[d].kind = "wrapper" => new[d].buffers = stk[d].buffers
                            /\ stk[d].kind # "wrapper" => new[d] = stk[d]
  BY <1>6
<1>8. SameBuffers(stk, new)
  BY <1>6, <1>7 DEF SameBuffers, IsBuffer
<1>9. Skeleton(ins, outs, new)
  <2>1. Skeleton(ins, outs, stk) /\ ShimsFine(ins, outs, stk)
    BY BaseParts DEF Base
  <2>2. Alike(stk, new)
    <3>1. \A d \in 1..Len(stk) :
             /\ stk[d].kind = "in_read" => (stk[d].pending => stk[d].left > 0)
             /\ stk[d].kind = "out_write" => stk[d].left <= stk[d].want
      BY <2>1 DEF ShimsFine, ReadFine, WriteFine
    <3> QED BY <3>1, <1>6, <1>7 DEF Alike
  <2> QED BY <2>1, <2>2, <1>6, AlikeSkeleton
<1>10. SlabFine(ins) /\ SlabFine(outs) /\ Owned(FALSE, ins, stk) /\ Owned(TRUE, outs, stk)
  BY DEF Base
<1>11. /\ \A h \in Allocated(ins) : RestOf(ins, new, h) = RestOf(ins, stk, h)
       /\ RawBacked(ins, new) /\ RawBacked(outs, new)
  <2>1. RawBacked(ins, stk) /\ RawBacked(outs, stk)
    BY DEF Base
  <2>2. /\ \A h \in Allocated(ins) : RestOf(ins, new, h) = RestOf(ins, stk, h)
        /\ RawBacked(ins, stk) => RawBacked(ins, new)
    BY <1>8, <1>10, BuffersKept
  <2>3. RawBacked(outs, stk) => RawBacked(outs, new)
    BY <1>8, <1>10, BuffersKept
  <2> QED BY <2>1, <2>2, <2>3
<1>12. \A h : Taken(new, h) = Taken(stk, h)
  <2> SUFFICES ASSUME NEW h PROVE Taken(new, h) = Taken(stk, h)
    OBVIOUS
  <2>1. \A d \in 1..Len(stk) : TakenBy(new[d], h) = TakenBy(stk[d], h)
    BY <1>7 DEF TakenBy, Reads
  <2> QED BY <2>1, <1>1, <1>6, TakenKept
<1>13. IterBacked(ins, new)
  <2>1. IterBacked(ins, stk)
    BY DEF Base
  <2> QED BY <2>1, <1>11, <1>12 DEF IterBacked
<1> QED BY <1>6, <1>7, <1>8, <1>9, <1>11, <1>13, BaseParts

LEMMA CallWasmFine == ASSUME IInv, CallWasm, UNCHANGED runtime PROVE IInv'
<1>1. PICK mid : mid = [stack EXCEPT ![Depth].called = TRUE]
  OBVIOUS
<1>2. /\ stack' = Append(mid, Frame("wasm")) /\ unwinding = "no" /\ Depth < MaxDepth
      /\ UNCHANGED <<slabs, unwinding>> /\ Depth > 0 /\ Top.kind = "wrapper"
  BY <1>1 DEF CallWasm, TopIs
<1>3. /\ Base(in_buffers, out_buffers, stack) /\ stack \in Seq(FrameRecord)
      /\ Depth \in Nat /\ Depth = Len(stack)
  BY Now
<1>4. PICK n \in Nat : Depth = n + 1
  <2>1. Depth - 1 \in Nat /\ Depth = (Depth - 1) + 1
    BY <1>2, <1>3
  <2> QED BY <2>1
<1>5. stack[n + 1].kind = "wrapper" /\ Len(stack) = n + 1
  BY <1>2, <1>3, <1>4 DEF Top
<1>6. /\ Base(in_buffers, out_buffers, mid) /\ SameBuffers(stack, mid) /\ Len(mid) = n + 1
      /\ \A d \in 1..(n + 1) : mid[d].kind = stack[d].kind
  <2>1. stack[n + 1] \in FrameRecord /\ n + 1 \in 1..Len(stack)
    BY <1>3, <1>5
  <2>2. PICK f : f = [stack[n + 1] EXCEPT !.called = TRUE]
    OBVIOUS
  <2>3. mid = [stack EXCEPT ![n + 1] = f]
    BY <1>1, <1>4, <2>2
  <2>4. f \in FrameRecord /\ f.kind = "wrapper" /\ f.buffers = stack[n + 1].buffers
    <3>1. /\ stack[n + 1] = [kind |-> "wrapper", buffers |-> stack[n + 1].buffers,
                             called |-> stack[n + 1].called]
          /\ stack[n + 1].buffers \in Seq(Passed)
      BY <1>5, <2>1, FrameFields
    <3>2. ASSUME NEW t
          PROVE  [stack[n + 1] EXCEPT !.called = t]
                     = [kind |-> "wrapper", buffers |-> stack[n + 1].buffers, called |-> t]
      BY ONLY <3>1
    <3>3. f = [kind |-> "wrapper", buffers |-> stack[n + 1].buffers, called |-> TRUE]
      BY ONLY <2>2, <3>2
    <3> QED BY <3>1, <3>3 DEF FrameRecord, WrapperFrame
  <2>5. ReplacedAt(stack, n + 1, f, mid)
    BY ONLY <1>3, <2>1, <2>3, <2>4, ReplacedFrame
  <2> QED BY ONLY <1>3, <1>5, <2>4, <2>5, Called
<1>7. Frame("wasm") \in FrameRecord /\ Frame("wasm").kind = "wasm"
  BY DEF Frame, FrameRecord
<1>8. mid[Len(mid)].kind = "wrapper"
  BY <1>5, <1>6
<1>9. Base(in_buffers, out_buffers, Append(mid, Frame("wasm")))
  <2>1. Len(mid) < MaxDepth /\ Len(mid) > 0
    BY <1>2, <1>4, <1>6
  <2> QED BY <1>6, <1>7, <1>8, <2>1, PushedFrame DEF Shims
<1>10. runtime => Exact(in_buffers, out_buffers, Append(mid, Frame("wasm")), "no")
  <2> SUFFICES ASSUME runtime PROVE Exact(in_buffers, out_buffers, Append(mid, Frame("wasm")), "no")
    OBVIOUS
  <2>1. Quiet(stack) /\ LenAll(in_buffers, stack) /\ LenAll(out_buffers, stack)
    BY <1>2, QuietNow DEF Shims
  <2>2. Quiet(mid)
    BY <2>1, <1>5, <1>6 DEF Quiet
  <2>3. SlabFine(in_buffers) /\ SlabFine(out_buffers)
        /\ Owned(FALSE, in_buffers, stack) /\ Owned(TRUE, out_buffers, stack)
    BY Now
  <2>4. LenAll(in_buffers, mid) /\ LenAll(out_buffers, mid)
    <3>1. /\ \A h \in Allocated(in_buffers) : RestOf(in_buffers, mid, h) = RestOf(in_buffers, stack, h)
          /\ \A h \in Allocated(out_buffers) : RestOf(out_buffers, mid, h) = RestOf(out_buffers, stack, h)
      BY <2>3, <1>6, BuffersKept
    <3> QED BY <3>1, <2>1 DEF LenAll
  <2>5. /\ mid \in Seq(FrameRecord) /\ Owned(FALSE, in_buffers, mid)
        /\ Owned(TRUE, out_buffers, mid)
    BY <1>6 DEF Base
  <2> QED BY <1>7, <2>2, <2>3, <2>4, <2>5, QuietPushed DEF Shims
<1>11. in_buffers' = in_buffers /\ out_buffers' = out_buffers /\ unwinding' = unwinding
  BY <1>2 DEF slabs
<1> QED BY <1>2, <1>9, <1>10, <1>11, StepFine

LEMMA CallAllocFine == ASSUME IInv, CallAlloc, UNCHANGED runtime PROVE IInv'
<1>1. /\ stack' = Append(stack, Frame("alloc")) /\ unwinding = "no" /\ Depth < MaxDepth
      /\ UNCHANGED <<slabs, unwinding>> /\ Depth > 0
      /\ Top.kind \in {"wrapper", "in_read", "out_write"}
  BY DEF CallAlloc, TopIs, Pushed
<1>2. /\ Base(in_buffers, out_buffers, stack) /\ stack \in Seq(FrameRecord)
      /\ SlabFine(in_buffers) /\ SlabFine(out_buffers)
      /\ Owned(FALSE, in_buffers, stack) /\ Owned(TRUE, out_buffers, stack)
      /\ ShimsFine(in_buffers, out_buffers, stack) /\ Depth \in Nat /\ Depth = Len(stack)
      /\ runtime => Exact(in_buffers, out_buffers, stack, unwinding)
  BY Now
<1>3. Frame("alloc") = [kind |-> "alloc"] /\ [kind |-> "alloc"] \in FrameRecord
  BY DEF Frame, FrameRecord
<1>4. Base(in_buffers, out_buffers, Append(stack, [kind |-> "alloc"]))
  BY <1>1, <1>2, <1>3, PushedFrame DEF Shims
<1>5. runtime => Exact(in_buffers, out_buffers, Append(stack, [kind |-> "alloc"]), "no")
  <2>1. stack[Len(stack)].kind # "alloc"
    BY <1>1, <1>2 DEF Top
  <2> QED BY <1>1, <1>2, <2>1, AllocPushed
<1>6. in_buffers' = in_buffers /\ out_buffers' = out_buffers /\ unwinding' = unwinding
  BY <1>1 DEF slabs
<1> QED BY <1>1, <1>3, <1>4, <1>5, <1>6, StepFine

\* A step that throws a trap, and nothing else.
LEMMA Trapping ==
    ASSUME IInv, unwinding = "no", unwinding' = "trap", UNCHANGED <<slabs, stack, runtime>>
    PROVE  IInv'
<1>1. /\ Base(in_buffers, out_buffers, stack)
      /\ runtime => Exact(in_buffers, out_buffers, stack, "no")
  BY Now
<1>2. runtime => Exact(in_buffers, out_buffers, stack, "trap")
  BY <1>1, ExactFails
<1>3. in_buffers' = in_buffers /\ out_buffers' = out_buffers /\ stack' = stack
  BY DEF slabs
<1> QED BY <1>1, <1>2, <1>3, StepFine

LEMMA FailuresFine ==
    ASSUME IInv, UNCHANGED runtime,
           \/ WrapperFails
           \/ \E out, h, n :
                  RawOutOfBounds(out, h, n) \/ IntrinsicTraps(out, h, n)
    PROVE  IInv'
BY Trapping DEF WrapperFails, RawOutOfBounds, IntrinsicTraps, Granted, GuestRuns

\* A guest on the runtime never finds the slabs locked.
LEMMA IntrinsicPanicsFine ==
    ASSUME IInv, MayCall, IntrinsicPanics, UNCHANGED runtime PROVE IInv'
<1>1. /\ unwinding = "no" /\ unwinding' = "panic" /\ Locked
      /\ UNCHANGED <<slabs, stack>> /\ (runtime => Top.kind = "wasm")
  BY DEF IntrinsicPanics, GuestRuns, MayCall, TopIs
<1>2. ~runtime
  BY <1>1, QuietNow DEF Shims
<1>3. Base(in_buffers, out_buffers, stack)
  BY Now
<1>4. in_buffers' = in_buffers /\ out_buffers' = out_buffers /\ stack' = stack
  BY <1>1 DEF slabs
<1> QED BY <1>1, <1>2, <1>3, <1>4, StepFine

\* The innermost frame, by its place on the stack.
LEMMA Innermost ==
    ASSUME IInv, Depth > 0
    PROVE  \E n \in Nat : /\ Depth = n + 1 /\ Len(stack) = n + 1 /\ Top = stack[n + 1]
                          /\ stack[n + 1] \in FrameRecord
<1>1. Depth \in Nat /\ Depth = Len(stack) /\ stack \in Seq(FrameRecord)
  BY Now
<1>2. /\ Depth - 1 \in Nat /\ Depth = (Depth - 1) + 1 /\ Top = stack[(Depth - 1) + 1]
      /\ stack[(Depth - 1) + 1] \in FrameRecord
  BY <1>1 DEF Top
<1> QED BY <1>1, <1>2

\* A frame returns which is neither a shim nor a wrapper.
LEMMA Returning ==
    ASSUME IInv, UNCHANGED <<slabs, runtime>>, stack' = Below, Depth > 0,
           Top.kind \in {"wasm", "alloc", "import"},
           unwinding' \in {"no", "trap", "panic", "abort"}, unwinding' = "no" => unwinding = "no",
           runtime => unwinding' \in {"no", "trap"}
    PROVE  IInv'
<1>1. PICK n \in Nat : /\ Depth = n + 1 /\ Len(stack) = n + 1 /\ Top = stack[n + 1]
                       /\ stack[n + 1] \in FrameRecord
  BY Innermost
<1>2. /\ Base(in_buffers, out_buffers, stack)
      /\ runtime => Exact(in_buffers, out_buffers, stack, unwinding)
  BY Now
<1>3. stack[n + 1].kind \in {"wasm", "alloc", "import"}
  BY <1>1
<1>4. Base(in_buffers, out_buffers, Under(stack))
  <2>1. stack[n + 1].kind # "wrapper"
    BY <1>3
  <2> QED BY <1>1, <1>2, <2>1, PoppedFrame
<1>5. runtime => Exact(in_buffers, out_buffers, Under(stack), unwinding')
  BY <1>1, <1>2, <1>3, ExactPopped
<1>6. in_buffers' = in_buffers /\ out_buffers' = out_buffers /\ stack' = Under(stack)
  BY BelowUnder DEF slabs
<1> QED BY <1>4, <1>5, <1>6, StepFine

LEMMA ReturnsFine ==
    ASSUME IInv, UNCHANGED runtime, ImportReturns \/ GuestReturns PROVE IInv'
<1>1. /\ UNCHANGED <<slabs, runtime>> /\ stack' = Below /\ Depth > 0
      /\ Top.kind \in {"wasm", "alloc", "import"}
      /\ unwinding' \in {"no", "trap"} /\ unwinding = "no"
  BY DEF ImportReturns, GuestReturns, GuestRuns, TopIs
<1> QED BY <1>1, Returning

\* A transaction is dropped with the slabs free.
LEMMA Dropping ==
    ASSUME IInv, UNCHANGED runtime, stack' = Below, Depth > 0, Top.kind = "wrapper",
           DropTransaction, unwinding' \in {"no", "trap", "panic", "abort"},
           runtime => unwinding' \in {"no", "trap"}
    PROVE  IInv'
<1>1. PICK n \in Nat : /\ Depth = n + 1 /\ Len(stack) = n + 1 /\ Top = stack[n + 1]
                       /\ stack[n + 1] \in FrameRecord
  BY Innermost
<1>2. /\ Base(in_buffers, out_buffers, stack)
      /\ runtime => Exact(in_buffers, out_buffers, stack, unwinding)
  BY Now
<1>3. stack[n + 1].kind = "wrapper"
  BY <1>1
<1>4. /\ in_buffers' = Emptied(in_buffers, FALSE, stack[n + 1].buffers)
      /\ out_buffers' = Emptied(out_buffers, TRUE, stack[n + 1].buffers)
      /\ stack' = Under(stack)
  BY <1>1, BelowUnder DEF DropTransaction
<1>5. Base(Emptied(in_buffers, FALSE, stack[n + 1].buffers),
           Emptied(out_buffers, TRUE, stack[n + 1].buffers), Under(stack))
  BY <1>1, <1>2, <1>3, PoppedWrapper
<1>6. runtime => Exact(Emptied(in_buffers, FALSE, stack[n + 1].buffers),
                       Emptied(out_buffers, TRUE, stack[n + 1].buffers), Under(stack), unwinding')
  BY <1>1, <1>2, <1>3, WrapperExact
<1> QED BY <1>4, <1>5, <1>6, StepFine

\* With the slabs locked the wrapper, which has no buffers, or another frame is left
\* by a panic.
LEMMA Panicking ==
    ASSUME IInv, UNCHANGED <<slabs, runtime>>, ~runtime, stack' = Below, Depth > 0,
           unwinding' = "panic", Top.kind = "wrapper" => Locked
    PROVE  IInv'
<1>1. PICK n \in Nat : /\ Depth = n + 1 /\ Len(stack) = n + 1 /\ Top = stack[n + 1]
                       /\ stack[n + 1] \in FrameRecord
  BY Innermost
<1>2. Base(in_buffers, out_buffers, stack) /\ LockKept(stack)
  BY Now
<1>3. stack[n + 1].kind = "wrapper" => stack[n + 1].buffers = <<>>
  <2> SUFFICES ASSUME stack[n + 1].kind = "wrapper" PROVE stack[n + 1].buffers = <<>>
    OBVIOUS
  <2>1. PICK d \in 1..Depth : stack[d].kind = "out_write"
    BY <1>1 DEF Locked
  <2>2. d < n + 1 /\ d \in 1..Len(stack) /\ n + 1 \in 1..Len(stack)
    <3>1. d # n + 1
      BY <2>1
    <3> QED BY <1>1, <3>1
  <2> QED BY <2>1, <2>2, <1>2 DEF LockKept
<1>4. Base(in_buffers, out_buffers, Under(stack))
  BY <1>1, <1>2, <1>3, PoppedFrame
<1>5. in_buffers' = in_buffers /\ out_buffers' = out_buffers /\ stack' = Under(stack)
  BY BelowUnder DEF slabs
<1> QED BY <1>4, <1>5, StepFine

LEMMA EndCallFine == ASSUME IInv, EndCall, UNCHANGED runtime PROVE IInv'
<1>1. unwinding = "no" /\ Depth > 0 /\ Top.kind = "wrapper" /\ stack' = Below
  BY DEF EndCall, TopIs
<1>2. CASE Locked
  <2>1. unwinding' = "panic" /\ UNCHANGED slabs
    BY <1>2 DEF EndCall
  <2>2. ~runtime
    BY <1>1, <1>2, QuietNow DEF Shims
  <2> QED BY <1>1, <1>2, <2>1, <2>2, Panicking
<1>3. CASE ~Locked
  <2>1. DropTransaction /\ unwinding' = "no"
    BY <1>1, <1>3 DEF EndCall
  <2> QED BY <1>1, <2>1, Dropping
<1> QED BY <1>2, <1>3

LEMMA TrapLeavesWrapperFine == ASSUME IInv, TrapLeavesWrapper, UNCHANGED runtime PROVE IInv'
<1>1. unwinding = "trap" /\ Depth > 0 /\ Top.kind = "wrapper" /\ stack' = Below
  BY DEF TrapLeavesWrapper, TopIs
<1>2. CASE Locked
  <2>1. unwinding' = "panic" /\ UNCHANGED slabs
    BY <1>2 DEF TrapLeavesWrapper
  <2>2. ~runtime
    <3>1. Depth = Len(stack) /\ Depth \in Nat /\ (runtime => ShimsOnTop(stack))
      BY Now DEF Exact
    <3>2. runtime => Quiet(stack)
      <4>1. stack[Depth].kind \notin Shims /\ stack[Depth].kind # "alloc"
        BY <1>1 DEF Top, Shims
      <4> QED BY <3>1, <4>1, QuietTop
    <3> QED BY <3>1, <3>2, <1>2 DEF Quiet, Locked, Shims
  <2> QED BY <1>1, <1>2, <2>1, <2>2, Panicking
<1>3. CASE ~Locked
  <2>1. DropTransaction /\ unwinding' = "no"
    BY <1>1, <1>3 DEF TrapLeavesWrapper
  <2> QED BY <1>1, <2>1, Dropping
<1> QED BY <1>2, <1>3

LEMMA PanicLeavesFrameFine == ASSUME IInv, PanicLeavesFrame, UNCHANGED runtime PROVE IInv'
<1>1. unwinding = "panic" /\ Depth > 0
  BY DEF PanicLeavesFrame
<1>2. ~runtime
  BY <1>1, Now
<1>3. CASE Top.kind # "wrapper"
  <2>1. stack' = Below /\ UNCHANGED slabs /\ unwinding' = "panic"
    BY <1>1, <1>3 DEF PanicLeavesFrame, TopIs
  <2> QED BY <1>1, <1>2, <1>3, <2>1, Panicking
<1>4. CASE Top.kind = "wrapper" /\ Locked
  <2>1. unwinding' = "abort" /\ UNCHANGED <<slabs, stack>>
    BY <1>1, <1>4 DEF PanicLeavesFrame, TopIs
  <2>2. in_buffers' = in_buffers /\ out_buffers' = out_buffers /\ stack' = stack
    BY <2>1 DEF slabs
  <2>3. Base(in_buffers, out_buffers, stack)
    BY Now
  <2> QED BY <1>2, <2>1, <2>2, <2>3, StepFine
<1>5. CASE Top.kind = "wrapper" /\ ~Locked
  <2>1. stack' = Below /\ DropTransaction /\ unwinding' = "panic"
    BY <1>1, <1>5 DEF PanicLeavesFrame, TopIs
  <2> QED BY <1>1, <1>2, <1>5, <2>1, Dropping
<1> QED BY <1>3, <1>4, <1>5

LEMMA PanicCaughtFine == ASSUME IInv, PanicCaught, UNCHANGED runtime PROVE IInv'
<1>1. unwinding = "panic" /\ unwinding' = "no" /\ UNCHANGED <<slabs, stack>>
  BY DEF PanicCaught
<1>2. ~runtime /\ Base(in_buffers, out_buffers, stack)
  BY <1>1, Now
<1>3. in_buffers' = in_buffers /\ out_buffers' = out_buffers /\ stack' = stack
  BY <1>1 DEF slabs
<1> QED BY <1>1, <1>2, <1>3, StepFine

\* in_read is left.
LEMMA ReadLeft ==
    ASSUME IInv, UNCHANGED <<out_buffers, runtime>>, stack' = Below, Depth > 0,
           Top.kind = "in_read", unwinding' \in {"no", "trap"},
           in_buffers' = Consume(in_buffers, Top.handle, Top.processed),
           unwinding' = "no" => unwinding = "no" /\ Top.left = 0
    PROVE  IInv'
<1>1. PICK n \in Nat : /\ Depth = n + 1 /\ Len(stack) = n + 1 /\ Top = stack[n + 1]
                       /\ stack[n + 1] \in FrameRecord
  BY Innermost
<1>2. /\ Base(in_buffers, out_buffers, stack)
      /\ runtime => Exact(in_buffers, out_buffers, stack, unwinding)
  BY Now
<1>3. PICK t : t = Consume(in_buffers, stack[n + 1].handle, stack[n + 1].processed)
  OBVIOUS
<1>4. /\ stack[n + 1].kind = "in_read"
      /\ unwinding' = "no" => unwinding = "no" /\ stack[n + 1].left = 0
  BY <1>1
<1>5. /\ Base(t, out_buffers, Under(stack))
      /\ Exact(in_buffers, out_buffers, stack, unwinding)
            => Exact(t, out_buffers, Under(stack), unwinding')
  BY <1>1, <1>2, <1>3, <1>4, ReadPopped
<1>6. in_buffers' = t /\ out_buffers' = out_buffers /\ stack' = Under(stack)
  BY <1>1, <1>3, BelowUnder
<1> QED BY <1>2, <1>5, <1>6, StepFine

LEMMA InReadReturnsFine == ASSUME IInv, InReadReturns, UNCHANGED runtime PROVE IInv'
<1>1. /\ UNCHANGED <<out_buffers, runtime>> /\ stack' = Below /\ Depth > 0
      /\ Top.kind = "in_read" /\ unwinding' \in {"no", "trap"}
      /\ in_buffers' = Consume(in_buffers, Top.handle, Top.processed)
      /\ unwinding' = "no" => unwinding = "no" /\ Top.left = 0
  BY DEF InReadReturns, TopIs
<1> QED BY <1>1, ReadLeft

\* out_write is left.
LEMMA WriteLeft ==
    ASSUME IInv, UNCHANGED <<in_buffers, runtime>>, stack' = Below, Depth > 0,
           Top.kind = "out_write", unwinding' \in {"no", "trap"},
           out_buffers' = IF unwinding' = "no" THEN Consume(out_buffers, Top.handle, Top.want)
                                               ELSE out_buffers,
           unwinding' = "no" => unwinding = "no" /\ Top.left = 0
    PROVE  IInv'
<1>1. PICK n \in Nat : /\ Depth = n + 1 /\ Len(stack) = n + 1 /\ Top = stack[n + 1]
                       /\ stack[n + 1] \in FrameRecord
  BY Innermost
<1>2. /\ Base(in_buffers, out_buffers, stack)
      /\ runtime => Exact(in_buffers, out_buffers, stack, unwinding)
  BY Now
<1>3. PICK t : t = IF unwinding' = "no"
                     THEN Consume(out_buffers, stack[n + 1].handle, stack[n + 1].want)
                     ELSE out_buffers
  OBVIOUS
<1>4. /\ stack[n + 1].kind = "out_write"
      /\ unwinding' = "no" => unwinding = "no" /\ stack[n + 1].left = 0
  BY <1>1
<1>5. /\ Base(in_buffers, t, Under(stack))
      /\ Exact(in_buffers, out_buffers, stack, unwinding)
            => Exact(in_buffers, t, Under(stack), unwinding')
  BY <1>1, <1>2, <1>3, <1>4, WritePopped
<1>6. in_buffers' = in_buffers /\ out_buffers' = t /\ stack' = Under(stack)
  BY <1>1, <1>3, BelowUnder
<1> QED BY <1>2, <1>5, <1>6, StepFine

LEMMA OutWriteReturnsFine == ASSUME IInv, OutWriteReturns, UNCHANGED runtime PROVE IInv'
<1>1. /\ UNCHANGED <<in_buffers, runtime>> /\ stack' = Below /\ Depth > 0
      /\ Top.kind = "out_write" /\ unwinding = "no"
      /\ \/ /\ Top.left = 0 /\ unwinding' = "no"
            /\ out_buffers' = Consume(out_buffers, Top.handle, Top.want)
         \/ unwinding' = "trap" /\ out_buffers' = out_buffers
  BY DEF OutWriteReturns, TopIs
<1> QED BY <1>1, WriteLeft

LEMMA TrapLeavesFrameFine == ASSUME IInv, TrapLeavesFrame, UNCHANGED runtime PROVE IInv'
<1>1. /\ UNCHANGED <<out_buffers, runtime>> /\ stack' = Below /\ Depth > 0
      /\ unwinding = "trap" /\ unwinding' = "trap"
      /\ Top.kind \in {"wasm", "alloc", "in_read", "out_write"}
      /\ in_buffers' = IF Top.kind = "in_read"
                         THEN Consume(in_buffers, Top.handle, Top.processed) ELSE in_buffers
  BY DEF TrapLeavesFrame, TopIs
<1>2. CASE Top.kind = "in_read"
  BY <1>1, <1>2, ReadLeft
<1>3. CASE Top.kind = "out_write"
  BY <1>1, <1>3, WriteLeft
<1>4. CASE Top.kind \in {"wasm", "alloc"}
  <2>1. UNCHANGED slabs
    BY <1>1, <1>4 DEF slabs
  <2> QED BY <1>1, <1>4, <2>1, Returning
<1> QED BY <1>1, <1>2, <1>3, <1>4

\* A buffer is passed with the slabs free; new and t are the stack and the slab then.
LEMMA Passing ==
    ASSUME IInv, UNCHANGED <<unwinding, runtime>>, unwinding = "no", Depth > 0,
           Top.kind = "wrapper", ~Locked, Cardinality(LiveBuffers) < MaxBuffers,
           NEW out \in BOOLEAN, NEW raw \in BOOLEAN, NEW n \in Lengths,
           NEW s, s = Slab(out),
           NEW b, b = [len |-> n, raw |-> raw, ptr |-> <<Depth, Len(Top.buffers) + 1>>],
           stack' = [stack EXCEPT ![Depth].buffers =
                         Append(@, [out |-> out, handle |-> s.next, rest |-> n])],
           in_buffers' = IF out THEN in_buffers ELSE SlabInsert(s, b),
           out_buffers' = IF out THEN SlabInsert(s, b) ELSE out_buffers
    PROVE  IInv'
<1>1. PICK d \in Nat : d = Depth /\ d = Len(stack) /\ d > 0 /\ Top = stack[d]
  BY Now DEF Top
<1>2. /\ Base(in_buffers, out_buffers, stack) /\ stack \in Seq(FrameRecord)
      /\ SlabFine(in_buffers) /\ SlabFine(out_buffers) /\ d <= MaxDepth
      /\ runtime => Exact(in_buffers, out_buffers, stack, "no")
  BY <1>1, Now DEF Base
<1>3. n \in Nat
  BY BufferAssumption
<1>4. MayPass(stack, d)
  <2>1. Len(Top.buffers) + 1 <= MaxBuffers
    BY <1>2, RoomLeft
  <2>2. \A e \in 1..d : stack[e].kind # "out_write"
    BY <1>1 DEF Locked
  <2> QED BY <1>1, <2>1, <2>2 DEF MayPass
<1>5. stack[d].kind = "wrapper" /\ stack[d].buffers \in Seq(Passed)
  <2>1. stack[d] \in FrameRecord /\ stack[d].kind = "wrapper"
    BY <1>1, <1>2
  <2> QED BY <2>1, FrameFields
<1>6. b \in BufferRecord /\ b.len = n /\ b.ptr = <<d, Len(stack[d].buffers) + 1>>
  <2>1. /\ Len(stack[d].buffers) + 1 \in 1..MaxBuffers /\ d \in 1..MaxDepth
    <3>1. Len(stack[d].buffers) \in Nat
      BY <1>5
    <3> QED BY <3>1, <1>1, <1>2, <1>4, BufferAssumption DEF MayPass
  <2> QED BY <2>1, <1>1, <1>3 DEF BufferRecord
<1>7. PICK new : new = [stack EXCEPT ![d].buffers =
                            Append(@, [out |-> out, handle |-> s.next, rest |-> n])]
  OBVIOUS
<1>8. stack' = new
  BY <1>1, <1>7
<1>9. PassedAt(stack, d, [out |-> out, handle |-> s.next, rest |-> b.len], new)
  <2>1. [out |-> out, handle |-> s.next, rest |-> n] \in Passed
    <3>1. s.next \in Nat
      BY <1>2, SlabHead DEF Slab
    <3> QED BY <3>1, <1>3 DEF Passed
  <2>2. PassedAt(stack, d, [out |-> out, handle |-> s.next, rest |-> n], new)
    BY ONLY <1>1, <1>2, <1>5, <1>7, <2>1, PassedStack
  <2> QED BY <1>6, <2>2
<1>10. PICK t : t = SlabInsert(s, b)
  OBVIOUS
<1>11. runtime => Quiet(stack) /\ LenAll(in_buffers, stack) /\ LenAll(out_buffers, stack)
  BY QuietNow DEF Shims
<1>12. PICK ins, outs : ins = in_buffers /\ outs = out_buffers
  OBVIOUS
<1>13. \A e : e \in 1..Len(stack) <=> e \in 1..d
  BY <1>1
<1>14. CASE ~out
  <2>1. s = ins /\ in_buffers' = t /\ out_buffers' = outs /\ out = FALSE
    BY <1>10, <1>12, <1>14 DEF Slab
  <2>2. PassedAt(stack, d, [out |-> FALSE, handle |-> ins.next, rest |-> b.len], new)
    BY <2>1, <1>9
  <2>3. Base(ins, outs, stack) /\ t = SlabInsert(ins, b)
    BY <1>2, <1>10, <1>12, <2>1
  <2>4. /\ Base(t, outs, new) /\ Inserted(ins, FALSE, stack, new, ins.next, b, t)
        /\ SameRest(outs, stack, new)
    BY <1>4, <1>6, <2>2, <2>3, PassedIn
  <2>5. runtime => Exact(t, outs, new, "no")
    <3> SUFFICES ASSUME runtime PROVE Exact(t, outs, new, "no")
      OBVIOUS
    <3>1. Len(new) = d
      BY <2>2 DEF PassedAt
    <3>2. Quiet(new)
      <4>1. \A e \in 1..d : new[e].kind = stack[e].kind
        BY <1>2, <1>4, <2>2, PassedFrames DEF Base
      <4> QED BY <3>1, <4>1, <1>1, <1>11 DEF Quiet
    <3>3. LenAll(t, new)
      <4>1. LenAll(ins, stack)
        BY <1>11, <1>12
      <4> QED BY <4>1, <2>4 DEF LenAll, Inserted
    <3>4. LenAll(outs, new)
      <4>1. LenAll(outs, stack)
        BY <1>11, <1>12
      <4> QED BY <4>1, <2>4 DEF LenAll, SameRest
    <3> QED BY <3>2, <3>3, <3>4, QuietExact
  <2> QED BY <1>8, <2>1, <2>4, <2>5, StepFine
<1>15. CASE out
  <2>1. s = outs /\ out_buffers' = t /\ in_buffers' = ins /\ out = TRUE
    BY <1>10, <1>12, <1>15 DEF Slab
  <2>2. PassedAt(stack, d, [out |-> TRUE, handle |-> outs.next, rest |-> b.len], new)
    BY <2>1, <1>9
  <2>3. Base(ins, outs, stack) /\ t = SlabInsert(outs, b)
    BY <1>2, <1>10, <1>12, <2>1
  <2>4. /\ Base(ins, t, new) /\ Inserted(outs, TRUE, stack, new, outs.next, b, t)
        /\ SameRest(ins, stack, new)
    BY <1>4, <1>6, <2>2, <2>3, PassedOut
  <2>5. runtime => Exact(ins, t, new, "no")
    <3> SUFFICES ASSUME runtime PROVE Exact(ins, t, new, "no")
      OBVIOUS
    <3>1. Len(new) = d
      BY <2>2 DEF PassedAt
    <3>2. Quiet(new)
      <4>1. \A e \in 1..d : new[e].kind = stack[e].kind
        BY <1>2, <1>4, <2>2, PassedFrames DEF Base
      <4> QED BY <3>1, <4>1, <1>1, <1>11 DEF Quiet
    <3>3. LenAll(t, new)
      <4>1. LenAll(outs, stack)
        BY <1>11, <1>12
      <4> QED BY <4>1, <2>4 DEF LenAll, Inserted
    <3>4. LenAll(ins, new)
      <4>1. LenAll(ins, stack)
        BY <1>11, <1>12
      <4> QED BY <4>1, <2>4 DEF LenAll, SameRest
    <3> QED BY <3>2, <3>3, <3>4, QuietExact
  <2> QED BY <1>8, <2>1, <2>4, <2>5, StepFine
<1> QED BY <1>14, <1>15

LEMMA PushFine ==
    ASSUME IInv, NEW out \in BOOLEAN, NEW raw \in BOOLEAN, NEW n \in Lengths,
           Push(out, raw, n), UNCHANGED runtime
    PROVE  IInv'
<1>1. /\ unwinding = "no" /\ Depth > 0 /\ Top.kind = "wrapper"
      /\ Cardinality(LiveBuffers) < MaxBuffers
  BY DEF Push, TopIs
<1>2. CASE Locked
  <2>1. unwinding' = "abort" /\ UNCHANGED <<slabs, stack>>
    BY <1>2 DEF Push
  <2>2. in_buffers' = in_buffers /\ out_buffers' = out_buffers /\ stack' = stack
    BY <2>1 DEF slabs
  <2>3. ~runtime
    BY <1>1, <1>2, QuietNow DEF Shims
  <2>4. Base(in_buffers, out_buffers, stack)
    BY Now
  <2> QED BY <2>1, <2>2, <2>3, <2>4, StepFine
<1>3. CASE ~Locked
  <2>1. PICK s : s = Slab(out)
    OBVIOUS
  <2>2. PICK b : b = [len |-> n, raw |-> raw, ptr |-> <<Depth, Len(Top.buffers) + 1>>]
    OBVIOUS
  <2>3. /\ stack' = [stack EXCEPT ![Depth].buffers =
                         Append(@, [out |-> out, handle |-> s.next, rest |-> n])]
        /\ in_buffers' = IF out THEN in_buffers ELSE SlabInsert(s, b)
        /\ out_buffers' = IF out THEN SlabInsert(s, b) ELSE out_buffers
        /\ unwinding' = unwinding
    BY <1>3, <2>1, <2>2 DEF Push, Slab
  <2> QED BY <1>1, <1>3, <2>1, <2>2, <2>3, Passing
<1> QED BY <1>2, <1>3

\* An intrinsic that is granted, in a guest on the runtime.
LEMMA GrantedQuiet ==
    ASSUME IInv, runtime, NEW out \in BOOLEAN, NEW h, NEW n, Granted(out, h, n), Own(out, h)
    PROVE  /\ Quiet(stack) /\ LenAll(in_buffers, stack) /\ LenAll(out_buffers, stack)
           /\ Depth > 0 /\ Top.kind = "wasm" /\ FrameOf(Slab(out), h) = Depth - 1
<1>1. unwinding = "no" /\ Depth > 0 /\ Top.kind = "wasm"
  BY DEF Granted, GuestRuns, Own, TopIs
<1>2. Quiet(stack) /\ LenAll(in_buffers, stack) /\ LenAll(out_buffers, stack)
  BY <1>1, QuietNow DEF Shims
<1>3. /\ WasmBelow(stack) /\ Depth \in Nat /\ Depth = Len(stack) /\ stack \in Seq(FrameRecord)
      /\ Owned(FALSE, in_buffers, stack) /\ Owned(TRUE, out_buffers, stack)
  BY Now
<1>4. Depth \in 1..Len(stack) /\ stack[Depth].kind = "wasm"
  BY <1>1, <1>3 DEF Top
<1>5. Depth > 1 /\ stack[Depth - 1].kind = "wrapper"
  BY <1>3, <1>4 DEF WasmBelow
<1>6. PICK k \in DOMAIN stack[Depth - 1].buffers :
          stack[Depth - 1].buffers[k].out = out /\ stack[Depth - 1].buffers[k].handle = h
  BY DEF Own
<1>7. PICK d \in Nat : d = Depth - 1 /\ d \in 1..Len(stack)
  BY <1>3, <1>5
<1>8. stack[d].kind = "wrapper" /\ stack[d].buffers \in Seq(Passed)
  <2>1. stack[d] \in FrameRecord /\ stack[d].kind = "wrapper"
    BY <1>3, <1>5, <1>7
  <2> QED BY <2>1, FrameFields
<1>9. k \in Nat /\ IsBuffer(stack, d, k)
  BY <1>6, <1>7, <1>8 DEF IsBuffer
<1>10. FrameOf(Slab(out), h) = d
  <2>1. stack[d].buffers[k].out = out /\ stack[d].buffers[k].handle = h
    BY <1>6, <1>7
  <2>2. CASE out = FALSE
    <3>1. FrameOf(in_buffers, stack[d].buffers[k].handle) = d
      BY <2>1, <2>2, <1>3, <1>9 DEF Owned
    <3> QED BY <2>1, <2>2, <3>1 DEF Slab
  <2>3. CASE out = TRUE
    <3>1. FrameOf(out_buffers, stack[d].buffers[k].handle) = d
      BY <2>1, <2>3, <1>3, <1>9 DEF Owned
    <3> QED BY <2>1, <2>3, <3>1 DEF Slab
  <2> QED BY <2>2, <2>3
<1> QED BY <1>1, <1>2, <1>7, <1>10

\* The pointers of the buffers change nothing of where the frames are.
LEMMA AdvancedQuiet ==
    ASSUME NEW stk \in Seq(FrameRecord), NEW s, SlabFine(s), NEW out, Owned(out, s, stk),
           NEW h \in Allocated(s), NEW n \in Nat, Quiet(stk)
    PROVE  Quiet(Advanced(stk, FrameOf(s, h), IndexOf(s, h), n))
<1>1. PICK d, k : d = FrameOf(s, h) /\ k = IndexOf(s, h)
  OBVIOUS
<1>2. d \in Nat /\ k \in Nat /\ IsBuffer(stk, d, k)
  BY <1>1, EntryLinked
<1>3. PICK new : new = Advanced(stk, d, k, n)
  OBVIOUS
<1>4. AdvancedAt(stk, d, k, n, new)
  BY <1>2, <1>3, AdvancedStack
<1>5. Quiet(new)
  BY <1>2, <1>4 DEF AdvancedAt, Quiet, IsBuffer, Shims
<1> QED BY <1>1, <1>3, <1>5

LEMMA InReadRawFine ==
    ASSUME IInv, NEW h, NEW n \in 0..MaxLen, InReadRaw(h, n), runtime => Own(FALSE, h),
           UNCHANGED runtime
    PROVE  IInv'
<1>1. PICK ins, outs : ins = in_buffers /\ outs = out_buffers
  OBVIOUS
<1>2. /\ h \in Allocated(ins) /\ ins.storage[h].buffer.raw /\ n <= ins.storage[h].buffer.len
      /\ n \in Nat /\ unwinding = "no" /\ unwinding' = unwinding /\ out_buffers' = outs
      /\ Granted(FALSE, h, n)
  BY <1>1, BufferAssumption DEF InReadRaw, Granted, GuestRuns, Get, Slab
<1>3. PICK t : t = Consume(ins, h, n)
  OBVIOUS
<1>4. PICK new : new = Advanced(stack, FrameOf(ins, h), IndexOf(ins, h), n)
  OBVIOUS
<1>5. in_buffers' = t /\ stack' = new
  BY <1>1, <1>3, <1>4 DEF InReadRaw, Advance, Advanced, Get, Slab, FrameOf, IndexOf
<1>6. /\ Base(ins, outs, stack) /\ stack \in Seq(FrameRecord) /\ SlabFine(ins)
      /\ Owned(FALSE, ins, stack)
  BY <1>1, Now
<1>7. /\ Base(t, outs, new) /\ Drained(ins, FALSE, stack, h, n, t)
      /\ Copied(ins, stack, h, n, t, new)
      /\ SameRest(outs, stack, new)
  BY ONLY <1>2, <1>3, <1>4, <1>6, CopiedIn
<1>8. runtime => Exact(t, outs, new, "no")
  <2> SUFFICES ASSUME runtime PROVE Exact(t, outs, new, "no")
    OBVIOUS
  <2>1. Quiet(stack) /\ LenAll(ins, stack) /\ LenAll(outs, stack)
    BY <1>1, <1>2, GrantedQuiet
  <2>2. Quiet(new)
    BY ONLY <2>1, <1>2, <1>4, <1>6, AdvancedQuiet
  <2>3. LenAll(t, new)
    BY <2>1, <1>2, <1>7 DEF LenAll, Drained, Copied
  <2>4. LenAll(outs, new)
    BY <2>1, <1>7 DEF LenAll, SameRest
  <2> QED BY <2>2, <2>3, <2>4, QuietExact
<1> QED BY <1>2, <1>5, <1>7, <1>8, StepFine

LEMMA OutWriteRawFine ==
    ASSUME IInv, NEW h, NEW n \in 0..MaxLen, OutWriteRaw(h, n), runtime => Own(TRUE, h),
           UNCHANGED runtime
    PROVE  IInv'
<1>1. PICK ins, outs : ins = in_buffers /\ outs = out_buffers
  OBVIOUS
<1>2. /\ h \in Allocated(outs) /\ outs.storage[h].buffer.raw /\ n <= outs.storage[h].buffer.len
      /\ n \in Nat /\ unwinding = "no" /\ unwinding' = unwinding /\ in_buffers' = ins
      /\ Granted(TRUE, h, n)
  BY <1>1, BufferAssumption DEF OutWriteRaw, Granted, GuestRuns, Get, Slab
<1>3. PICK t : t = Consume(outs, h, n)
  OBVIOUS
<1>4. PICK new : new = Advanced(stack, FrameOf(outs, h), IndexOf(outs, h), n)
  OBVIOUS
<1>5. out_buffers' = t /\ stack' = new
  BY <1>1, <1>3, <1>4 DEF OutWriteRaw, Advance, Advanced, Get, Slab, FrameOf, IndexOf
<1>6. /\ Base(ins, outs, stack) /\ stack \in Seq(FrameRecord) /\ SlabFine(outs)
      /\ Owned(TRUE, outs, stack)
  BY <1>1, Now
<1>7. /\ Base(ins, t, new) /\ Drained(outs, TRUE, stack, h, n, t)
      /\ Copied(outs, stack, h, n, t, new)
      /\ SameRest(ins, stack, new)
  BY ONLY <1>2, <1>3, <1>4, <1>6, CopiedOut
<1>8. runtime => Exact(ins, t, new, "no")
  <2> SUFFICES ASSUME runtime PROVE Exact(ins, t, new, "no")
    OBVIOUS
  <2>1. Quiet(stack) /\ LenAll(ins, stack) /\ LenAll(outs, stack)
    BY <1>1, <1>2, GrantedQuiet
  <2>2. Quiet(new)
    BY ONLY <2>1, <1>2, <1>4, <1>6, AdvancedQuiet
  <2>3. LenAll(t, new)
    BY <2>1, <1>2, <1>7 DEF LenAll, Drained, Copied
  <2>4. LenAll(ins, new)
    BY <2>1, <1>7 DEF LenAll, SameRest
  <2> QED BY <2>2, <2>3, <2>4, QuietExact
<1> QED BY <1>2, <1>5, <1>7, <1>8, StepFine

LEMMA InReadGeneralFine ==
    ASSUME IInv, NEW h, NEW n \in 0..MaxLen, InReadGeneral(h, n), runtime => Own(FALSE, h),
           UNCHANGED runtime
    PROVE  IInv'
<1>1. PICK f : f = [kind |-> "in_read", handle |-> h, left |-> n, processed |-> 0,
                    pending |-> FALSE]
  OBVIOUS
<1>2. PICK ins, outs : ins = in_buffers /\ outs = out_buffers
  OBVIOUS
<1>3. /\ h \in Allocated(ins) /\ ~ins.storage[h].buffer.raw /\ n <= ins.storage[h].buffer.len
      /\ n \in Nat /\ unwinding = "no" /\ unwinding' = unwinding /\ stack' = Append(stack, f)
      /\ Depth < MaxDepth /\ in_buffers' = ins /\ out_buffers' = outs /\ ~Locked
      /\ Granted(FALSE, h, n)
  BY <1>1, <1>2, BufferAssumption
     DEF InReadGeneral, Granted, GuestRuns, Get, Slab, Pushed, slabs
<1>4. /\ Base(ins, outs, stack) /\ stack \in Seq(FrameRecord) /\ SlabFine(ins)
      /\ Owned(FALSE, ins, stack) /\ Depth = Len(stack) /\ Depth \in Nat
  BY <1>2, Now
<1>5. h \in Nat
  BY <1>3, <1>4, EntryLinked
<1>6. /\ f \in FrameRecord /\ f.kind = "in_read" /\ f.handle = h /\ f.left = n
      /\ f.processed = 0 /\ ~f.pending
  BY <1>1, <1>3, <1>5 DEF FrameRecord, ReadFrame
<1>7. Base(ins, outs, Append(stack, f))
  <2>1. \A d \in 1..Len(stack) : stack[d].kind # "out_write"
    BY <1>3, <1>4 DEF Locked
  <2> QED BY <1>3, <1>4, <1>6, <2>1, PushedFrame
<1>8. runtime => Exact(ins, outs, Append(stack, f), "no")
  <2> SUFFICES ASSUME runtime PROVE Exact(ins, outs, Append(stack, f), "no")
    OBVIOUS
  <2>1. /\ Quiet(stack) /\ LenAll(ins, stack) /\ LenAll(outs, stack)
        /\ Depth > 0 /\ Top.kind = "wasm" /\ FrameOf(Slab(FALSE), h) = Depth - 1
    BY <1>2, <1>3, GrantedQuiet
  <2>2. FrameOf(ins, h) = Depth - 1 /\ stack[Depth].kind = "wasm"
    BY <2>1, <1>2 DEF Slab, Top
  <2>3. f.kind \in Shims
    BY <1>6 DEF Shims
  <2> QED BY <1>3, <1>4, <1>6, <2>1, <2>2, <2>3, ShimPushed
<1> QED BY <1>3, <1>7, <1>8, StepFine

LEMMA OutWriteGeneralFine ==
    ASSUME IInv, NEW h, NEW n \in 0..MaxLen, OutWriteGeneral(h, n), runtime => Own(TRUE, h),
           UNCHANGED runtime
    PROVE  IInv'
<1>1. PICK f : f = [kind |-> "out_write", handle |-> h, left |-> n, want |-> n]
  OBVIOUS
<1>2. PICK ins, outs : ins = in_buffers /\ outs = out_buffers
  OBVIOUS
<1>3. /\ h \in Allocated(outs) /\ ~outs.storage[h].buffer.raw /\ n <= outs.storage[h].buffer.len
      /\ n \in Nat /\ unwinding = "no" /\ unwinding' = unwinding /\ stack' = Append(stack, f)
      /\ Depth < MaxDepth /\ in_buffers' = ins /\ out_buffers' = outs /\ ~Locked
      /\ Granted(TRUE, h, n)
  BY <1>1, <1>2, BufferAssumption
     DEF OutWriteGeneral, Granted, GuestRuns, Get, Slab, Pushed, slabs
<1>4. /\ Base(ins, outs, stack) /\ stack \in Seq(FrameRecord) /\ SlabFine(outs)
      /\ Owned(TRUE, outs, stack) /\ Depth = Len(stack) /\ Depth \in Nat
  BY <1>2, Now
<1>5. h \in Nat
  BY <1>3, <1>4, EntryLinked
<1>6. /\ f \in FrameRecord /\ f.kind = "out_write" /\ f.handle = h /\ f.left = n /\ f.want = n
  BY <1>1, <1>3, <1>5 DEF FrameRecord, WriteFrame
<1>7. Base(ins, outs, Append(stack, f))
  <2>1. \A d \in 1..Len(stack) : stack[d].kind # "out_write"
    BY <1>3, <1>4 DEF Locked
  <2> QED BY <1>3, <1>4, <1>6, <2>1, PushedFrame
<1>8. runtime => Exact(ins, outs, Append(stack, f), "no")
  <2> SUFFICES ASSUME runtime PROVE Exact(ins, outs, Append(stack, f), "no")
    OBVIOUS
  <2>1. /\ Quiet(stack) /\ LenAll(ins, stack) /\ LenAll(outs, stack)
        /\ Depth > 0 /\ Top.kind = "wasm" /\ FrameOf(Slab(TRUE), h) = Depth - 1
    BY <1>2, <1>3, GrantedQuiet
  <2>2. FrameOf(outs, h) = Depth - 1 /\ stack[Depth].kind = "wasm"
    BY <2>1, <1>2 DEF Slab, Top
  <2>3. f.kind \in Shims
    BY <1>6 DEF Shims
  <2> QED BY <1>3, <1>4, <1>6, <2>1, <2>2, <2>3, ShimPushed
<1> QED BY <1>3, <1>7, <1>8, StepFine

\* What becomes of a frame whose fields are assigned one by one.
Reading(h, l, p, q) ==
    [kind |-> "in_read", handle |-> h, left |-> l, processed |-> p, pending |-> q]
Writing(h, l, w) == [kind |-> "out_write", handle |-> h, left |-> l, want |-> w]

Replaced(stk, n, f) == [stk EXCEPT ![n] = f]
TakenItem(stk, n) == [stk EXCEPT ![n].pending = TRUE]
DoneItem(stk, n) ==
    [stk EXCEPT ![n].pending = FALSE, ![n].left = @ - 1, ![n].processed = @ + 1]
StoredItem(stk, n) == [stk EXCEPT ![n].left = @ - 1]

LEMMA ItemTaken ==
    ASSUME NEW stk, NEW n \in DOMAIN stk, NEW h, NEW l, NEW p, NEW q,
           stk[n] = Reading(h, l, p, q)
    PROVE  TakenItem(stk, n) = Replaced(stk, n, Reading(h, l, p, TRUE))
<1>1. [stk[n] EXCEPT !.pending = TRUE] = Reading(h, l, p, TRUE)
  <2>1. \A t : [stk[n] EXCEPT !.pending = t] = Reading(h, l, p, t)
    BY DEF Reading
  <2> QED BY <2>1
<1> QED BY <1>1 DEF TakenItem, Replaced

LEMMA AssignedTwice ==
    ASSUME NEW stk, NEW n \in DOMAIN stk, NEW a, NEW b
    PROVE  /\ [[stk EXCEPT ![n] = a] EXCEPT ![n] = b] = [stk EXCEPT ![n] = b]
           /\ [stk EXCEPT ![n] = a][n] = a /\ n \in DOMAIN [stk EXCEPT ![n] = a]
OBVIOUS

LEMMA ItemDone ==
    ASSUME NEW stk, NEW n \in DOMAIN stk, NEW h, NEW l, NEW p, NEW q,
           stk[n] = Reading(h, l, p, q)
    PROVE  DoneItem(stk, n) = Replaced(stk, n, Reading(h, l - 1, p + 1, FALSE))
<1> DEFINE g1 == Reading(h, l, p, FALSE)
           g2 == Reading(h, l - 1, p, FALSE)
           g3 == Reading(h, l - 1, p + 1, FALSE)
<1>1. /\ [stk[n] EXCEPT !.pending = FALSE] = g1 /\ stk[n].left = l /\ stk[n].processed = p
      /\ [g1 EXCEPT !.left = l - 1] = g2 /\ [g2 EXCEPT !.processed = p + 1] = g3
  <2>1. \A t : /\ [stk[n] EXCEPT !.pending = t] = Reading(h, l, p, t)
               /\ [Reading(h, l, p, t) EXCEPT !.left = l - 1] = Reading(h, l - 1, p, t)
               /\ [Reading(h, l - 1, p, t) EXCEPT !.processed = p + 1]
                      = Reading(h, l - 1, p + 1, t)
    BY DEF Reading
  <2>2. stk[n].left = l /\ stk[n].processed = p
    BY DEF Reading
  <2> QED BY <2>1, <2>2
<1> DEFINE s1 == [stk EXCEPT ![n] = g1]
           s2 == [s1 EXCEPT ![n] = g2]
           s3 == [s2 EXCEPT ![n] = g3]
<1> HIDE DEF g1, g2, g3
<1>2. s1[n] = g1 /\ n \in DOMAIN s1 /\ s2[n] = g2 /\ n \in DOMAIN s2
  BY AssignedTwice
<1>3. s2 = [stk EXCEPT ![n] = g2] /\ s3 = [stk EXCEPT ![n] = g3]
  <2>1. s2 = [stk EXCEPT ![n] = g2]
    BY AssignedTwice
  <2>2. s3 = [[stk EXCEPT ![n] = g2] EXCEPT ![n] = g3]
    BY <2>1
  <2> QED BY <2>1, <2>2, AssignedTwice
<1>4. DoneItem(stk, n) = s3
  BY <1>1, <1>2 DEF DoneItem
<1> QED BY <1>3, <1>4 DEF g3, Replaced

LEMMA ItemStored ==
    ASSUME NEW stk, NEW n \in DOMAIN stk, NEW h, NEW l, NEW w, stk[n] = Writing(h, l, w)
    PROVE  StoredItem(stk, n) = Replaced(stk, n, Writing(h, l - 1, w))
<1>1. [stk[n] EXCEPT !.left = stk[n].left - 1] = Writing(h, l - 1, w)
  BY DEF Writing
<1> QED BY <1>1 DEF StoredItem, Replaced

SameKinds(stk, new) == \A e \in 1..Len(stk) : new[e].kind = stk[e].kind

LEMMA AdvancedKinds ==
    ASSUME NEW stk \in Seq(FrameRecord), NEW s, SlabFine(s), NEW out, Owned(out, s, stk),
           NEW h \in Allocated(s), NEW n \in Nat
    PROVE  SameKinds(stk, Advanced(stk, FrameOf(s, h), IndexOf(s, h), n))
<1>1. PICK d, k : d = FrameOf(s, h) /\ k = IndexOf(s, h)
  OBVIOUS
<1>2. d \in Nat /\ k \in Nat /\ IsBuffer(stk, d, k)
  BY <1>1, EntryLinked
<1>3. PICK new : new = Advanced(stk, d, k, n)
  OBVIOUS
<1>4. AdvancedAt(stk, d, k, n, new)
  BY <1>2, <1>3, AdvancedStack
<1>5. SameKinds(stk, new)
  BY <1>2, <1>4 DEF AdvancedAt, IsBuffer, SameKinds
<1> QED BY <1>1, <1>3, <1>5

\* What in_read's shim works on.
LEMMA Reader ==
    ASSUME NEW ins, NEW outs, NEW stk, Base(ins, outs, stk), NEW n \in Nat, Len(stk) = n + 1,
           stk[n + 1].kind = "in_read"
    PROVE  /\ stk[n + 1].handle \in Allocated(ins) /\ ~ins.storage[stk[n + 1].handle].buffer.raw
           /\ (stk[n + 1].pending => stk[n + 1].left > 0)
           /\ RestOf(ins, stk, stk[n + 1].handle) \in Int
           /\ \E f : /\ stk[n + 1] = f /\ f \in FrameRecord
                     /\ f = [kind |-> "in_read", handle |-> f.handle, left |-> f.left,
                             processed |-> f.processed, pending |-> f.pending]
                     /\ f.handle \in Nat /\ f.left \in Nat /\ f.processed \in Nat
                     /\ f.pending \in BOOLEAN
<1>1. /\ stk \in Seq(FrameRecord) /\ SlabFine(ins) /\ Owned(FALSE, ins, stk)
      /\ ShimsFine(ins, outs, stk)
  BY DEF Base
<1>2. ReadFine(ins, stk, n + 1)
  <2>1. n + 1 \in 1..Len(stk)
    OBVIOUS
  <2> QED BY <1>1, <2>1 DEF ShimsFine
<1>3. stk[n + 1] \in FrameRecord
  BY <1>1
<1>4. stk[n + 1].handle \in Allocated(ins)
  BY <1>2 DEF ReadFine
<1>5. RestOf(ins, stk, stk[n + 1].handle) \in Int
  BY <1>1, <1>4, RestInteger
<1> QED BY <1>2, <1>3, <1>5, FrameFields DEF ReadFine

\* in_read's shim takes an item.
LEMMA TakingItem ==
    ASSUME IInv, UNCHANGED <<slabs, unwinding, runtime>>, unwinding = "no",
           NEW n \in Nat, Len(stack) = n + 1, NEW h \in Nat, NEW l \in Nat, NEW p \in Nat, l > 0,
           stack[n + 1] = Reading(h, l, p, FALSE),
           RestOf(in_buffers, stack, h) > 0,
           NEW mid, mid = Advanced(stack, FrameOf(in_buffers, h), IndexOf(in_buffers, h), 1),
           NEW f, f = Reading(h, l, p, TRUE),
           NEW new, new = Replaced(mid, n + 1, f), stack' = new
    PROVE  IInv'
<1>1. PICK ins, outs, stk : ins = in_buffers /\ outs = out_buffers /\ stk = stack
  OBVIOUS
<1>2. PICK top : top = stk[n + 1]
  OBVIOUS
<1>3. /\ top.kind = "in_read" /\ top.handle = h /\ top.left = l /\ top.processed = p
      /\ ~top.pending
  BY <1>1, <1>2 DEF Reading
<1>4. /\ f.kind = "in_read" /\ f.handle = h /\ f.left = l /\ f.processed = p /\ f.pending
      /\ f \in FrameRecord
  BY DEF FrameRecord, ReadFrame, Reading
<1>5. /\ Base(ins, outs, stk) /\ stk \in Seq(FrameRecord) /\ SlabFine(ins) /\ SlabFine(outs)
      /\ Owned(FALSE, ins, stk) /\ Owned(TRUE, outs, stk) /\ Len(stk) = n + 1
      /\ runtime => Exact(ins, outs, stk, "no")
  BY <1>1, Now
<1>6. h \in Allocated(ins) /\ ~ins.storage[h].buffer.raw /\ RestOf(ins, stk, h) > 0
  BY <1>1, <1>2, <1>3, <1>5, Reader
<1>7. mid = Advanced(stk, FrameOf(ins, h), IndexOf(ins, h), 1)
  BY <1>1
<1>8. /\ Base(ins, outs, mid) /\ Len(mid) = n + 1
      /\ \A e \in 1..(n + 1) : stk[e].kind # "wrapper" => mid[e] = stk[e]
      /\ \A i : Taken(mid, i) = Taken(stk, i)
      /\ MovedOn(ins, stk, h, 1, mid) /\ SameRest(outs, stk, mid)
  BY ONLY <1>5, <1>6, <1>7, AdvancedIter
<1>9. \A e \in 1..(n + 1) : mid[e].kind = stk[e].kind
  <2>1. SameKinds(stk, Advanced(stk, FrameOf(ins, h), IndexOf(ins, h), 1))
    BY ONLY <1>5, <1>6, AdvancedKinds
  <2> QED BY ONLY <2>1, <1>5, <1>7 DEF SameKinds
<1>10. mid[n + 1] = top
  <2>1. n + 1 \in 1..(n + 1)
    OBVIOUS
  <2> QED BY ONLY <2>1, <1>2, <1>3, <1>8
<1>11. ASSUME NEW i \in Allocated(ins), ~ins.storage[i].buffer.raw
       PROVE  RestOf(ins, mid, i) + Taken(mid, i) - TakenBy(top, i) + TakenBy(f, i)
                  <= ins.storage[i].buffer.len
  <2>1. /\ RestOf(ins, stk, i) \in Int /\ Taken(stk, i) \in Nat
        /\ ins.storage[i].buffer.len \in Nat
    BY <1>5, RestInteger, TakenNatural, EntryLinked
  <2>2. RestOf(ins, stk, i) + Taken(stk, i) <= ins.storage[i].buffer.len
    BY <1>5, <1>11 DEF Base, IterBacked
  <2>3. Taken(mid, i) = Taken(stk, i)
    BY <1>8
  <2>4. CASE i = h
    <3>1. RestOf(ins, mid, i) = RestOf(ins, stk, i) - 1
      BY <2>4, <1>8 DEF MovedOn
    <3>2. TakenBy(top, i) = p /\ TakenBy(f, i) = p + 1
      BY ONLY <2>4, <1>3, <1>4, p \in Nat DEF TakenBy, Reads
    <3> QED BY ONLY <2>1, <2>2, <2>3, <3>1, <3>2, p \in Nat
  <2>5. CASE i # h
    <3>1. RestOf(ins, mid, i) = RestOf(ins, stk, i)
      BY <2>5, <1>8 DEF MovedOn
    <3>2. TakenBy(top, i) = 0 /\ TakenBy(f, i) = 0
      BY ONLY <2>5, <1>3, <1>4 DEF TakenBy, Reads
    <3> QED BY ONLY <2>1, <2>2, <2>3, <3>1, <3>2
  <2> QED BY <2>4, <2>5
<1>12. /\ Base(ins, outs, new) /\ SameBuffers(mid, new) /\ Len(new) = n + 1
       /\ \A d \in 1..(n + 1) : new[d] = IF d = n + 1 THEN f ELSE mid[d]
  <2>1. ReplacedAt(mid, n + 1, f, new)
    <3>1. mid \in Seq(FrameRecord) /\ n + 1 \in 1..Len(mid)
      BY <1>8 DEF Base
    <3>2. ReplacedAt(mid, n + 1, f, [mid EXCEPT ![n + 1] = f])
      BY ONLY <3>1, <1>4, ReplacedFrame
    <3>3. new = [mid EXCEPT ![n + 1] = f]
      BY DEF Replaced
    <3> QED BY ONLY <3>2, <3>3
  <2>2. GoesOn(ins, mid, n, f)
    BY <1>3, <1>4, <1>10, <1>11 DEF GoesOn
  <2>3. Base(ins, outs, new) /\ SameBuffers(mid, new)
    BY ONLY n \in Nat, <1>4, <1>8, <2>1, <2>2, TopChanged
  <2> QED BY <2>1, <2>3, <1>8 DEF ReplacedAt
<1>13. runtime => Exact(ins, outs, new, "no")
  <2> SUFFICES ASSUME runtime PROVE Exact(ins, outs, new, "no")
    OBVIOUS
  <2>1. Exact(ins, outs, stk, "no") /\ stk[n + 1].kind = "in_read" /\ h = stk[n + 1].handle
    BY <1>2, <1>3, <1>5
  <2>2. /\ new[n + 1] = f /\ \A d \in 1..n : new[d].kind = stk[d].kind
    <3>1. n + 1 \in 1..(n + 1) /\ \A d \in 1..n : d \in 1..(n + 1) /\ d # n + 1
      OBVIOUS
    <3> QED BY ONLY <3>1, <1>9, <1>12
  <2>3. /\ \A i \in Allocated(ins) : RestOf(ins, new, i) = RestOf(ins, mid, i)
        /\ \A i \in Allocated(outs) : RestOf(outs, new, i) = RestOf(outs, mid, i)
    <3>1. Owned(FALSE, ins, mid) /\ Owned(TRUE, outs, mid)
      BY <1>8 DEF Base
    <3> QED BY ONLY <3>1, <1>5, <1>12, BuffersKept
  <2>4. SameRest(outs, stk, new)
    BY <2>3, <1>8 DEF SameRest
  <2>5. \A i \in Allocated(ins) : i # h => RestOf(ins, new, i) = RestOf(ins, stk, i)
    BY <2>3, <1>8 DEF MovedOn
  <2>6. /\ stk[n + 1].left + stk[n + 1].processed <= ins.storage[h].buffer.len
        /\ ins.storage[h].buffer.len = RestOf(ins, stk, h) + p
    <3>1. n + 1 \in 1..Len(stk)
      BY <1>5
    <3>2. ReadExact(ins, stk, n + 1)
      BY <2>1, <3>1 DEF Exact, ShimsExact
    <3>3. TakenBy(stk[n + 1], h) = p
      BY ONLY <1>2, <1>3, p \in Nat DEF TakenBy, Reads
    <3> QED BY <2>1, <3>2, <3>3 DEF ReadExact
  <2>7. new[n + 1].left + new[n + 1].processed <= ins.storage[h].buffer.len
    BY ONLY <2>2, <2>6, <1>2, <1>3, <1>4
  <2>8. ins.storage[h].buffer.len = RestOf(ins, new, h) + TakenBy(new[n + 1], h)
    <3>1. RestOf(ins, new, h) = RestOf(ins, stk, h) - 1
      BY <2>3, <1>6, <1>8 DEF MovedOn
    <3>2. TakenBy(new[n + 1], h) = p + 1
      BY ONLY <2>2, <1>4, p \in Nat DEF TakenBy, Reads
    <3>3. RestOf(ins, stk, h) \in Int
      BY <1>5, <1>6, RestInteger
    <3> QED BY ONLY <2>6, <3>1, <3>2, <3>3, p \in Nat
  <2>9. new[n + 1].kind = "in_read" /\ new[n + 1].handle = stk[n + 1].handle
    BY <2>1, <2>2, <1>4
  <2> QED BY ONLY n \in Nat, <1>5, <1>12, <2>1, <2>2, <2>4, <2>5, <2>7, <2>8, <2>9, ReadMoved
<1>14. in_buffers' = ins /\ out_buffers' = outs /\ unwinding' = "no" /\ stack' = new
  BY <1>1 DEF slabs
<1> QED BY <1>12, <1>13, <1>14, StepFine

LEMMA NextItemFine == ASSUME IInv, NextItem, UNCHANGED runtime PROVE IInv'
<1>1. /\ unwinding = "no" /\ Depth > 0 /\ Top.kind = "in_read" /\ ~Top.pending /\ Top.left > 0
      /\ UNCHANGED slabs
  BY DEF NextItem, TopIs
<1>2. PICK n \in Nat : /\ Depth = n + 1 /\ Len(stack) = n + 1 /\ Top = stack[n + 1]
                       /\ stack[n + 1] \in FrameRecord
  BY <1>1, Innermost
<1>3. /\ Base(in_buffers, out_buffers, stack) /\ stack[n + 1].kind = "in_read"
      /\ runtime => Exact(in_buffers, out_buffers, stack, "no")
  BY <1>1, <1>2, Now
<1>4. PICK f : /\ stack[n + 1] = f /\ f \in FrameRecord
               /\ f = [kind |-> "in_read", handle |-> f.handle, left |-> f.left,
                       processed |-> f.processed, pending |-> f.pending]
               /\ f.handle \in Nat /\ f.left \in Nat /\ f.processed \in Nat
               /\ f.pending \in BOOLEAN
  BY <1>2, <1>3, Reader
<1>5. PICK h \in Nat, l \in Nat, p \in Nat :
          h = f.handle /\ l = f.left /\ p = f.processed /\ l > 0
  BY <1>1, <1>2, <1>4
<1>6. f = Reading(h, l, p, FALSE) /\ ~f.pending
  <2>1. ~f.pending /\ f.pending = FALSE
    BY <1>1, <1>2, <1>4
  <2> QED BY <2>1, <1>4, <1>5 DEF Reading
<1>7. /\ h = stack[n + 1].handle /\ h \in Allocated(in_buffers)
      /\ ~in_buffers.storage[h].buffer.raw /\ RestOf(in_buffers, stack, h) \in Int
  BY <1>2, <1>3, <1>4, <1>5, Reader
<1>8. Rest(FALSE, Top.handle) = RestOf(in_buffers, stack, h)
  BY <1>2, <1>7 DEF Rest, RestOf, Get, Slab, FrameOf, IndexOf
<1>9. CASE RestOf(in_buffers, stack, h) > 0
  <2>1. PICK mid : mid = Advanced(stack, FrameOf(in_buffers, h), IndexOf(in_buffers, h), 1)
    OBVIOUS
  <2>2. PICK g : g = Reading(h, l, p, TRUE)
    OBVIOUS
  <2>3. PICK new : new = Replaced(mid, n + 1, g)
    OBVIOUS
  <2>4. stack' = TakenItem(mid, n + 1) /\ unwinding' = unwinding
    BY <1>2, <1>7, <1>8, <1>9, <2>1
       DEF NextItem, Advance, Advanced, Get, Slab, FrameOf, IndexOf, TakenItem
  <2>5. mid[n + 1] = Reading(h, l, p, FALSE) /\ n + 1 \in DOMAIN mid
    <3>1. /\ Base(in_buffers, out_buffers, mid) /\ Len(mid) = Len(stack)
          /\ \A e \in 1..Len(stack) : stack[e].kind # "wrapper" => mid[e] = stack[e]
      BY ONLY <1>3, <1>7, <1>9, <2>1, AdvancedIter
    <3>2. mid \in Seq(FrameRecord)
      BY <3>1 DEF Base
    <3>3. n + 1 \in 1..Len(stack)
      BY <1>2
    <3>4. mid[n + 1] = f
      BY <3>1, <3>3, <1>3, <1>4
    <3> QED BY <3>1, <3>2, <3>3, <3>4, <1>6
  <2>6. stack' = new
    <3>1. TakenItem(mid, n + 1) = Replaced(mid, n + 1, g)
      BY ONLY <2>2, <2>5, ItemTaken
    <3> QED BY <2>3, <2>4, <3>1
  <2>7. stack[n + 1] = Reading(h, l, p, FALSE)
    BY <1>4, <1>6
  <2>8. UNCHANGED <<slabs, unwinding, runtime>>
    BY <1>1, <2>4
  <2>9. IInv /\ unwinding = "no" /\ Len(stack) = n + 1 /\ n \in Nat
    BY <1>1, <1>2
  <2> QED BY ONLY <1>5, <1>9, <2>1, <2>2, <2>3, <2>6, <2>7, <2>8, <2>9, TakingItem
<1>10. CASE ~(RestOf(in_buffers, stack, h) > 0)
  <2>1. unwinding' = "panic" /\ stack' = stack
    BY <1>8, <1>10 DEF NextItem
  <2>2. ~runtime
    <3> SUFFICES ASSUME runtime PROVE FALSE
      OBVIOUS
    <3>1. n + 1 \in 1..Len(stack)
      BY <1>2
    <3>2. ReadExact(in_buffers, stack, n + 1)
      BY <1>3, <3>1 DEF Exact, ShimsExact
    <3>3. TakenBy(stack[n + 1], h) = p
      <4>1. /\ stack[n + 1].kind = "in_read" /\ stack[n + 1].handle = h
            /\ stack[n + 1].processed = p /\ ~stack[n + 1].pending /\ p \in Nat
        BY <1>3, <1>4, <1>5, <1>6
      <4> QED BY ONLY <4>1 DEF TakenBy, Reads
    <3>4. /\ l + p <= in_buffers.storage[h].buffer.len
          /\ in_buffers.storage[h].buffer.len = RestOf(in_buffers, stack, h) + p
      BY <3>2, <3>3, <1>4, <1>5, <1>7 DEF ReadExact
    <3> QED BY <3>4, <1>5, <1>7, <1>10
  <2>3. in_buffers' = in_buffers /\ out_buffers' = out_buffers
    BY <1>1 DEF slabs
  <2> QED BY <2>1, <2>2, <2>3, <1>3, StepFine
<1> QED BY <1>9, <1>10

\* A shim's frame changes and nothing else.
LEMMA ShimMoves ==
    ASSUME IInv, UNCHANGED <<slabs, unwinding, runtime>>, unwinding = "no",
           NEW n \in Nat, Len(stack) = n + 1, stack[n + 1].kind = "in_read",
           NEW h, h = stack[n + 1].handle,
           NEW f \in FrameRecord, f.kind = "in_read", f.handle = h, f.pending => f.left > 0,
           TakenBy(f, h) = TakenBy(stack[n + 1], h),
           f.left + f.processed = stack[n + 1].left + stack[n + 1].processed,
           stack' = Replaced(stack, n + 1, f)
    PROVE  IInv'
<1>1. PICK new : new = Replaced(stack, n + 1, f)
  OBVIOUS
<1>2. /\ Base(in_buffers, out_buffers, stack) /\ stack \in Seq(FrameRecord)
      /\ SlabFine(in_buffers) /\ SlabFine(out_buffers)
      /\ Owned(FALSE, in_buffers, stack) /\ Owned(TRUE, out_buffers, stack)
      /\ runtime => Exact(in_buffers, out_buffers, stack, "no")
  BY Now
<1>3. ReplacedAt(stack, n + 1, f, new)
  <2>1. n + 1 \in 1..Len(stack)
    OBVIOUS
  <2>2. ReplacedAt(stack, n + 1, f, [stack EXCEPT ![n + 1] = f])
    BY ONLY <1>2, <2>1, f \in FrameRecord, ReplacedFrame
  <2> QED BY <1>1, <2>2 DEF Replaced
<1>4. \A i : TakenBy(f, i) = TakenBy(stack[n + 1], i)
  <2> SUFFICES ASSUME NEW i PROVE TakenBy(f, i) = TakenBy(stack[n + 1], i)
    OBVIOUS
  <2>1. CASE i = h
    BY <2>1
  <2>2. CASE i # h
    BY <2>2 DEF TakenBy, Reads
  <2> QED BY <2>1, <2>2
<1>5. GoesOn(in_buffers, stack, n, f)
  <2>1. ASSUME NEW i \in Allocated(in_buffers), ~in_buffers.storage[i].buffer.raw
        PROVE  RestOf(in_buffers, stack, i) + Taken(stack, i) - TakenBy(stack[n + 1], i)
                   + TakenBy(f, i) <= in_buffers.storage[i].buffer.len
    <3>1. /\ RestOf(in_buffers, stack, i) \in Int /\ Taken(stack, i) \in Nat
      BY <1>2, RestInteger, TakenNatural
    <3>2. RestOf(in_buffers, stack, i) + Taken(stack, i) <= in_buffers.storage[i].buffer.len
      BY <1>2, <2>1 DEF Base, IterBacked
    <3>3. TakenBy(stack[n + 1], i) \in Nat /\ TakenBy(f, i) = TakenBy(stack[n + 1], i)
      <4>1. stack[n + 1] \in FrameRecord
        BY <1>2
      <4> QED BY <4>1, <1>4, TakenByNatural
    <3>4. in_buffers.storage[i].buffer.len \in Nat
      BY <1>2, EntryLinked
    <3> QED BY ONLY <3>1, <3>2, <3>3, <3>4
  <2> QED BY <2>1 DEF GoesOn
<1>6. Base(in_buffers, out_buffers, new) /\ SameBuffers(stack, new)
  BY ONLY <1>2, <1>3, <1>5, f \in FrameRecord, n \in Nat, Len(stack) = n + 1, TopChanged
<1>7. runtime => Exact(in_buffers, out_buffers, new, "no")
  <2> SUFFICES ASSUME runtime PROVE Exact(in_buffers, out_buffers, new, "no")
    OBVIOUS
  <2>1. Exact(in_buffers, out_buffers, stack, "no")
    BY <1>2
  <2>2. /\ new[n + 1] = f /\ Len(new) = n + 1 /\ \A d \in 1..n : new[d].kind = stack[d].kind
    <3>1. \A d \in 1..n : d \in 1..(n + 1) /\ d # n + 1
      OBVIOUS
    <3> QED BY <3>1, <1>3 DEF ReplacedAt
  <2>3. /\ \A i \in Allocated(in_buffers) : RestOf(in_buffers, new, i) = RestOf(in_buffers, stack, i)
        /\ \A i \in Allocated(out_buffers) : RestOf(out_buffers, new, i) = RestOf(out_buffers, stack, i)
    BY ONLY <1>2, <1>6, BuffersKept
  <2>4. SameRest(out_buffers, stack, new)
    BY <2>3 DEF SameRest
  <2>5. h \in Allocated(in_buffers)
    BY <1>2, Reader
  <2>6. ReadExact(in_buffers, stack, n + 1)
    <3>1. n + 1 \in 1..Len(stack)
      OBVIOUS
    <3> QED BY <2>1, <3>1 DEF Exact, ShimsExact
  <2>7. new[n + 1].left + new[n + 1].processed <= in_buffers.storage[h].buffer.len
    BY <2>2, <2>6 DEF ReadExact
  <2>8. in_buffers.storage[h].buffer.len = RestOf(in_buffers, new, h) + TakenBy(new[n + 1], h)
    BY <2>2, <2>3, <2>5, <2>6 DEF ReadExact
  <2>9. /\ new[n + 1].kind = "in_read" /\ new[n + 1].handle = stack[n + 1].handle
        /\ h = stack[n + 1].handle /\ stack[n + 1].kind = "in_read" /\ Len(stack) = n + 1
        /\ n \in Nat
    BY <2>2
  <2> QED BY ONLY <2>1, <2>2, <2>3, <2>4, <2>7, <2>8, <2>9, ReadMoved
<1>8. in_buffers' = in_buffers /\ out_buffers' = out_buffers /\ unwinding' = "no" /\ stack' = new
  BY <1>1 DEF slabs
<1> QED BY <1>6, <1>7, <1>8, StepFine

LEMMA ItemWrittenFine == ASSUME IInv, ItemWritten, UNCHANGED runtime PROVE IInv'
<1>1. /\ unwinding = "no" /\ Depth > 0 /\ Top.kind = "in_read" /\ Top.pending
      /\ UNCHANGED <<slabs, unwinding>>
      /\ stack' = DoneItem(stack, Depth)
  BY DEF ItemWritten, TopIs, DoneItem
<1>2. PICK n \in Nat : /\ Depth = n + 1 /\ Len(stack) = n + 1 /\ Top = stack[n + 1]
                       /\ stack[n + 1] \in FrameRecord
  BY <1>1, Innermost
<1>3. /\ Base(in_buffers, out_buffers, stack) /\ stack[n + 1].kind = "in_read"
      /\ stack \in Seq(FrameRecord)
  BY <1>1, <1>2, Now
<1>4. PICK f : /\ stack[n + 1] = f /\ f \in FrameRecord
               /\ f = [kind |-> "in_read", handle |-> f.handle, left |-> f.left,
                       processed |-> f.processed, pending |-> f.pending]
               /\ f.handle \in Nat /\ f.left \in Nat /\ f.processed \in Nat
               /\ f.pending \in BOOLEAN
  BY <1>2, <1>3, Reader
<1>5. PICK h \in Nat, l \in Nat, p \in Nat, q \in BOOLEAN :
          h = f.handle /\ l = f.left /\ p = f.processed /\ q = f.pending /\ l > 0
  <2>1. f.left > 0
    BY <1>1, <1>2, <1>3, <1>4, Reader
  <2> QED BY <1>4, <2>1
<1>6. stack[n + 1] = Reading(h, l, p, q)
  BY <1>4, <1>5 DEF Reading
<1>7. PICK g : g = Reading(h, l - 1, p + 1, FALSE)
  OBVIOUS
<1>8. stack' = Replaced(stack, n + 1, g)
  <2>1. n + 1 \in DOMAIN stack
    BY <1>2, <1>3
  <2>2. DoneItem(stack, n + 1) = Replaced(stack, n + 1, g)
    BY ONLY <1>6, <1>7, <2>1, ItemDone
  <2> QED BY <1>1, <1>2, <2>2
<1>9. /\ g \in FrameRecord /\ g.kind = "in_read" /\ g.handle = h /\ g.left = l - 1
      /\ g.processed = p + 1 /\ ~g.pending
  <2>1. l - 1 \in Nat /\ p + 1 \in Nat
    BY <1>5
  <2> QED BY <2>1, <1>7 DEF FrameRecord, ReadFrame, Reading
<1>10. TakenBy(g, h) = TakenBy(stack[n + 1], h)
  <2>1. TakenBy(g, h) = (p + 1) + 0
    BY <1>9 DEF TakenBy, Reads
  <2>2. TakenBy(stack[n + 1], h) = p + 1
    BY <1>1, <1>2, <1>3, <1>4, <1>5 DEF TakenBy, Reads
  <2> QED BY <2>1, <2>2
<1>11. g.left + g.processed = stack[n + 1].left + stack[n + 1].processed
  BY <1>4, <1>5, <1>9
<1>12. h = stack[n + 1].handle
  BY <1>4, <1>5
<1> QED BY <1>1, <1>2, <1>3, <1>8, <1>9, <1>10, <1>11, <1>12, ShimMoves

\* out_write's shim pushes an item.
LEMMA PushingItem ==
    ASSUME IInv, UNCHANGED <<slabs, unwinding, runtime>>, unwinding = "no",
           NEW n \in Nat, Len(stack) = n + 1, NEW h \in Nat, NEW l \in Nat, NEW w \in Nat, l > 0,
           stack[n + 1] = Writing(h, l, w),
           NEW mid, mid = Advanced(stack, FrameOf(out_buffers, h), IndexOf(out_buffers, h), 1),
           NEW f, f = Writing(h, l - 1, w),
           NEW new, new = Replaced(mid, n + 1, f), stack' = new
    PROVE  IInv'
<1>1. PICK ins, outs, stk : ins = in_buffers /\ outs = out_buffers /\ stk = stack
  OBVIOUS
<1>2. PICK top : top = stk[n + 1]
  OBVIOUS
<1>3. top.kind = "out_write" /\ top.handle = h /\ top.left = l /\ top.want = w
  BY <1>1, <1>2 DEF Writing
<1>4. /\ f.kind = "out_write" /\ f.handle = h /\ f.left = l - 1 /\ f.want = w
      /\ f \in FrameRecord
  <2>1. l - 1 \in Nat
    OBVIOUS
  <2> QED BY <2>1 DEF FrameRecord, WriteFrame, Writing
<1>5. /\ Base(ins, outs, stk) /\ stk \in Seq(FrameRecord) /\ SlabFine(ins) /\ SlabFine(outs)
      /\ Owned(FALSE, ins, stk) /\ Owned(TRUE, outs, stk) /\ Len(stk) = n + 1
      /\ ShimsFine(ins, outs, stk) /\ IterBacked(ins, stk)
      /\ runtime => Exact(ins, outs, stk, "no")
  BY <1>1, Now DEF Base
<1>6. h \in Allocated(outs) /\ ~outs.storage[h].buffer.raw /\ l <= w
  <2>1. n + 1 \in 1..Len(stk) /\ stk[n + 1].kind = "out_write"
    BY <1>2, <1>3, <1>5
  <2>2. WriteFine(outs, stk, n + 1)
    BY <2>1, <1>5 DEF ShimsFine
  <2> QED BY <2>2, <1>2, <1>3 DEF WriteFine
<1>7. mid = Advanced(stk, FrameOf(outs, h), IndexOf(outs, h), 1)
  BY <1>1
<1>8. /\ Base(ins, outs, mid) /\ Len(mid) = n + 1
      /\ \A e \in 1..(n + 1) : stk[e].kind # "wrapper" => mid[e] = stk[e]
      /\ \A i : Taken(mid, i) = Taken(stk, i)
      /\ MovedOn(outs, stk, h, 1, mid) /\ SameRest(ins, stk, mid)
  BY ONLY <1>5, <1>6, <1>7, AdvancedVector
<1>9. \A e \in 1..(n + 1) : mid[e].kind = stk[e].kind
  <2>1. SameKinds(stk, Advanced(stk, FrameOf(outs, h), IndexOf(outs, h), 1))
    BY ONLY <1>5, <1>6, AdvancedKinds
  <2> QED BY ONLY <2>1, <1>5, <1>7 DEF SameKinds
<1>10. mid[n + 1] = top
  <2>1. n + 1 \in 1..(n + 1)
    OBVIOUS
  <2> QED BY ONLY <2>1, <1>2, <1>3, <1>8
<1>11. ASSUME NEW i \in Allocated(ins), ~ins.storage[i].buffer.raw
       PROVE  RestOf(ins, mid, i) + Taken(mid, i) - TakenBy(top, i) + TakenBy(f, i)
                  <= ins.storage[i].buffer.len
  <2>1. /\ RestOf(ins, stk, i) \in Int /\ Taken(stk, i) \in Nat
        /\ ins.storage[i].buffer.len \in Nat
    BY <1>5, RestInteger, TakenNatural, EntryLinked
  <2>2. RestOf(ins, stk, i) + Taken(stk, i) <= ins.storage[i].buffer.len
    BY <1>5, <1>11 DEF IterBacked
  <2>3. Taken(mid, i) = Taken(stk, i) /\ RestOf(ins, mid, i) = RestOf(ins, stk, i)
    BY <1>8 DEF SameRest
  <2>4. TakenBy(top, i) = 0 /\ TakenBy(f, i) = 0
    BY ONLY <1>3, <1>4 DEF TakenBy, Reads
  <2> QED BY ONLY <2>1, <2>2, <2>3, <2>4
<1>12. /\ Base(ins, outs, new) /\ SameBuffers(mid, new) /\ Len(new) = n + 1
       /\ \A d \in 1..(n + 1) : new[d] = IF d = n + 1 THEN f ELSE mid[d]
  <2>1. ReplacedAt(mid, n + 1, f, new)
    <3>1. mid \in Seq(FrameRecord) /\ n + 1 \in 1..Len(mid)
      BY <1>8 DEF Base
    <3>2. ReplacedAt(mid, n + 1, f, [mid EXCEPT ![n + 1] = f])
      BY ONLY <3>1, <1>4, ReplacedFrame
    <3>3. new = [mid EXCEPT ![n + 1] = f]
      BY DEF Replaced
    <3> QED BY ONLY <3>2, <3>3
  <2>2. GoesOn(ins, mid, n, f)
    <3>1. l - 1 <= w
      BY ONLY <1>6, l \in Nat, w \in Nat
    <3> QED BY <3>1, <1>3, <1>4, <1>10, <1>11 DEF GoesOn
  <2>3. Base(ins, outs, new) /\ SameBuffers(mid, new)
    BY ONLY n \in Nat, <1>4, <1>8, <2>1, <2>2, TopChanged
  <2> QED BY <2>1, <2>3, <1>8 DEF ReplacedAt
<1>13. runtime => Exact(ins, outs, new, "no")
  <2> SUFFICES ASSUME runtime PROVE Exact(ins, outs, new, "no")
    OBVIOUS
  <2>1. Exact(ins, outs, stk, "no") /\ stk[n + 1].kind = "out_write" /\ h = stk[n + 1].handle
    BY <1>2, <1>3, <1>5
  <2>2. /\ new[n + 1] = f /\ \A d \in 1..n : new[d].kind = stk[d].kind
    <3>1. n + 1 \in 1..(n + 1) /\ \A d \in 1..n : d \in 1..(n + 1) /\ d # n + 1
      OBVIOUS
    <3> QED BY ONLY <3>1, <1>9, <1>12
  <2>3. /\ \A i \in Allocated(ins) : RestOf(ins, new, i) = RestOf(ins, mid, i)
        /\ \A i \in Allocated(outs) : RestOf(outs, new, i) = RestOf(outs, mid, i)
    <3>1. Owned(FALSE, ins, mid) /\ Owned(TRUE, outs, mid)
      BY <1>8 DEF Base
    <3> QED BY ONLY <3>1, <1>5, <1>12, BuffersKept
  <2>4. SameRest(ins, stk, new)
    BY <2>3, <1>8 DEF SameRest
  <2>5. \A i \in Allocated(outs) : i # h => RestOf(outs, new, i) = RestOf(outs, stk, i)
    BY <2>3, <1>8 DEF MovedOn
  <2>6. outs.storage[h].buffer.len = RestOf(outs, stk, h) + w - l
    <3>1. n + 1 \in 1..Len(stk)
      BY <1>5
    <3>2. WriteExact(outs, stk, n + 1)
      BY <2>1, <3>1 DEF Exact, ShimsExact
    <3> QED BY <2>1, <3>2, <1>2, <1>3 DEF WriteExact
  <2>7. outs.storage[h].buffer.len = RestOf(outs, new, h) + new[n + 1].want - new[n + 1].left
    <3>1. RestOf(outs, new, h) = RestOf(outs, stk, h) - 1
      BY <2>3, <1>6, <1>8 DEF MovedOn
    <3>2. new[n + 1].want = w /\ new[n + 1].left = l - 1
      BY ONLY <2>2, <1>4
    <3>3. RestOf(outs, stk, h) \in Int
      BY <1>5, <1>6, RestInteger
    <3> QED BY ONLY <2>6, <3>1, <3>2, <3>3, w \in Nat, l \in Nat
  <2>8. new[n + 1].kind = "out_write" /\ new[n + 1].handle = stk[n + 1].handle
    BY <2>1, <2>2, <1>4
  <2> QED BY ONLY n \in Nat, <1>5, <1>12, <2>1, <2>2, <2>4, <2>5, <2>7, <2>8, WriteMoved
<1>14. in_buffers' = ins /\ out_buffers' = outs /\ unwinding' = "no" /\ stack' = new
  BY <1>1 DEF slabs
<1> QED BY <1>12, <1>13, <1>14, StepFine

LEMMA ItemPushedFine == ASSUME IInv, ItemPushed, UNCHANGED runtime PROVE IInv'
<1>1. /\ unwinding = "no" /\ Depth > 0 /\ Top.kind = "out_write" /\ Top.left > 0
      /\ UNCHANGED <<slabs, unwinding, runtime>>
  BY DEF ItemPushed, TopIs
<1>2. PICK n \in Nat : /\ Depth = n + 1 /\ Len(stack) = n + 1 /\ Top = stack[n + 1]
                       /\ stack[n + 1] \in FrameRecord
  BY <1>1, Innermost
<1>3. Base(in_buffers, out_buffers, stack) /\ stack[n + 1].kind = "out_write"
  BY <1>1, <1>2, Now
<1>4. PICK f : f = stack[n + 1]
  OBVIOUS
<1>5. /\ f = [kind |-> "out_write", handle |-> f.handle, left |-> f.left, want |-> f.want]
      /\ f.handle \in Nat /\ f.left \in Nat /\ f.want \in Nat
  <2>1. f \in FrameRecord /\ f.kind = "out_write"
    BY <1>2, <1>3, <1>4
  <2> QED BY ONLY <2>1, FrameFields
<1>6. PICK h \in Nat, l \in Nat, w \in Nat :
          h = f.handle /\ l = f.left /\ w = f.want /\ l > 0
  BY <1>1, <1>2, <1>4, <1>5
<1>7. stack[n + 1] = Writing(h, l, w) /\ h = Top.handle
  BY <1>2, <1>4, <1>5, <1>6 DEF Writing
<1>8. PICK mid : mid = Advanced(stack, FrameOf(out_buffers, h), IndexOf(out_buffers, h), 1)
  OBVIOUS
<1>9. PICK g : g = Writing(h, l - 1, w)
  OBVIOUS
<1>10. PICK new : new = Replaced(mid, n + 1, g)
  OBVIOUS
<1>11. stack' = StoredItem(mid, n + 1)
  BY <1>2, <1>7, <1>8
     DEF ItemPushed, Advance, Advanced, Get, Slab, FrameOf, IndexOf, StoredItem
<1>12. mid[n + 1] = Writing(h, l, w) /\ n + 1 \in DOMAIN mid
  <2>1. h \in Allocated(out_buffers) /\ ~out_buffers.storage[h].buffer.raw
    <3>1. ShimsFine(in_buffers, out_buffers, stack) /\ n + 1 \in 1..Len(stack)
      BY <1>2, Now
    <3>2. WriteFine(out_buffers, stack, n + 1)
      BY <3>1, <1>3 DEF ShimsFine
    <3> QED BY <3>2, <1>2, <1>7 DEF WriteFine
  <2>2. /\ Base(in_buffers, out_buffers, mid) /\ Len(mid) = Len(stack)
        /\ \A e \in 1..Len(stack) : stack[e].kind # "wrapper" => mid[e] = stack[e]
    BY ONLY <1>3, <1>8, <2>1, AdvancedVector
  <2>3. mid \in Seq(FrameRecord)
    BY <2>2 DEF Base
  <2>4. n + 1 \in 1..Len(stack)
    BY <1>2
  <2> QED BY ONLY <2>2, <2>3, <2>4, <1>3, <1>7
<1>13. stack' = new
  <2>1. StoredItem(mid, n + 1) = Replaced(mid, n + 1, g)
    BY ONLY <1>9, <1>12, ItemStored
  <2> QED BY <2>1, <1>10, <1>11
<1>14. IInv /\ unwinding = "no" /\ Len(stack) = n + 1 /\ n \in Nat
  BY <1>1, <1>2
<1>15. stack[n + 1] = Writing(h, l, w) /\ UNCHANGED <<slabs, unwinding, runtime>>
  BY <1>1, <1>7
<1> QED BY ONLY <1>6, <1>8, <1>9, <1>10, <1>13, <1>14, <1>15, PushingItem

LEMMA StutterFine == ASSUME IInv, UNCHANGED vars PROVE IInv'
<1>1. /\ in_buffers' = in_buffers /\ out_buffers' = out_buffers /\ stack' = stack
      /\ unwinding' = unwinding /\ runtime' = runtime
  BY DEF vars, glue
<1>2. /\ Base(in_buffers, out_buffers, stack)
      /\ unwinding \in {"no", "trap", "panic", "abort"}
      /\ runtime => /\ unwinding \in {"no", "trap"}
                    /\ Exact(in_buffers, out_buffers, stack, unwinding)
  BY Now DEF IInv
<1> QED BY <1>1, <1>2, StepFine

LEMMA HostFine == ASSUME IInv, Host, UNCHANGED runtime PROVE IInv'
<1>1. CASE BeginCall
  BY <1>1, BeginCallFine
<1>2. CASE CallWasm
  BY <1>2, CallWasmFine
<1>3. CASE CallAlloc
  BY <1>3, CallAllocFine
<1>4. CASE WrapperFails
  BY <1>4, FailuresFine
<1>5. CASE EndCall
  BY <1>5, EndCallFine
<1>6. CASE ImportReturns
  BY <1>6, ReturnsFine
<1>7. CASE \E out, raw \in BOOLEAN, n \in Lengths : Push(out, raw, n)
  BY <1>7, PushFine
<1>8. CASE NextItem
  BY <1>8, NextItemFine
<1>9. CASE ItemWritten
  BY <1>9, ItemWrittenFine
<1>10. CASE InReadReturns
  BY <1>10, InReadReturnsFine
<1>11. CASE ItemPushed
  BY <1>11, ItemPushedFine
<1>12. CASE OutWriteReturns
  BY <1>12, OutWriteReturnsFine
<1>13. CASE TrapLeavesFrame
  BY <1>13, TrapLeavesFrameFine
<1>14. CASE TrapLeavesWrapper
  BY <1>14, TrapLeavesWrapperFine
<1>15. CASE PanicLeavesFrame
  BY <1>15, PanicLeavesFrameFine
<1>16. CASE PanicCaught
  BY <1>16, PanicCaughtFine
<1>17. CASE Aborted
  BY <1>17, StutterFine DEF Aborted, vars
<1> QED BY <1>1, <1>2, <1>3, <1>4, <1>5, <1>6, <1>7, <1>8, <1>9, <1>10, <1>11, <1>12,
           <1>13, <1>14, <1>15, <1>16, <1>17 DEF Host, Unwind

LEMMA IntrinsicFine ==
    ASSUME IInv, NEW out \in BOOLEAN, NEW h, runtime => Own(out, h), Intrinsic(out, h),
           UNCHANGED runtime
    PROVE  IInv'
<1>1. CASE GetLen(out, h)
  BY <1>1, StutterFine DEF GetLen, vars
<1>2. CASE \E n \in 0..MaxLen : RawOutOfBounds(out, h, n) \/ IntrinsicTraps(out, h, n)
  BY <1>2, FailuresFine
<1>3. ASSUME NEW n \in 0..MaxLen, out, OutWriteRaw(h, n) \/ OutWriteGeneral(h, n)
      PROVE  IInv'
  <2>1. runtime => Own(TRUE, h)
    <3>1. out = TRUE
      BY <1>3
    <3> QED BY <3>1
  <2> QED BY <1>3, <2>1, OutWriteRawFine, OutWriteGeneralFine
<1>4. ASSUME NEW n \in 0..MaxLen, ~out, InReadRaw(h, n) \/ InReadGeneral(h, n)
      PROVE  IInv'
  <2>1. runtime => Own(FALSE, h)
    <3>1. out = FALSE
      BY <1>4
    <3> QED BY <3>1
  <2> QED BY <1>4, <2>1, InReadRawFine, InReadGeneralFine
<1> QED BY <1>1, <1>2, <1>3, <1>4 DEF Intrinsic

LEMMA NextFine == ASSUME IInv, [Next]_vars PROVE IInv'
<1>1. CASE Host /\ UNCHANGED runtime
  BY <1>1, HostFine
<1>2. CASE MayCall /\ GuestCallsImport /\ UNCHANGED runtime
  BY <1>2, GuestCallsImportFine
<1>3. CASE GuestReturns /\ UNCHANGED runtime
  BY <1>3, ReturnsFine
<1>4. CASE MayCall /\ IntrinsicPanics /\ UNCHANGED runtime
  BY <1>4, IntrinsicPanicsFine
<1>5. ASSUME NEW out \in BOOLEAN, NEW h \in Handle(out), runtime => Own(out, h),
             Intrinsic(out, h), UNCHANGED runtime
      PROVE  IInv'
  BY <1>5, IntrinsicFine
<1>6. CASE UNCHANGED vars
  BY <1>6, StutterFine
<1> QED BY <1>1, <1>2, <1>3, <1>4, <1>5, <1>6 DEF Next, Step

(***************************************************************************)
(* What follows for every run.                                             *)
(***************************************************************************)

\* The inductive invariant holds, for any guest, however calls nest, trap and
\* panic, and with more for a guest built on the runtime.
THEOREM Invariance == Spec => []IInv
<1>1. Init => IInv
  BY InitFine
<1>2. IInv /\ [Next]_vars => IInv'
  BY NextFine
<1> QED BY <1>1, <1>2, PTL DEF Spec

\* The slabs are well typed; no len goes below zero.
THEOREM TypeCorrectness == Spec => []TypeOK
<1>1. IInv => TypeOK
  <2> SUFFICES ASSUME IInv PROVE TypeOK
    OBVIOUS
  <2>1. ASSUME NEW s, SlabFine(s) PROVE SlabType(s)
    <3>1. SlabTyped(s)
      BY <2>1 DEF SlabFine
    <3>2. /\ DOMAIN s.storage = 0..(slabLen(s) - 1) /\ s.next \in 0..slabLen(s)
          /\ \A i \in DOMAIN s.storage : s.storage[i] \in Entry
      BY <3>1 DEF SlabTyped
    <3> QED BY <3>2 DEF SlabType, Entry
  <2>2. SlabType(in_buffers) /\ SlabType(out_buffers)
    BY <2>1, Now
  <2>3. ASSUME NEW d \in 1..Depth
        PROVE  stack[d].kind \in {"wrapper", "wasm", "alloc", "import", "in_read", "out_write"}
    <3>1. stack[d] \in FrameRecord
      BY Now
    <3> QED BY <3>1, FrameFields
  <2> QED BY <2>2, <2>3 DEF TypeOK, IInv
<1> QED BY <1>1, Invariance, PTL

\* No raw pointer of a slab dangles, no entry is leaked by a trap or a panic,
\* and no handle names two buffers.
THEOREM HandlesAlwaysOwned == Spec => []HandlesOwned
<1>1. IInv => HandlesOwned
  <2> SUFFICES ASSUME IInv, NEW out \in BOOLEAN
               PROVE  {<<h, Get(out, h).ptr>> : h \in Allocated(Slab(out))} =
                      {<<stack[p[1]].buffers[p[2]].handle, p>> :
                          p \in {q \in LiveBuffers : stack[q[1]].buffers[q[2]].out = out}}
    BY DEF HandlesOwned
  <2>1. PICK s : s = Slab(out)
    OBVIOUS
  <2>2. SlabFine(s) /\ Owned(out, s, stack) /\ SlabTyped(s)
    <3>1. SlabFine(s) /\ Owned(out, s, stack)
      <4>1. CASE out = TRUE
        BY <2>1, <4>1, Now DEF Slab
      <4>2. CASE out = FALSE
        BY <2>1, <4>2, Now DEF Slab
      <4> QED BY <4>1, <4>2
    <3> QED BY <3>1 DEF SlabFine
  <2>3. Depth = Len(stack) /\ Depth \in Nat /\ stack \in Seq(FrameRecord)
    BY Now
  <2>4. \A h : Get(out, h) = s.storage[h].buffer
    BY <2>1 DEF Get
  <2>5. ASSUME NEW h \in Allocated(s)
        PROVE  \E q \in LiveBuffers :
                   /\ stack[q[1]].buffers[q[2]].out = out
                   /\ <<h, Get(out, h).ptr>> = <<stack[q[1]].buffers[q[2]].handle, q>>
    <3>1. PICK d, k : d = FrameOf(s, h) /\ k = IndexOf(s, h)
      OBVIOUS
    <3>2. IsBuffer(stack, d, k) /\ stack[d].buffers[k].out = out /\ stack[d].buffers[k].handle = h
      BY <2>2, <3>1, EntryLinked
    <3>3. k \in 1..MaxBuffers /\ s.storage[h].buffer.ptr = <<d, k>>
      <4>1. h \in DOMAIN s.storage
        BY DEF Allocated
      <4> QED BY <4>1, <2>2, <3>1, EntryFields
    <3>4. k \in DOMAIN stack[d].buffers
      <4>1. stack[d] \in FrameRecord /\ stack[d].kind = "wrapper"
        BY <2>3, <3>2 DEF IsBuffer
      <4>2. stack[d].buffers \in Seq(Passed)
        BY <4>1, FrameFields
      <4> QED BY <4>2, <3>2 DEF IsBuffer
    <3>5. <<d, k>> \in LiveBuffers
      <4>1. d \in 1..Depth /\ stack[d].kind = "wrapper"
        BY <2>3, <3>2 DEF IsBuffer
      <4>2. <<d, k>> \in (1..Depth) \X (1..MaxBuffers)
        BY <4>1, <3>3
      <4> QED BY <4>1, <4>2, <3>4 DEF LiveBuffers
    <3> QED BY <2>4, <3>2, <3>3, <3>5
  <2>6. ASSUME NEW q \in LiveBuffers, stack[q[1]].buffers[q[2]].out = out
        PROVE  \E h \in Allocated(s) :
                   <<h, Get(out, h).ptr>> = <<stack[q[1]].buffers[q[2]].handle, q>>
    <3>1. PICK d \in 1..Depth, k \in 1..MaxBuffers : q = <<d, k>>
      BY DEF LiveBuffers
    <3>2. q[1] = d /\ q[2] = k /\ stack[d].kind = "wrapper" /\ k \in DOMAIN stack[d].buffers
      BY <3>1 DEF LiveBuffers
    <3>3. d \in Nat /\ k \in Nat /\ IsBuffer(stack, d, k)
      <4>1. stack[d] \in FrameRecord
        BY <2>3
      <4>2. stack[d].buffers \in Seq(Passed)
        BY <4>1, <3>2, FrameFields
      <4> QED BY <4>2, <2>3, <3>2 DEF IsBuffer
    <3>4. PICK h : h = stack[d].buffers[k].handle
      OBVIOUS
    <3>5. h \in Allocated(s) /\ FrameOf(s, h) = d /\ IndexOf(s, h) = k
      BY <2>2, <2>6, <3>2, <3>3, <3>4 DEF Owned
    <3>6. s.storage[h].buffer.ptr = <<d, k>>
      <4>1. h \in DOMAIN s.storage
        BY <3>5 DEF Allocated
      <4> QED BY <4>1, <2>2, <3>5, EntryFields
    <3> QED BY <2>4, <3>1, <3>2, <3>4, <3>5, <3>6
  <2> QED BY <2>1, <2>5, <2>6
<1> QED BY <1>1, Invariance, PTL

\* A copy to or from a raw buffer stays inside the host's slice, whatever the
\* guest asks for.
THEOREM RawAlwaysInBounds == Spec => []RawInBounds
<1>1. IInv => RawInBounds
  <2> SUFFICES ASSUME IInv, NEW out \in BOOLEAN, NEW h \in Allocated(Slab(out)), Get(out, h).raw
               PROVE  Get(out, h).len = Rest(out, h)
    BY DEF RawInBounds
  <2>1. RawBacked(in_buffers, stack) /\ RawBacked(out_buffers, stack)
    BY Now DEF Base
  <2>2. RawBacked(Slab(out), stack)
    BY <2>1 DEF Slab
  <2> QED BY <2>2 DEF RawBacked, RestOf, Rest, Get, FrameOf, IndexOf
<1> QED BY <1>1, Invariance, PTL

\* in_read finds its buffer again when its shim is done and can subtract what
\* was processed, whatever the guest did from within the shim.
THEOREM ReadersAlwaysBacked == Spec => []ReadersBacked
<1>1. IInv => ReadersBacked
  <2> SUFFICES ASSUME IInv, NEW d \in 1..Depth, stack[d].kind = "in_read",
                      NEW h, h = stack[d].handle
               PROVE  h \in Allocated(in_buffers) /\ Processed(h) <= Get(FALSE, h).len
    BY DEF ReadersBacked
  <2>1. /\ stack \in Seq(FrameRecord) /\ Depth = Len(stack) /\ Depth \in Nat
        /\ SlabFine(in_buffers) /\ Owned(FALSE, in_buffers, stack)
        /\ ShimsFine(in_buffers, out_buffers, stack) /\ IterBacked(in_buffers, stack)
    BY Now DEF Base
  <2>2. h \in Allocated(in_buffers) /\ ~in_buffers.storage[h].buffer.raw
    BY <2>1 DEF ShimsFine, ReadFine
  <2>3. /\ RestOf(in_buffers, stack, h) >= 0
        /\ RestOf(in_buffers, stack, h) + Taken(stack, h) <= in_buffers.storage[h].buffer.len
    BY <2>1, <2>2 DEF IterBacked
  <2>4. /\ RestOf(in_buffers, stack, h) \in Int /\ Taken(stack, h) \in Nat
        /\ in_buffers.storage[h].buffer.len \in Nat
    BY <2>1, <2>2, RestInteger, TakenNatural, EntryLinked
  <2>5. Processed(h) \in Nat /\ Processed(h) <= Taken(stack, h)
    <3> DEFINE a == [e \in 1..Depth |-> IF Reads(stack[e], h) THEN stack[e].processed ELSE 0]
               b == [e \in 1..Depth |-> TakenBy(stack[e], h)]
    <3>1. ASSUME NEW e \in 1..Depth
          PROVE  a[e] \in Nat /\ b[e] \in Nat /\ a[e] <= b[e]
      <4>1. stack[e] \in FrameRecord
        BY <2>1
      <4>2. CASE Reads(stack[e], h)
        <5>1. stack[e].processed \in Nat
          BY <4>1, <4>2, FrameFields DEF Reads
        <5> QED BY <4>2, <5>1 DEF TakenBy
      <4>3. CASE ~Reads(stack[e], h)
        BY <4>3 DEF TakenBy
      <4> QED BY <4>2, <4>3
    <3>2. a \in Seq(Nat) /\ b \in Seq(Nat) /\ Len(a) = Depth /\ Len(b) = Depth
      <4>1. a \in [1..Depth -> Nat] /\ b \in [1..Depth -> Nat]
        BY <3>1
      <4> QED BY <4>1, <2>1
    <3>3. Processed(h) = Total(a) /\ Taken(stack, h) = Total(b)
      BY <2>1 DEF Processed, Taken
    <3> HIDE DEF a, b
    <3>4. \A e \in 1..Len(a) : a[e] <= b[e]
      BY <3>1, <3>2
    <3> QED BY <3>2, <3>3, <3>4, TotalMonotone
  <2>6. Get(FALSE, h).len = in_buffers.storage[h].buffer.len
    BY DEF Get, Slab
  <2>7. Processed(h) <= in_buffers.storage[h].buffer.len
    <3> DEFINE rest == RestOf(in_buffers, stack, h)
               taken == Taken(stack, h)
               processed == Processed(h)
               left == in_buffers.storage[h].buffer.len
    <3>1. rest \in Int /\ taken \in Nat /\ left \in Nat /\ rest >= 0 /\ rest + taken <= left
      BY <2>3, <2>4
    <3>2. processed \in Nat /\ processed <= taken
      BY <2>5
    <3> HIDE DEF rest, taken, processed, left
    <3>3. processed <= left
      BY ONLY <3>1, <3>2
    <3> QED BY <3>3 DEF processed, left
  <2> QED BY <2>2, <2>6, <2>7, Zenon
<1> QED BY <1>1, Invariance, PTL

\* A guest on the runtime is told of each buffer what is there.
THEOREM LenAlwaysAvailable == Spec => []LenIsAvailable
<1>1. IInv => LenIsAvailable
  <2> SUFFICES ASSUME IInv, runtime, GuestRuns, TopIs({"wasm"}), NEW out \in BOOLEAN,
                      NEW h \in Allocated(Slab(out))
               PROVE  Get(out, h).len = Rest(out, h)
    BY DEF LenIsAvailable
  <2>1. LenAll(in_buffers, stack) /\ LenAll(out_buffers, stack)
    BY QuietNow DEF GuestRuns, TopIs, Shims
  <2>2. LenAll(Slab(out), stack)
    BY <2>1 DEF Slab
  <2> QED BY <2>2 DEF LenAll, RestOf, Rest, Get, FrameOf, IndexOf
<1> QED BY <1>1, Invariance, PTL

\* With a guest on the runtime neither unwrap, expect nor RefCell panics.
THEOREM NeverEverPanics == Spec => []NeverPanics
<1>1. IInv => NeverPanics
  BY DEF IInv, RuntimeFine, NeverPanics
<1> QED BY <1>1, Invariance, PTL

\* What FreeIndex computes, step by step.
LEMMA FreeIndexUnfolds ==
    ASSUME NEW s, SlabFine(s)
    PROVE  /\ FreeIndex(s)[0] = s.next
           /\ \A k \in Nat : FreeIndex(s)[k + 1] =
                 IF FreeIndex(s)[k] \in DOMAIN s.storage \ Allocated(s)
                   THEN s.storage[FreeIndex(s)[k]].next ELSE FreeIndex(s)[k]
<1> DEFINE Free == DOMAIN s.storage \ Allocated(s)
           Body(f) == [k \in Nat |-> IF k = 0 THEN s.next
                                     ELSE IF f[k - 1] \in DOMAIN s.storage \ Allocated(s)
                                            THEN s.storage[f[k - 1]].next ELSE f[k - 1]]
<1>1. PICK m \in Nat : \E p \in [0..m -> Nat] : IsFreePath(s, p, m)
  BY DEF SlabFine, FreePath
<1>2. PICK p \in [0..m -> Nat] : IsFreePath(s, p, m)
  BY <1>1
<1> DEFINE f == [k \in Nat |-> IF k <= m THEN p[k] ELSE p[m]]
<1>3. f = Body(f)
  <2>1. ASSUME NEW k \in Nat PROVE f[k] = Body(f)[k]
    <3>1. CASE k = 0
      BY <3>1, <1>2 DEF IsFreePath
    <3>2. CASE k \in 1..m
      <4>1. k - 1 \in 0..(m - 1) /\ (k - 1) + 1 = k /\ k # 0
        BY <3>2
      <4>2. p[k - 1] \in Free /\ s.storage[p[k - 1]].next = p[k]
        BY <4>1, <1>2 DEF IsFreePath, Allocated
      <4> QED BY <4>1, <4>2
    <3>3. CASE k > m
      <4>1. k - 1 \in Nat /\ k # 0 /\ k - 1 >= m
        BY <3>3
      <4>2. f[k] = p[m] /\ f[k - 1] = p[m]
        BY <3>3, <4>1
      <4>3. p[m] \notin Free
        BY <1>2 DEF IsFreePath, SlabFine, SlabTyped, slabLen
      <4> QED BY <4>1, <4>2, <4>3
    <3> QED BY <3>1, <3>2, <3>3
  <2> QED BY <2>1
<1> HIDE DEF f
<1>4. FreeIndex(s) = CHOOSE g : g = Body(g)
  BY DEF FreeIndex
<1> HIDE DEF Body
<1>5. FreeIndex(s) = Body(FreeIndex(s))
  BY <1>3, <1>4
<1>6. ASSUME NEW k \in Nat
      PROVE  FreeIndex(s)[k + 1] =
                 IF FreeIndex(s)[k] \in DOMAIN s.storage \ Allocated(s)
                   THEN s.storage[FreeIndex(s)[k]].next ELSE FreeIndex(s)[k]
  <2>1. k + 1 \in Nat /\ k + 1 # 0 /\ (k + 1) - 1 = k
    OBVIOUS
  <2>2. Body(FreeIndex(s))[k + 1] =
            IF FreeIndex(s)[k] \in DOMAIN s.storage \ Allocated(s)
              THEN s.storage[FreeIndex(s)[k]].next ELSE FreeIndex(s)[k]
    BY <2>1 DEF Body
  <2> QED BY <1>5, <2>2
<1>7. FreeIndex(s)[0] = s.next
  BY <1>5 DEF Body
<1> QED BY <1>6, <1>7

\* In a slab whose free list is a path, FreeIndex walks it.
LEMMA FreeIndexComplete ==
    ASSUME NEW s, SlabFine(s)
    PROVE  LET free == DOMAIN s.storage \ Allocated(s) IN
           /\ {FreeIndex(s)[k] : k \in 0..(Cardinality(free) - 1)} = free
           /\ FreeIndex(s)[Cardinality(free)] = slabLen(s)
<1> DEFINE free == DOMAIN s.storage \ Allocated(s)
<1>1. PICK m \in Nat : \E p \in [0..m -> Nat] : IsFreePath(s, p, m)
  BY DEF SlabFine, FreePath
<1>2. PICK p \in [0..m -> Nat] : IsFreePath(s, p, m)
  BY <1>1
<1>3. \A k \in 0..(m - 1) : p[k] \in free /\ s.storage[p[k]].next = p[k + 1]
  BY <1>2 DEF IsFreePath, Allocated
<1>4. \A i \in free : \E k \in 0..(m - 1) : p[k] = i
  BY <1>2 DEF IsFreePath
<1>5. \A k \in 0..m : FreeIndex(s)[k] = p[k]
  <2> DEFINE T == {j \in Nat : j <= m => FreeIndex(s)[j] = p[j]}
  <2>1. 0 \in T
    BY <1>2, FreeIndexUnfolds DEF IsFreePath
  <2>2. ASSUME NEW k \in Nat, k \in T PROVE k + 1 \in T
    <3> SUFFICES ASSUME k + 1 <= m PROVE FreeIndex(s)[k + 1] = p[k + 1]
      OBVIOUS
    <3>1. k \in 0..(m - 1) /\ FreeIndex(s)[k] = p[k]
      BY <2>2
    <3>2. p[k] \in free /\ s.storage[p[k]].next = p[k + 1]
      BY <1>3, <3>1
    <3> QED BY <3>1, <3>2, FreeIndexUnfolds
  <2> HIDE DEF T
  <2>3. \A k \in Nat : k \in T
    BY <2>1, <2>2, NaturalsIn
  <2> QED BY <2>3 DEF T
<1> HIDE DEF free
<1>6. Cardinality(free) = m
  <2> DEFINE first == [k \in 0..(m - 1) |-> p[k]]
  <2>1. first \in [0..(m - 1) -> free]
    BY <1>3
  <2>2. \A j, k \in 0..(m - 1) : first[j] = first[k] => j = k
    BY <1>2 DEF IsFreePath
  <2>3. \A i \in free : \E k \in 0..(m - 1) : first[k] = i
    BY <1>4
  <2>4. first \in Bijection(0..(m - 1), free)
    <3> HIDE DEF first
    <3> QED BY <2>1, <2>2, <2>3 DEF Bijection, Injection, Surjection, IsInjective
  <2>5. ExistsBijection(0..(m - 1), free)
    BY <2>4 DEF ExistsBijection
  <2>6. IsFiniteSet(0..(m - 1)) /\ Cardinality(0..(m - 1)) = m
    <3>1. m \in Nat
      BY <1>1
    <3>2. IsFiniteSet(0..(m - 1))
      BY <3>1, FS_Interval
    <3>3. Cardinality(0..(m - 1)) = m
      BY ONLY <3>1, FS_Interval
    <3> QED BY <3>2, <3>3
  <2>7. Cardinality(free) = Cardinality(0..(m - 1))
    BY <2>5, <2>6, FS_Bijection
  <2> QED BY <2>6, <2>7
<1>7. {FreeIndex(s)[k] : k \in 0..(m - 1)} = free
  <2>1. \A k \in 0..(m - 1) : FreeIndex(s)[k] = p[k] /\ p[k] \in free
    BY <1>3, <1>5
  <2>2. \A i \in free : \E k \in 0..(m - 1) : FreeIndex(s)[k] = i
    BY <1>4, <2>1
  <2> QED BY <2>1, <2>2
<1>8. FreeIndex(s)[m] = slabLen(s)
  BY <1>2, <1>5 DEF IsFreePath
<1> QED BY <1>6, <1>7, <1>8 DEF free

\* The free list of either slab visits every empty entry once and ends at the
\* end of the storage, in whatever order nested transactions are dropped.
THEOREM FreeListsAlwaysComplete == Spec => []FreeListsComplete
<1>1. IInv => FreeListsComplete
  <2> SUFFICES ASSUME IInv PROVE FreeListsComplete
    OBVIOUS
  <2>1. \A s \in {in_buffers, out_buffers} : SlabFine(s)
    BY Now DEF Base
  <2>2. ASSUME NEW s \in {in_buffers, out_buffers}
        PROVE  LET free == DOMAIN s.storage \ Allocated(s) IN
               /\ {FreeIndex(s)[k] : k \in 0..(Cardinality(free) - 1)} = free
               /\ FreeIndex(s)[Cardinality(free)] = slabLen(s)
    BY ONLY <2>1, <2>2, FreeIndexComplete
  <2> QED BY ONLY <2>2 DEF FreeListsComplete
<1> QED BY <1>1, Invariance, PTL

=============================================================================
