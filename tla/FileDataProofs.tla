--------------------------- MODULE FileDataProofs ---------------------------
(***************************************************************************)
(* The bytes of a file are those its callers wrote: FileData implements    *)
(* FlatFile, for blocks and buffers of every size, as long as no truncate  *)
(* has failed half way.                                                    *)
(*                                                                         *)
(* A read holds a part of the file.  A write holds pointers that begin     *)
(* with those of the inode on disk, point to different blocks, and whose   *)
(* blocks hold what it has written so far.  So one turn of its loop        *)
(* changes the bytes of one range of the file, and none when that range    *)
(* lies behind the file's end; the bytes there appear with the new size.   *)
(***************************************************************************)
EXTENDS FileData, FiniteSetTheorems, SequenceTheorems, WellFoundedInduction, TLAPS

-----------------------------------------------------------------------------
(* Arithmetic of blocks and bytes *)

LEMMA DivMod ==
  ASSUME NEW n \in Nat, NEW m \in Nat \ {0}
  PROVE  /\ n \div m \in Nat /\ n % m \in 0 .. m - 1
         /\ n = (n \div m) * m + (n % m)
<1>1. n \div m \in Nat
  OBVIOUS
<1>2. n % m \in 0 .. m - 1
  OBVIOUS
<1>3. n = (n \div m) * m + (n % m)
  OBVIOUS
<1> QED BY <1>1, <1>2, <1>3

LEMMA DivModUnique ==
  ASSUME NEW m \in Nat \ {0}, NEW q \in Nat, NEW r \in 0 .. m - 1
  PROVE  (q * m + r) \div m = q /\ (q * m + r) % m = r
<1> DEFINE n == q * m + r
           d == n \div m
           e == n % m
<1>1. n \in Nat /\ d \in Nat /\ e \in 0 .. m - 1 /\ n = d * m + e
  <2>1. n \in Nat
    OBVIOUS
  <2> HIDE DEF n
  <2> QED BY <2>1, DivMod
<1>2. q * m + r = d * m + e
  BY <1>1
<1> HIDE DEF n, d, e
<1>3. ~(q < d)
  <2>1. ASSUME q < d PROVE FALSE
    <3>1. (q + 1) * m <= d * m
      BY <1>1, <2>1
    <3> QED BY <1>1, <1>2, <3>1
  <2> QED BY <2>1
<1>4. ~(d < q)
  <2>1. ASSUME d < q PROVE FALSE
    <3>1. (d + 1) * m <= q * m
      BY <1>1, <2>1
    <3> QED BY <1>1, <1>2, <3>1
  <2> QED BY <2>1
<1>5. d = q
  BY <1>1, <1>3, <1>4
<1>6. e = r
  BY <1>1, <1>2, <1>5
<1> QED BY <1>5, <1>6 DEF n, d, e

LEMMA Sizes == BlockSize \in Nat \ {0} /\ MaxSize \in Nat
BY DataAssumption DEF DataAssumption

\* The place of a byte: which block, and where in it.
LEMMA Places ==
  ASSUME NEW p \in Nat
  PROVE  /\ block_index(p) \in Nat \ {0} /\ block_offset(p) \in InBlock
         /\ p = (block_index(p) - 1) * BlockSize + block_offset(p)
<1>1. /\ p \div BlockSize \in Nat /\ p % BlockSize \in 0 .. BlockSize - 1
      /\ p = (p \div BlockSize) * BlockSize + (p % BlockSize)
  BY DivMod, Sizes
<1>2. BlockSize \in Nat \ {0}
  BY Sizes
<1> DEFINE q == p \div BlockSize
<1>3. (q + 1) - 1 = q /\ q + 1 \in Nat \ {0}
  BY <1>1
<1> HIDE DEF q
<1>4. p = ((q + 1) - 1) * BlockSize + (p % BlockSize)
  BY <1>1, <1>3 DEF q
<1> QED BY <1>1, <1>3, <1>4 DEF block_index, block_offset, InBlock, q

LEMMA PlacesDiffer ==
  ASSUME NEW p \in Nat, NEW q \in Nat,
         block_index(p) = block_index(q), block_offset(p) = block_offset(q)
  PROVE  p = q
BY Places

\* Bytes that follow one another are in the same block up to its end.
LEMMA PlaceNear ==
  ASSUME NEW p \in Nat, NEW j \in Nat, block_offset(p) + j < BlockSize
  PROVE  block_index(p + j) = block_index(p) /\ block_offset(p + j) = block_offset(p) + j
<1>1. /\ BlockSize \in Nat \ {0} /\ p \div BlockSize \in Nat /\ p % BlockSize \in 0 .. BlockSize - 1
      /\ p = (p \div BlockSize) * BlockSize + (p % BlockSize)
  BY DivMod, Sizes
<1> DEFINE q == p \div BlockSize
           r == (p % BlockSize) + j
<1>2. r \in 0 .. BlockSize - 1 /\ p + j = q * BlockSize + r /\ q \in Nat
  BY <1>1 DEF block_offset
<1> HIDE DEF q, r
<1>3. (q * BlockSize + r) \div BlockSize = q /\ (q * BlockSize + r) % BlockSize = r
  BY <1>1, <1>2, DivModUnique
<1>4. (p + j) \div BlockSize = q /\ (p + j) % BlockSize = r
  BY <1>2, <1>3
<1> QED BY <1>4 DEF block_index, block_offset, q, r

LEMMA CeilDivLess ==
  ASSUME NEW n \in Nat, NEW k \in Nat
  PROVE  CeilDiv(n) \in Nat /\ (k < CeilDiv(n) <=> k * BlockSize < n)
<1> DEFINE q == CeilDiv(n)
<1>1. /\ BlockSize \in Nat \ {0} /\ q \in Nat
      /\ q * BlockSize <= n + BlockSize - 1 /\ n < q * BlockSize + 1
  BY DivMod, Sizes DEF CeilDiv
<1> HIDE DEF q
<1>2. ASSUME k < q PROVE k * BlockSize < n
  <2>1. (k + 1) * BlockSize <= q * BlockSize
    BY <1>1, <1>2
  <2> QED BY <2>1, <1>1
<1>3. ASSUME q <= k PROVE n <= k * BlockSize
  <2>1. q * BlockSize <= k * BlockSize
    BY <1>1, <1>3
  <2> QED BY <2>1, <1>1
<1> QED BY <1>1, <1>2, <1>3 DEF q

\* A byte below the size n has its block among those of the size n.
LEMMA PlaceInFile ==
  ASSUME NEW n \in Nat, NEW p \in Nat, p < n
  PROVE  block_index(p) \in 1 .. CeilDiv(n)
<1>1. /\ BlockSize \in Nat \ {0} /\ p \div BlockSize \in Nat /\ (p \div BlockSize) * BlockSize <= p
  BY DivMod, Sizes
<1>2. p \div BlockSize < CeilDiv(n) /\ CeilDiv(n) \in Nat
  BY <1>1, CeilDivLess
<1> QED BY <1>1, <1>2 DEF block_index

LEMMA CeilDivGrows ==
  ASSUME NEW n \in Nat, NEW m \in Nat, n <= m
  PROVE  CeilDiv(n) <= CeilDiv(m) /\ CeilDiv(m) <= m
<1>1. CeilDiv(n) \in Nat /\ CeilDiv(m) \in Nat /\ BlockSize \in Nat \ {0}
  BY CeilDivLess, Sizes
<1>2. ~(CeilDiv(m) < CeilDiv(n))
  BY <1>1, CeilDivLess
<1>3. m <= m * BlockSize
  BY <1>1
<1>4. ~(m < CeilDiv(m))
  BY <1>1, <1>3, CeilDivLess
<1> QED BY <1>1, <1>2, <1>4

LEMMA ModBelow == ASSUME NEW n \in Nat, NEW m \in Nat, n < m PROVE n % m = n
OBVIOUS

LEMMA ModOfNegative ==
  ASSUME NEW n \in Nat \ {0}, NEW m \in Nat, n < m
  PROVE  (0 - n) % m = m - n
OBVIOUS

-----------------------------------------------------------------------------
(* The allocator *)

LEMMA FreeCount ==
  ASSUME marked \subseteq Blocks
  PROVE  /\ IsFiniteSet(Free) /\ Cardinality(Free) \in Nat
         /\ Cardinality(Free) <= Cardinality(Blocks) /\ Cardinality(Blocks) \in Nat
<1>1. IsFiniteSet(Blocks) /\ Free \in SUBSET Blocks
  BY DataAssumption DEF Free
<1> QED BY <1>1, FS_Subset, FS_CardinalityType

\* A write that finds enough free blocks is not one whose demand wrapped around.
LEMMA NoWrap ==
  ASSUME TypeOK, NEW end \in 0 .. MaxSize, NewBlocksNeeded(end) <= Cardinality(Free)
  PROVE  /\ NewBlocksNeeded(end) \in Nat
         /\ CeilDiv(end) = CeilDiv(ino.size) + NewBlocksNeeded(end)
<1> DEFINE a == CeilDiv(end)
           c == CeilDiv(ino.size)
           need == NewBlocksNeeded(end)
<1>1. a \in Nat /\ c \in Nat /\ a <= MaxSize /\ c <= MaxSize
  <2>1. ino.size \in 0 .. MaxSize /\ MaxSize \in Nat
    BY DataAssumption DEF TypeOK, Inode, Offsets
  <2> QED BY <2>1, CeilDivLess, CeilDivGrows
<1>2. /\ UInt32 \in Nat /\ MaxSize \in Nat /\ Cardinality(Blocks) \in Nat
      /\ UInt32 > Cardinality(Blocks) + MaxSize
  BY FreeCount, DataAssumption DEF TypeOK
<1>3. need = (a - c) % UInt32
  BY DEF NewBlocksNeeded
<1>4. need <= Cardinality(Blocks)
  <2>1. need \in Int
    BY <1>1, <1>2, <1>3
  <2>2. need <= Cardinality(Free) /\ Cardinality(Free) <= Cardinality(Blocks)
        /\ Cardinality(Free) \in Nat
    BY FreeCount DEF TypeOK
  <2> HIDE DEF need
  <2> QED BY <1>2, <2>1, <2>2
<1> HIDE DEF a, c, need
<1>5. CASE c <= a
  <2>1. need = a - c
    BY <1>1, <1>2, <1>3, <1>5, ModBelow
  <2> QED BY <1>1, <1>5, <2>1 DEF a, c, need
<1>6. CASE a < c
  <2>1. PICK n \in Nat \ {0} : n = c - a /\ a - c = 0 - n /\ n < UInt32
    BY <1>1, <1>2, <1>6
  <2>2. need = UInt32 - n
    BY <1>2, <1>3, <2>1, ModOfNegative
  <2> QED BY <1>1, <1>2, <1>4, <2>1, <2>2
<1> QED BY <1>1, <1>5, <1>6

\* Every set of numbers has a least one.
LEMMA LeastOf ==
  ASSUME NEW T \in SUBSET Nat, T # {}
  PROVE  \E x \in T : \A y \in T : x <= y
<1>1. PICK x \in T : \A y \in T : ~ (<<y, x>> \in OpToRel(<, Nat))
  BY NatLessThanWellFounded, WFMin
<1>2. ASSUME NEW y \in T PROVE x <= y
  <2>1. x \in Nat /\ y \in Nat
    OBVIOUS
  <2>2. ~ (y < x)
    BY <1>1, <2>1 DEF OpToRel
  <2> QED BY <2>1, <2>2
<1> QED BY <1>2

\* s lists the lowest n members of F, in increasing order.
Lowest(F, n, s) ==
  /\ s \in [1 .. n -> F]
  /\ \A h, k \in 1 .. n : h < k => s[h] < s[k]
  /\ \A b \in F : (\E k \in 1 .. n : b < s[k]) => b \in {s[k] : k \in 1 .. n}

\* A list shorter than the set is large leaves a member out.
LEMMA SomeLeft ==
  ASSUME NEW F, IsFiniteSet(F), NEW n \in Nat, n < Cardinality(F), NEW s \in [1 .. n -> F]
  PROVE  F \ {s[k] : k \in 1 .. n} # {}
<1>1. SUFFICES ASSUME F \ {s[k] : k \in 1 .. n} = {} PROVE FALSE
  OBVIOUS
<1>2. s \in Surjection(1 .. n, F)
  BY <1>1 DEF Surjection
<1>3. IsFiniteSet(1 .. n) /\ Cardinality(1 .. n) = n
  <2>1. 1 \in Int /\ n \in Int /\ (IF 1 > n THEN 0 ELSE n - 1 + 1) = n
    OBVIOUS
  <2> QED BY <2>1, FS_Interval
<1>4. Cardinality(F) <= n /\ Cardinality(F) \in Nat
  BY <1>2, <1>3, FS_Surjection, FS_CardinalityType
<1> QED BY <1>4

LEMMA LowestLonger ==
  ASSUME NEW F \in SUBSET Nat, IsFiniteSet(F), NEW n \in Nat, n < Cardinality(F),
         NEW s, Lowest(F, n, s)
  PROVE  \E t : Lowest(F, n + 1, t)
<1> DEFINE R == {s[k] : k \in 1 .. n}
<1>1. /\ s \in [1 .. n -> F]
      /\ \A h, k \in 1 .. n : h < k => s[h] < s[k]
      /\ \A b \in F : (\E k \in 1 .. n : b < s[k]) => b \in R
  BY DEF Lowest
<1>2. PICK b \in F \ R : \A c \in F \ R : b <= c
  <2>1. F \ R # {} /\ F \ R \in SUBSET Nat
    BY <1>1, SomeLeft
  <2> HIDE DEF R
  <2> QED BY <2>1, LeastOf
<1>3. \A k \in 1 .. n : s[k] \in R /\ s[k] \in Nat /\ s[k] < b
  <2>1. ASSUME NEW k \in 1 .. n PROVE s[k] \in R /\ s[k] \in Nat /\ s[k] < b
    <3>1. s[k] \in R /\ s[k] \in Nat /\ b \in Nat
      BY <1>1
    <3>2. ~ (b < s[k])
      BY <1>1, <1>2
    <3>3. s[k] # b
      BY <3>1, <1>2
    <3> QED BY <3>1, <3>2, <3>3
  <2> QED BY <2>1
<1> DEFINE t == [k \in 1 .. n + 1 |-> IF k = n + 1 THEN b ELSE s[k]]
<1>4. \A k \in 1 .. n + 1 : k # n + 1 => k \in 1 .. n
  OBVIOUS
<1>5. t \in [1 .. n + 1 -> F]
  BY <1>1, <1>2, <1>4
<1>6. /\ n + 1 \in 1 .. n + 1 /\ t[n + 1] = b
      /\ \A k \in 1 .. n : k \in 1 .. n + 1 /\ t[k] = s[k]
  OBVIOUS
<1> HIDE DEF t
<1>7. \A h, k \in 1 .. n + 1 : h < k => t[h] < t[k]
  <2>1. ASSUME NEW h \in 1 .. n + 1, NEW k \in 1 .. n + 1, h < k PROVE t[h] < t[k]
    <3>1. h \in 1 .. n
      BY <2>1
    <3>2. CASE k = n + 1
      BY <1>3, <1>6, <3>1, <3>2
    <3>3. CASE k # n + 1
      BY <1>1, <1>4, <1>6, <2>1, <3>1, <3>3
    <3> QED BY <3>2, <3>3
  <2> QED BY <2>1
<1>8. ASSUME NEW c \in F, NEW k \in 1 .. n + 1, c < t[k]
      PROVE  c \in {t[j] : j \in 1 .. n + 1}
  <2>1. c \in R
    <3>1. CASE k = n + 1
      <4>1. c < b /\ b \in Nat /\ c \in Nat
        BY <1>6, <1>8, <3>1
      <4>2. ~ (b <= c)
        BY <4>1
      <4> QED BY <1>2, <4>2
    <3>2. CASE k # n + 1
      BY <1>1, <1>4, <1>6, <1>8, <3>2
    <3> QED BY <3>1, <3>2
  <2>2. PICK j \in 1 .. n : c = s[j]
    BY <2>1
  <2> QED BY <1>6, <2>2
<1>9. Lowest(F, n + 1, t)
  BY <1>5, <1>7, <1>8 DEF Lowest
<1> QED BY <1>9

LEMMA LowestExists ==
  ASSUME NEW F \in SUBSET Nat, IsFiniteSet(F), NEW n \in Nat, n <= Cardinality(F)
  PROVE  \E s : Lowest(F, n, s)
<1> DEFINE T == {m \in 0 .. n : ~ \E s : Lowest(F, m, s)}
<1>1. SUFFICES ASSUME T # {} PROVE FALSE
  OBVIOUS
<1>2. PICK m \in T : \A y \in T : m <= y
  <2>1. T \in SUBSET Nat
    OBVIOUS
  <2> QED BY <1>1, <2>1, LeastOf
<1>3. m \in 0 .. n /\ ~ \E s : Lowest(F, m, s)
  OBVIOUS
<1>4. CASE m = 0
  <2>1. Lowest(F, 0, [k \in 1 .. 0 |-> 0])
    BY DEF Lowest
  <2> QED BY <1>3, <1>4, <2>1
<1>5. CASE m # 0
  <2>1. m - 1 \in Nat /\ m - 1 \in 0 .. n /\ m - 1 < n /\ (m - 1) + 1 = m /\ ~ (m <= m - 1)
    BY <1>3, <1>5
  <2>2. m - 1 \notin T
    BY <1>2, <2>1
  <2>3. PICK s : Lowest(F, m - 1, s)
    BY <2>1, <2>2
  <2>4. m - 1 < Cardinality(F)
    BY <2>1, FS_CardinalityType
  <2>5. \E t : Lowest(F, (m - 1) + 1, t)
    BY <2>1, <2>3, <2>4, LowestLonger
  <2> QED BY <1>3, <2>1, <2>5
<1> QED BY <1>4, <1>5

\* get_free_blk finds blocks that are free, and no two of them are the same.
LEMMA AllocatedBlocks ==
  ASSUME marked \subseteq Blocks, NEW n \in Nat, n <= Cardinality(Free)
  PROVE  /\ Allocated(n) \in [1 .. n -> Free] /\ Allocated(n) \in Seq(Blocks)
         /\ Len(Allocated(n)) = n
         /\ \A h, k \in 1 .. n : Allocated(n)[h] = Allocated(n)[k] => h = k
<1>1. Free \in SUBSET Nat /\ Free \subseteq Blocks /\ IsFiniteSet(Free)
  BY FreeCount, DataAssumption DEF Free
<1>2. Allocated(n) = CHOOSE s \in [1 .. n -> Free] : Lowest(Free, n, s)
  BY DEF Allocated, Lowest
<1>3. PICK s : s \in [1 .. n -> Free] /\ Lowest(Free, n, s)
  <2>1. \E s : Lowest(Free, n, s)
    BY <1>1, LowestExists
  <2>2. \A s : Lowest(Free, n, s) => s \in [1 .. n -> Free]
    BY DEF Lowest
  <2> QED BY <2>1, <2>2
<1>4. Allocated(n) \in [1 .. n -> Free] /\ Lowest(Free, n, Allocated(n))
  BY <1>2, <1>3
<1> DEFINE a == Allocated(n)
<1> HIDE DEF a
<1>5. /\ a \in [1 .. n -> Free]
      /\ \A h, k \in 1 .. n : h < k => a[h] < a[k]
  BY <1>4 DEF Lowest, a
<1>6. ASSUME NEW h \in 1 .. n, NEW k \in 1 .. n, a[h] = a[k] PROVE h = k
  <2>1. a[h] \in Nat /\ a[k] \in Nat
    BY <1>1, <1>5
  <2>2. ~ (h < k) /\ ~ (k < h)
    BY <1>5, <1>6, <2>1
  <2> QED BY <2>2
<1>7. a \in [1 .. n -> Blocks]
  BY <1>1, <1>5
<1>8. a \in Seq(Blocks) /\ Len(a) = n
  BY <1>7
<1> QED BY <1>5, <1>6, <1>8 DEF a

-----------------------------------------------------------------------------
(* The parts of the state, and the inductive invariants *)

LEMMA InodeParts ==
  ASSUME TypeOK
  PROVE  /\ ino.size \in Offsets /\ ino.size \in Nat /\ ino.ptrs \in Seq(Blocks)
         /\ ino = [size |-> ino.size, ptrs |-> ino.ptrs]
         /\ Len(ino.ptrs) = CeilDiv(ino.size) /\ Len(ino.ptrs) \in Nat
<1>1. ino \in Inode /\ Len(ino.ptrs) = CeilDiv(ino.size)
  BY DEF TypeOK
<1>2. ino.size \in Offsets /\ ino.size \in Nat /\ ino.ptrs \in Seq(Blocks)
  BY <1>1, Sizes DEF Inode, Offsets
<1>3. ino = [size |-> ino.size, ptrs |-> ino.ptrs]
  BY <1>1 DEF Inode
<1>4. Len(ino.ptrs) \in Nat
  BY <1>2
<1> QED BY <1>1, <1>2, <1>3, <1>4

LEMMA ReadParts ==
  ASSUME TypeOK, call.op = "read"
  PROVE  /\ call = [op |-> "read", off |-> call.off, want |-> call.want, len |-> call.len,
                    got |-> call.got]
         /\ call.off \in Offsets /\ call.want \in Offsets /\ call.len \in Offsets
         /\ call.off \in Nat /\ call.want \in Nat /\ call.len \in Nat
         /\ call.got \in Seq(Byte) /\ Len(call.got) \in Nat
<1>1. call \in [op : {"read"}, off : Offsets, want : Offsets, len : Offsets, got : Seq(Byte)]
  BY DEF TypeOK, Idle
<1>2. Offsets \subseteq Nat
  BY Sizes DEF Offsets
<1>3. call = [op |-> "read", off |-> call.off, want |-> call.want, len |-> call.len,
              got |-> call.got]
  BY <1>1
<1>4. /\ call.off \in Offsets /\ call.want \in Offsets /\ call.len \in Offsets
      /\ call.got \in Seq(Byte)
  BY <1>1
<1> QED BY <1>2, <1>3, <1>4

LEMMA WriteParts ==
  ASSUME TypeOK, call.op \in {"write", "save"}
  PROVE  /\ call = [op |-> call.op, off |-> call.off, data |-> call.data, done |-> call.done,
                    ino |-> call.ino, grows |-> call.grows]
         /\ call.off \in Offsets /\ call.off \in Nat
         /\ call.data \in Buffers /\ call.data \in Seq(Byte) /\ Len(call.data) \in Nat
         /\ call.done \in Offsets /\ call.done \in Nat
         /\ call.ino \in Inode /\ call.ino.ptrs \in Seq(Blocks) /\ Len(call.ino.ptrs) \in Nat
         /\ call.ino = [size |-> call.ino.size, ptrs |-> call.ino.ptrs]
         /\ call.grows \in BOOLEAN
<1>1. call \in [op : {"write", "save"}, off : Offsets, data : Buffers, done : Offsets,
                ino : Inode, grows : BOOLEAN]
  BY DEF TypeOK, Idle
<1>2. Offsets \subseteq Nat /\ Buffers \subseteq Seq(Byte)
  BY Sizes, DataAssumption DEF Offsets, DataAssumption
<1>3. call.data \in Seq(Byte) /\ Len(call.data) \in Nat
  BY <1>1, <1>2
<1>4. /\ call.ino \in Inode /\ call.ino.ptrs \in Seq(Blocks) /\ Len(call.ino.ptrs) \in Nat
      /\ call.ino = [size |-> call.ino.size, ptrs |-> call.ino.ptrs]
  BY <1>1 DEF Inode
<1> QED BY <1>1, <1>2, <1>3, <1>4

LEMMA Chunks ==
  ASSUME NEW p \in Nat, NEW n \in Nat \ {0}
  PROVE  /\ chunk(p, n) \in 1 .. n
         /\ block_offset(p) \in InBlock /\ block_offset(p) + chunk(p, n) <= BlockSize
<1>1. block_offset(p) \in InBlock
  BY Places
<1>2. PICK o \in 0 .. BlockSize - 1 : o = block_offset(p)
  BY <1>1 DEF InBlock
<1>3. BlockSize \in Nat \ {0} /\ chunk(p, n) = IF n < BlockSize - o THEN n ELSE BlockSize - o
  BY <1>2, Sizes DEF chunk, Smaller
<1>4. chunk(p, n) \in 1 .. n /\ o + chunk(p, n) <= BlockSize
  BY <1>3
<1> QED BY <1>1, <1>2, <1>4

LEMMA SizeIsLarger ==
  ASSUME NEW m \in Int, NEW n \in Int
  PROVE  Larger(m, n) \in {m, n} /\ m <= Larger(m, n) /\ n <= Larger(m, n)
BY DEF Larger

\* A read under way has got no more than the part of the file it returns.
ReadFits ==
  call.op = "read" => call.len = clipped(call.off, call.want) /\ Len(call.got) <= call.len

End == call.off + Len(call.data)

\* A write under way has a pointer for every block up to the end of its data.
WriteFits ==
  call.op \in {"write", "save"} =>
    /\ End <= MaxSize /\ call.off <= ino.size /\ call.done <= Len(call.data)
    /\ IF call.op = "write"
       THEN /\ call.ino.size = ino.size /\ CeilDiv(ino.size) <= CeilDiv(End)
            /\ Len(call.ino.ptrs) = CeilDiv(End)
       ELSE call.done = Len(call.data) /\ End <= ino.size

Fits == TypeOK /\ ReadFits /\ WriteFits

OwnBlocks(ptrs) ==
  /\ \A k \in 1 .. Len(ptrs) : ptrs[k] \in marked
  /\ \A h, k \in 1 .. Len(ptrs) : ptrs[h] = ptrs[k] => h = k

\* The byte at an offset (counted from 0) of a file with these pointers.
ByteAt(im, ptrs, p) == im[ptrs[block_index(p)]][block_offset(p)]

\* What a call has read is what the file holds, what it has written is where it belongs.
DataThere ==
  /\ OwnBlocks(ino.ptrs)
  /\ call.op = "read" =>
       \A k \in 1 .. Len(call.got) : call.got[k] = ByteAt(image, ino.ptrs, call.off + k - 1)
  /\ call.op = "write" =>
       /\ OwnBlocks(call.ino.ptrs)
       /\ \A k \in 1 .. Len(ino.ptrs) : call.ino.ptrs[k] = ino.ptrs[k]
       /\ \A k \in 1 .. call.done :
            ByteAt(image, call.ino.ptrs, call.off + k - 1) = call.data[k]
  /\ call.op = "save" =>
       \A k \in 1 .. call.done : ByteAt(image, ino.ptrs, call.off + k - 1) = call.data[k]

DataInv == Fits /\ (~torn => DataThere)

\* The block of a byte below the size is one of the pointers that are set.
LEMMA BlockThere ==
  ASSUME NEW ptrs \in Seq(Blocks), NEW n \in Nat, Len(ptrs) = CeilDiv(n),
         NEW p \in Nat, p < n
  PROVE  block_index(p) \in 1 .. Len(ptrs) /\ ptrs[block_index(p)] \in Blocks
<1>1. block_index(p) \in 1 .. Len(ptrs)
  BY PlaceInFile
<1> QED BY <1>1, ElementOfSeq

LEMMA ReadPlace ==
  ASSUME Fits, call.op = "read", Len(call.got) < call.len
  PROVE  /\ call.off + call.len <= ino.size
         /\ call.off + Len(call.got) \in Nat /\ call.off + Len(call.got) < ino.size
         /\ call.len - Len(call.got) \in Nat \ {0}
<1>1. /\ call.off \in Nat /\ call.want \in Nat /\ call.len \in Nat /\ Len(call.got) \in Nat
      /\ ino.size \in Nat
  BY ReadParts, InodeParts DEF Fits
<1>2. call.len = clipped(call.off, call.want)
  BY DEF Fits, ReadFits
<1> QED BY SMTT(30), <1>1, <1>2 DEF clipped, Smaller

LEMMA WritePlace ==
  ASSUME Fits, call.op = "write", Left > 0
  PROVE  /\ call.off + call.done \in Nat /\ call.off + call.done < End /\ Left \in Nat \ {0}
         /\ End \in Nat /\ Len(call.ino.ptrs) = CeilDiv(End)
         /\ block_index(call.off + call.done) \in 1 .. Len(call.ino.ptrs)
         /\ Target \in Blocks
         /\ Chunk \in 1 .. Left
         /\ block_offset(call.off + call.done) \in InBlock
         /\ block_offset(call.off + call.done) + Chunk <= BlockSize
<1>1. /\ call.off \in Nat /\ call.done \in Nat /\ Len(call.data) \in Nat
      /\ call.ino.ptrs \in Seq(Blocks)
  BY WriteParts DEF Fits
<1>2. /\ call.off + call.done \in Nat /\ call.off + call.done < End /\ Left \in Nat \ {0}
      /\ End \in Nat
  BY <1>1 DEF Left, End
<1>3. Len(call.ino.ptrs) = CeilDiv(End)
  BY DEF Fits, WriteFits
<1>4. /\ block_index(call.off + call.done) \in 1 .. Len(call.ino.ptrs)
      /\ Target \in Blocks
  BY <1>1, <1>2, <1>3, BlockThere DEF Target
<1>5. /\ Chunk \in 1 .. Left /\ block_offset(call.off + call.done) \in InBlock
      /\ block_offset(call.off + call.done) + Chunk <= BlockSize
  BY <1>2, Chunks DEF Chunk
<1> QED BY <1>2, <1>3, <1>4, <1>5

\* What one turn of fs_read's loop appends.
NextPart ==
  LET pos == call.off + Len(call.got) IN
  [k \in 1 .. chunk(pos, call.len - Len(call.got)) |->
     image[ino.ptrs[block_index(pos)]][block_offset(pos) + k - 1]]

LEMMA ReadGets ==
  ASSUME Fits, call.op = "read", Len(call.got) < call.len
  PROVE  /\ NextPart \in Seq(Byte) /\ call.got \o NextPart \in Seq(Byte)
         /\ Len(NextPart) \in 1 .. call.len - Len(call.got)
         /\ Len(call.got \o NextPart) = Len(call.got) + Len(NextPart)
         /\ \A k \in 1 .. Len(NextPart) :
              NextPart[k] = ByteAt(image, ino.ptrs, call.off + Len(call.got) + k - 1)
<1> DEFINE pos == call.off + Len(call.got)
           n == chunk(pos, call.len - Len(call.got))
<1>1. /\ pos \in Nat /\ pos < ino.size /\ call.len - Len(call.got) \in Nat \ {0}
      /\ ino.ptrs \in Seq(Blocks) /\ ino.size \in Nat /\ Len(ino.ptrs) = CeilDiv(ino.size)
  BY ReadPlace, InodeParts DEF Fits
<1>2. /\ n \in 1 .. call.len - Len(call.got) /\ block_offset(pos) \in InBlock
      /\ block_offset(pos) + n <= BlockSize
  <2> HIDE DEF pos
  <2> QED BY <1>1, Chunks
<1>3. ino.ptrs[block_index(pos)] \in Blocks
  <2> HIDE DEF pos
  <2> QED BY <1>1, BlockThere
<1>4. NextPart = [k \in 1 .. n |-> image[ino.ptrs[block_index(pos)]][block_offset(pos) + k - 1]]
  BY DEF NextPart
<1>5. call.got \in Seq(Byte) /\ Len(call.got) \in Nat /\ n \in Nat
  <2> HIDE DEF pos
  <2> QED BY <1>1, <1>2, ReadParts DEF Fits
<1> HIDE DEF pos, n
<1>6. ASSUME NEW k \in 1 .. n
      PROVE  /\ image[ino.ptrs[block_index(pos)]][block_offset(pos) + k - 1] \in Byte
             /\ image[ino.ptrs[block_index(pos)]][block_offset(pos) + k - 1]
                  = ByteAt(image, ino.ptrs, pos + k - 1)
  <2>1. k - 1 \in Nat /\ block_offset(pos) + (k - 1) < BlockSize
        /\ block_offset(pos) + (k - 1) = block_offset(pos) + k - 1
        /\ pos + (k - 1) = pos + k - 1 /\ block_offset(pos) + k - 1 \in InBlock
    BY SMTT(30), <1>1, <1>2, <1>5, Sizes DEF InBlock
  <2>2. /\ block_index(pos + (k - 1)) = block_index(pos)
        /\ block_offset(pos + (k - 1)) = block_offset(pos) + (k - 1)
    BY <1>1, <2>1, PlaceNear
  <2>3. image \in [Blocks -> [InBlock -> Byte]]
    BY DEF Fits, TypeOK
  <2>4. image[ino.ptrs[block_index(pos)]] \in [InBlock -> Byte]
    BY <1>3, <2>3
  <2>5. image[ino.ptrs[block_index(pos)]][block_offset(pos) + k - 1] \in Byte
    BY <2>1, <2>4
  <2> QED BY <2>1, <2>2, <2>5 DEF ByteAt
<1>7. NextPart \in [1 .. n -> Byte]
  BY <1>4, <1>6
<1>8. NextPart \in Seq(Byte) /\ Len(NextPart) = n
  BY <1>5, <1>7
<1>9. /\ call.got \o NextPart \in Seq(Byte)
      /\ Len(call.got \o NextPart) = Len(call.got) + Len(NextPart)
  BY <1>5, <1>8, ConcatProperties
<1>10. \A k \in 1 .. n : NextPart[k] = ByteAt(image, ino.ptrs, pos + k - 1)
  BY <1>4, <1>6
<1> QED BY <1>2, <1>8, <1>9, <1>10 DEF pos

\* What is written to a block: data in its place, and around it what was there.
LEMMA WhatIsWritten ==
  ASSUME Fits, call.op = "write", Left > 0
  PROVE  LET from == block_offset(call.off + call.done) IN
         /\ Filled \in [InBlock -> Byte]
         /\ \A k \in InBlock :
              Filled[k] = IF k \in from .. from + Chunk - 1
                          THEN call.data[call.done + k - from + 1] ELSE image[Target][k]
<1> DEFINE from == block_offset(call.off + call.done)
<1>1. /\ Target \in Blocks /\ Chunk \in 1 .. Left /\ from \in InBlock
      /\ from + Chunk <= BlockSize /\ Left \in Nat \ {0}
  BY WritePlace
<1>2. /\ call.done \in Nat /\ call.data \in Seq(Byte) /\ Len(call.data) \in Nat
      /\ Left = Len(call.data) - call.done
  BY WriteParts DEF Fits, Left
<1>3. Filled = [k \in InBlock |->
                  IF k \in from .. from + Chunk - 1 THEN call.data[call.done + k - from + 1]
                  ELSE Buffer(Target, from, Chunk)[k]]
  BY DEF Filled
<1>4. image[Target] \in [InBlock -> Byte]
  BY <1>1 DEF Fits, TypeOK
<1> HIDE DEF from
<1>5. ASSUME NEW k \in InBlock
      PROVE  /\ Filled[k] = IF k \in from .. from + Chunk - 1
                            THEN call.data[call.done + k - from + 1] ELSE image[Target][k]
             /\ Filled[k] \in Byte
  <2>1. k \in Nat /\ k < BlockSize /\ from \in Nat /\ Chunk \in Nat
    BY <1>1, Sizes DEF InBlock
  <2>2. CASE k \in from .. from + Chunk - 1
    <3>1. call.done + k - from + 1 \in 1 .. Len(call.data)
      BY SMTT(30), <1>1, <1>2, <2>1, <2>2
    <3>2. call.data[call.done + k - from + 1] \in Byte
      BY <1>2, <3>1, ElementOfSeq
    <3> QED BY <1>3, <2>2, <3>2
  <2>3. CASE k \notin from .. from + Chunk - 1
    <3>1. from > 0 \/ Chunk < BlockSize
      BY <1>1, <2>1, <2>3, Sizes
    <3>2. Buffer(Target, from, Chunk) = image[Target]
      BY <3>1 DEF Buffer
    <3> QED BY <1>3, <1>4, <2>3, <3>2
  <2> QED BY <2>2, <2>3
<1>6. Filled \in [InBlock -> Byte]
  BY <1>3, <1>5
<1> QED BY <1>5, <1>6 DEF from

\* The inode that a write leaves behind.
LEMMA NewInode ==
  ASSUME Fits, call.op = "write"
  PROVE  LET new == [call.ino EXCEPT !.size = NewSize] IN
         /\ new \in Inode /\ new.size = NewSize /\ new.ptrs = call.ino.ptrs
         /\ Len(new.ptrs) = CeilDiv(new.size)
         /\ NewSize \in Nat /\ End <= NewSize /\ ino.size <= NewSize
         /\ NewSize \in {ino.size, End}
<1>1. /\ call.ino \in Inode /\ call.ino.ptrs \in Seq(Blocks)
      /\ call.off \in Nat /\ Len(call.data) \in Nat
      /\ call.ino = [size |-> call.ino.size, ptrs |-> call.ino.ptrs]
  BY WriteParts DEF Fits
<1>2. ino.size \in Nat /\ ino.size \in Offsets
  BY InodeParts DEF Fits
<1>3. /\ End \in Nat /\ End \in Offsets /\ NewSize = Larger(ino.size, End)
      /\ CeilDiv(ino.size) <= CeilDiv(End) /\ Len(call.ino.ptrs) = CeilDiv(End)
  BY <1>1, Sizes DEF Fits, WriteFits, NewSize, End, Offsets
<1>4. /\ NewSize \in {ino.size, End} /\ End <= NewSize /\ ino.size <= NewSize
      /\ NewSize \in Nat /\ NewSize \in Offsets
  BY <1>2, <1>3, SizeIsLarger
<1>5. CeilDiv(NewSize) = CeilDiv(End)
  <2>1. CASE NewSize = End
    BY <2>1
  <2>2. CASE NewSize = ino.size
    <3>1. CeilDiv(End) <= CeilDiv(ino.size) /\ CeilDiv(End) \in Nat /\ CeilDiv(ino.size) \in Nat
      BY <1>2, <1>3, <1>4, <2>2, CeilDivGrows, CeilDivLess
    <3> QED BY <1>3, <2>2, <3>1
  <2> QED BY <1>4, <2>1, <2>2
<1> DEFINE new == [call.ino EXCEPT !.size = NewSize]
<1>6. new = [size |-> NewSize, ptrs |-> call.ino.ptrs]
  BY <1>1
<1>7. new \in Inode /\ new.size = NewSize /\ new.ptrs = call.ino.ptrs
  BY <1>1, <1>4, <1>6 DEF Inode
<1> HIDE DEF new
<1>8. Len(new.ptrs) = CeilDiv(new.size)
  BY <1>3, <1>5, <1>7
<1> QED BY <1>4, <1>7, <1>8 DEF new

\* The pointers that fs_write prepares.
LEMMA NewPointers ==
  ASSUME Fits, call = Idle, NEW off \in Offsets, NEW data \in Buffers,
         off + Len(data) <= MaxSize, NewBlocksNeeded(off + Len(data)) <= Cardinality(Free)
  PROVE  LET need == NewBlocksNeeded(off + Len(data))
             new == [ino EXCEPT !.ptrs = @ \o Allocated(need)]
         IN
         /\ need \in Nat /\ new \in Inode /\ new.size = ino.size
         /\ new.ptrs = ino.ptrs \o Allocated(need)
         /\ Len(new.ptrs) = CeilDiv(off + Len(data))
         /\ Len(new.ptrs) = Len(ino.ptrs) + need
         /\ CeilDiv(ino.size) <= CeilDiv(off + Len(data))
         /\ off \in Nat /\ Len(data) \in Nat /\ data \in Seq(Byte)
<1> DEFINE need == NewBlocksNeeded(off + Len(data))
           new == [ino EXCEPT !.ptrs = @ \o Allocated(need)]
<1>1. off \in Nat /\ Len(data) \in Nat /\ data \in Seq(Byte) /\ off + Len(data) \in 0 .. MaxSize
  <2>1. data \in Seq(Byte)
    BY DataAssumption DEF DataAssumption
  <2> QED BY <2>1, Sizes DEF Offsets
<1>2. /\ ino.size \in Offsets /\ ino.ptrs \in Seq(Blocks)
      /\ ino = [size |-> ino.size, ptrs |-> ino.ptrs]
      /\ Len(ino.ptrs) = CeilDiv(ino.size) /\ Len(ino.ptrs) \in Nat
  BY InodeParts DEF Fits
<1>3. need \in Nat /\ CeilDiv(off + Len(data)) = CeilDiv(ino.size) + need
  BY <1>1, NoWrap DEF Fits
<1>4. Allocated(need) \in Seq(Blocks) /\ Len(Allocated(need)) = need
  <2>1. marked \subseteq Blocks
    BY DEF Fits, TypeOK
  <2> HIDE DEF need
  <2>2. need <= Cardinality(Free)
    BY DEF need
  <2> QED BY <1>3, <2>1, <2>2, AllocatedBlocks
<1>5. /\ ino.ptrs \o Allocated(need) \in Seq(Blocks)
      /\ Len(ino.ptrs \o Allocated(need)) = Len(ino.ptrs) + need
  <2> HIDE DEF need
  <2> QED BY <1>2, <1>4, ConcatProperties
<1> HIDE DEF need
<1>6. new = [size |-> ino.size, ptrs |-> ino.ptrs \o Allocated(need)]
  <2>1. ino \in [size : Offsets, ptrs : Seq(Blocks)]
    BY DEF Fits, TypeOK, Inode
  <2>2. PICK all : all = ino.ptrs \o Allocated(need)
    OBVIOUS
  <2>3. new = [ino EXCEPT !.ptrs = all]
    BY <2>2
  <2>4. [ino EXCEPT !.ptrs = all] = [size |-> ino.size, ptrs |-> all]
    BY <2>1
  <2> QED BY <2>2, <2>3, <2>4
<1>7. new \in Inode /\ new.size = ino.size /\ new.ptrs = ino.ptrs \o Allocated(need)
  BY <1>2, <1>5, <1>6 DEF Inode
<1> HIDE DEF new
<1>8. /\ Len(new.ptrs) = CeilDiv(off + Len(data)) /\ Len(new.ptrs) = Len(ino.ptrs) + need
      /\ CeilDiv(ino.size) <= CeilDiv(off + Len(data))
  BY <1>2, <1>3, <1>5, <1>7
<1> QED BY <1>1, <1>3, <1>7, <1>8 DEF need, new

-----------------------------------------------------------------------------
(* Every step keeps the types and the fits *)

DiskOK ==
  /\ image \in [Blocks -> [InBlock -> Byte]]
  /\ ino \in Inode /\ Len(ino.ptrs) = CeilDiv(ino.size)
  /\ marked \subseteq Blocks /\ torn \in BOOLEAN

CallOK ==
  \/ call = Idle
  \/ call \in [op : {"read"}, off : Offsets, want : Offsets, len : Offsets, got : Seq(Byte)]
  \/ call \in [op : {"write", "save"}, off : Offsets, data : Buffers, done : Offsets,
               ino : Inode, grows : BOOLEAN]

AnswerOK ==
  \/ answer.code \in {"none", "EINVAL", "ENOSPC", "EIO"}
  \/ answer.code = "ok" /\ answer \in [code : {"ok"}, bytes : Seq(Byte)]
                             \cup [code : {"ok"}, count : Offsets]

LEMMA TypeIs ==
  /\ TypeOK <=> DiskOK /\ CallOK /\ AnswerOK
  /\ TypeOK' <=> DiskOK' /\ CallOK' /\ AnswerOK'
<1>1. TypeOK <=> DiskOK /\ CallOK /\ AnswerOK
  BY DEF TypeOK, DiskOK, CallOK, AnswerOK
<1>2. TypeOK' <=> DiskOK' /\ CallOK' /\ AnswerOK'
  BY DEF TypeOK, DiskOK, CallOK, AnswerOK
<1> QED BY <1>1, <1>2

\* A call that returns leaves nothing to fit.
LEMMA IdleFits ==
  ASSUME DiskOK', call' = Idle, AnswerOK'
  PROVE  Fits'
<1>1. CallOK' /\ TypeOK'
  BY TypeIs DEF CallOK
<1>2. call'.op = "idle"
  BY DEF Idle
<1>3. ReadFits' /\ WriteFits'
  BY <1>2 DEF ReadFits, WriteFits
<1> QED BY <1>1, <1>3 DEF Fits

LEMMA AnswerTypes ==
  /\ \A e \in {"EINVAL", "ENOSPC", "EIO"} : Error(e).code = e
  /\ \A n \in Offsets : Count(n).code = "ok" /\ Count(n) \in [code : {"ok"}, count : Offsets]
  /\ \A s \in Seq(Byte) : BytesRead(s).code = "ok"
                          /\ BytesRead(s) \in [code : {"ok"}, bytes : Seq(Byte)]
  /\ NoAnswer.code = "none"
BY DEF Error, Count, BytesRead, NoAnswer

LEMMA SameDisk ==
  ASSUME Fits, UNCHANGED <<image, ino, torn>>, marked' \subseteq Blocks
  PROVE  DiskOK'
BY TypeIs DEF Fits, DiskOK

LEMMA BeginReadFits ==
  ASSUME Fits, NEW off \in Offsets, NEW len \in Offsets, begin_read(off, len)
  PROVE  Fits'
<1>1. /\ UNCHANGED <<image, ino, marked, torn>> /\ answer' = NoAnswer
      /\ call' = [op |-> "read", off |-> off, want |-> len, len |-> clipped(off, len),
                  got |-> <<>>]
  BY DEF begin_read
<1>2. off \in Nat /\ len \in Nat /\ len <= MaxSize /\ ino.size \in Nat /\ MaxSize \in Nat
  BY InodeParts, Sizes DEF Fits, Offsets
<1>3. clipped(off, len) \in Nat /\ clipped(off, len) <= len
  BY <1>2 DEF clipped, Smaller
<1>4. clipped(off, len) \in Offsets
  BY <1>2, <1>3 DEF Offsets
<1>5. DiskOK' /\ AnswerOK'
  <2>1. marked' \subseteq Blocks
    BY <1>1, TypeIs DEF Fits, DiskOK
  <2> QED BY <1>1, <2>1, SameDisk, AnswerTypes DEF AnswerOK
<1>6. <<>> \in Seq(Byte) /\ Len(<<>>) = 0
  BY EmptySeq
<1>7. CallOK'
  BY <1>1, <1>4, <1>6 DEF CallOK
<1>8. /\ call'.op = "read" /\ call'.off = off /\ call'.want = len
      /\ call'.len = clipped(off, len) /\ call'.got = <<>>
  BY <1>1
<1>9. ReadFits' /\ WriteFits'
  <2>2. Len(call'.got) <= call'.len
    BY <1>3, <1>6, <1>8
  <2>3. call'.len = clipped(call.off, call.want)'
    BY <1>1, <1>8 DEF clipped
  <2> QED BY <1>8, <2>2, <2>3 DEF ReadFits, WriteFits
<1> QED BY <1>5, <1>7, <1>9, TypeIs DEF Fits

LEMMA ReadBlockFits ==
  ASSUME Fits, ReadBlock
  PROVE  /\ Fits'
         /\ call' = [call EXCEPT !.got = call.got \o NextPart]
<1>1. /\ UNCHANGED <<image, ino, marked, torn, answer>>
      /\ call.op = "read" /\ Len(call.got) < call.len
      /\ call' = [call EXCEPT !.got = call.got \o NextPart]
  BY DEF ReadBlock, NextPart
<1>2. /\ call.got \o NextPart \in Seq(Byte)
      /\ Len(NextPart) \in 1 .. call.len - Len(call.got)
      /\ Len(call.got \o NextPart) = Len(call.got) + Len(NextPart)
  BY <1>1, ReadGets
<1>3. /\ call = [op |-> "read", off |-> call.off, want |-> call.want, len |-> call.len,
                 got |-> call.got]
      /\ call.off \in Offsets /\ call.want \in Offsets /\ call.len \in Offsets
      /\ call.len \in Nat /\ Len(call.got) \in Nat
  BY <1>1, ReadParts DEF Fits
<1>4. PICK all : all = call.got \o NextPart
  OBVIOUS
<1>5. call' = [op |-> "read", off |-> call.off, want |-> call.want, len |-> call.len,
               got |-> all]
  <2>1. call' = [call EXCEPT !.got = all]
    BY <1>1, <1>4
  <2>2. call \in [op : {"read"}, off : Offsets, want : Offsets, len : Offsets, got : Seq(Byte)]
    BY <1>1 DEF Fits, TypeOK, Idle
  <2> QED BY <1>1, <2>1, <2>2
<1>6. all \in Seq(Byte) /\ Len(all) <= call.len
  BY <1>2, <1>3, <1>4
<1>7. /\ call'.op = "read" /\ call'.off = call.off /\ call'.want = call.want
      /\ call'.len = call.len /\ call'.got = all
  BY <1>5
<1>8. CallOK'
  BY <1>3, <1>5, <1>6 DEF CallOK
<1>9. DiskOK' /\ AnswerOK'
  BY <1>1, TypeIs DEF Fits, DiskOK, AnswerOK
<1>10. ReadFits' /\ WriteFits'
  <2>1. call.len = clipped(call.off, call.want)
    BY <1>1 DEF Fits, ReadFits
  <2>2. call'.len = clipped(call.off, call.want)'
    BY <1>1, <1>7, <2>1 DEF clipped
  <2> QED BY <1>6, <1>7, <2>2 DEF ReadFits, WriteFits
<1> QED BY <1>1, <1>8, <1>9, <1>10, TypeIs DEF Fits

LEMMA BeginWriteFits ==
  ASSUME Fits, NEW off \in Offsets, NEW data \in Buffers, off + Len(data) <= MaxSize,
         begin_write(off, data)
  PROVE  Fits'
<1> DEFINE need == NewBlocksNeeded(off + Len(data))
           new == [ino EXCEPT !.ptrs = @ \o Allocated(need)]
           grows == CeilDiv(off + Len(data)) > CeilDiv(ino.size)
<1>1. UNCHANGED <<image, ino, torn>> /\ call = Idle /\ marked \subseteq Blocks
  BY TypeIs DEF begin_write, Fits, DiskOK
<1>2. CASE off > ino.size /\ Returns(Error("EINVAL")) /\ UNCHANGED marked
  BY <1>1, <1>2, SameDisk, AnswerTypes, IdleFits DEF Returns, AnswerOK
<1>3. CASE Returns(Error("ENOSPC")) /\ marked' = Blocks
  BY <1>1, <1>3, SameDisk, AnswerTypes, IdleFits DEF Returns, AnswerOK
<1>4. CASE /\ off <= ino.size /\ need <= Cardinality(Free)
           /\ marked' = marked \cup {Allocated(need)[k] : k \in 1 .. need}
           /\ call' = [op |-> "write", off |-> off, data |-> data, done |-> 0, ino |-> new,
                       grows |-> grows]
           /\ answer' = NoAnswer
  <2>1. /\ need \in Nat /\ new \in Inode /\ new.size = ino.size
        /\ Len(new.ptrs) = CeilDiv(off + Len(data))
        /\ CeilDiv(ino.size) <= CeilDiv(off + Len(data))
        /\ off \in Nat /\ Len(data) \in Nat
    BY <1>1, <1>4, NewPointers
  <2> HIDE DEF need
  <2>2. marked' \subseteq Blocks
    <3>1. need <= Cardinality(Free)
      BY <1>4
    <3>2. Allocated(need) \in [1 .. need -> Free] /\ Free \subseteq Blocks
      BY <1>1, <2>1, <3>1, AllocatedBlocks DEF Free
    <3>3. \A k \in 1 .. need : Allocated(need)[k] \in Blocks
      BY <3>2
    <3> QED BY <1>1, <1>4, <3>3
  <2> HIDE DEF new, grows
  <2>3. DiskOK' /\ AnswerOK'
    BY <1>1, <1>4, <2>2, SameDisk, AnswerTypes DEF AnswerOK
  <2>4. grows \in BOOLEAN
    BY DEF grows
  <2>5. 0 \in Offsets
    BY Sizes DEF Offsets
  <2>6. CallOK'
    BY <1>4, <2>1, <2>4, <2>5 DEF CallOK
  <2>7. /\ call'.op = "write" /\ call'.off = off /\ call'.data = data /\ call'.done = 0
        /\ call'.ino = new
    BY <1>4
  <2>8. ReadFits'
    BY <2>7 DEF ReadFits
  <2>9. WriteFits'
    <3>1. End' = off + Len(data)
      BY <2>7 DEF End
    <3> QED BY <1>1, <1>4, <2>1, <2>7, <3>1 DEF WriteFits, CeilDiv
  <2> QED BY <2>3, <2>6, <2>8, <2>9, TypeIs DEF Fits
<1>5. /\ need = NewBlocksNeeded(off + Len(data))
      /\ new = [ino EXCEPT !.ptrs = @ \o Allocated(need)]
      /\ grows = (CeilDiv(off + Len(data)) > CeilDiv(ino.size))
  OBVIOUS
<1> HIDE DEF need, new, grows
<1> QED BY <1>2, <1>3, <1>4, <1>5 DEF begin_write

LEMMA WriteBlockFits ==
  ASSUME Fits, WriteBlock
  PROVE  /\ Fits' /\ call'.op = "write" /\ call'.off = call.off /\ call'.data = call.data
         /\ call'.ino = call.ino /\ call'.done = call.done + Chunk
<1>1. /\ UNCHANGED <<ino, marked, answer, torn>> /\ call.op = "write" /\ Left > 0
      /\ image' = [image EXCEPT ![Target] = Filled]
      /\ call' = [call EXCEPT !.done = call.done + Chunk]
  BY DEF WriteBlock
<1>2. /\ Target \in Blocks /\ Filled \in [InBlock -> Byte] /\ Chunk \in 1 .. Left
      /\ End \in Nat /\ Left \in Nat
  BY <1>1, WritePlace, WhatIsWritten
<1>3. /\ call.off \in Nat /\ call.done \in Nat /\ Len(call.data) \in Nat
      /\ Left = Len(call.data) - call.done
      /\ call.off \in Offsets /\ call.data \in Buffers /\ call.ino \in Inode
      /\ call.grows \in BOOLEAN
  BY <1>1, WriteParts DEF Fits, Left
<1>4. /\ End <= MaxSize /\ MaxSize \in Nat /\ End = call.off + Len(call.data)
      /\ call.off <= ino.size
      /\ call.ino.size = ino.size /\ CeilDiv(ino.size) <= CeilDiv(End)
      /\ Len(call.ino.ptrs) = CeilDiv(End)
  BY <1>1, Sizes DEF Fits, WriteFits, End
<1>5. PICK done : done = call.done + Chunk
  OBVIOUS
<1>6. done \in Nat /\ done <= Len(call.data) /\ done \in Offsets
  <2>1. Len(call.data) <= MaxSize /\ MaxSize \in Nat
    BY <1>3, <1>4
  <2>2. Chunk \in Nat /\ Chunk <= Len(call.data) - call.done
    BY <1>2, <1>3
  <2>3. done \in Nat /\ done <= Len(call.data)
    BY <1>3, <1>5, <2>2
  <2> QED BY <1>3, <2>1, <2>3 DEF Offsets
<1>7. call' = [op |-> "write", off |-> call.off, data |-> call.data, done |-> done,
               ino |-> call.ino, grows |-> call.grows]
  <2>1. call' = [call EXCEPT !.done = done]
    BY <1>1, <1>5
  <2>2. call \in [op : {"write", "save"}, off : Offsets, data : Buffers, done : Offsets,
                  ino : Inode, grows : BOOLEAN]
    BY <1>1 DEF Fits, TypeOK, Idle
  <2> QED BY <1>1, <2>1, <2>2
<1>8. /\ call'.op = "write" /\ call'.off = call.off /\ call'.data = call.data
      /\ call'.ino = call.ino /\ call'.done = done
  BY <1>7
<1>9. CallOK'
  BY <1>3, <1>6, <1>7 DEF CallOK
<1>10. image \in [Blocks -> [InBlock -> Byte]]
  BY DEF Fits, TypeOK
<1>11. image' \in [Blocks -> [InBlock -> Byte]]
  BY <1>1, <1>2, <1>10
<1>12. DiskOK' /\ AnswerOK'
  BY <1>1, <1>11, TypeIs DEF Fits, DiskOK, AnswerOK
<1>13. ReadFits'
  BY <1>8 DEF ReadFits
<1>14. WriteFits'
  <2>1. End' = End
    BY <1>8 DEF End
  <2> QED BY <1>1, <1>4, <1>6, <1>8, <2>1 DEF WriteFits, CeilDiv
<1> QED BY <1>5, <1>8, <1>9, <1>12, <1>13, <1>14, TypeIs DEF Fits

LEMMA WriteBlockFailsFits ==
  ASSUME Fits, WriteBlockFails
  PROVE  Fits'
<1>1. PICK n \in 0 .. BlockSize :
        image' = [image EXCEPT ![Target] =
                    [k \in InBlock |-> IF k < n THEN Filled[k] ELSE image[Target][k]]]
  BY DEF WriteBlockFails
<1>2. /\ UNCHANGED <<ino, marked, torn>> /\ call.op = "write" /\ Left > 0
      /\ Returns(Error("EIO"))
  BY DEF WriteBlockFails
<1>3. Target \in Blocks /\ Filled \in [InBlock -> Byte]
  BY <1>2, WritePlace, WhatIsWritten
<1>4. image \in [Blocks -> [InBlock -> Byte]]
  BY DEF Fits, TypeOK
<1>5. [k \in InBlock |-> IF k < n THEN Filled[k] ELSE image[Target][k]] \in [InBlock -> Byte]
  <2>1. image[Target] \in [InBlock -> Byte]
    BY <1>3, <1>4
  <2>2. \A k \in InBlock : Filled[k] \in Byte /\ image[Target][k] \in Byte
    BY <1>3, <2>1
  <2> QED BY <2>2
<1>6. image' \in [Blocks -> [InBlock -> Byte]]
  BY <1>1, <1>3, <1>4, <1>5
<1>7. DiskOK'
  BY <1>2, <1>6, TypeIs DEF Fits, DiskOK
<1>8. call' = Idle /\ AnswerOK'
  BY <1>2, AnswerTypes DEF Returns, AnswerOK
<1> QED BY <1>7, <1>8, IdleFits

LEMMA NewInodeOnDisk ==
  ASSUME Fits, call.op = "write", UNCHANGED <<image, marked, torn>>,
         ino' \in {ino, [call.ino EXCEPT !.size = NewSize]}
  PROVE  DiskOK'
<1>1. PICK new : new = [call.ino EXCEPT !.size = NewSize]
  OBVIOUS
<1>2. new \in Inode /\ Len(new.ptrs) = CeilDiv(new.size)
  BY <1>1, NewInode
<1>3. image \in [Blocks -> [InBlock -> Byte]] /\ marked \subseteq Blocks /\ torn \in BOOLEAN
  BY DEF Fits, TypeOK
<1>4. CASE ino' = ino
  BY <1>4, TypeIs DEF Fits, DiskOK
<1>5. CASE ino' = new
  BY <1>2, <1>3, <1>5 DEF DiskOK, CeilDiv
<1> QED BY <1>1, <1>4, <1>5

LEMMA WriteInodeFits ==
  ASSUME Fits, WriteInode
  PROVE  Fits'
<1>1. /\ call.op = "write" /\ Left = 0 /\ UNCHANGED <<image, marked, torn>>
      /\ ino' = [call.ino EXCEPT !.size = NewSize]
  BY DEF WriteInode
<1>2. DiskOK'
  BY <1>1, NewInodeOnDisk
<1>3. /\ call.off \in Nat /\ call.done \in Nat /\ Len(call.data) \in Nat
      /\ call.off \in Offsets /\ call.data \in Buffers /\ call.ino \in Inode
      /\ call.done \in Offsets /\ call.grows \in BOOLEAN
      /\ call.done = Len(call.data) /\ End = call.off + Len(call.data)
  BY <1>1, WriteParts DEF Fits, Left, End
<1>4. CASE Returns(Count(call.done))
  <2>1. call' = Idle /\ AnswerOK'
    BY <1>3, <1>4, AnswerTypes DEF Returns, AnswerOK
  <2> QED BY <1>2, <2>1, IdleFits
<1>5. CASE call' = [call EXCEPT !.op = "save"] /\ UNCHANGED answer
  <2>1. call' = [op |-> "save", off |-> call.off, data |-> call.data, done |-> call.done,
                 ino |-> call.ino, grows |-> call.grows]
    <3>1. call \in [op : {"write", "save"}, off : Offsets, data : Buffers, done : Offsets,
                    ino : Inode, grows : BOOLEAN]
      BY <1>1 DEF Fits, TypeOK, Idle
    <3> QED BY <1>5, <3>1
  <2>2. CallOK'
    BY <1>3, <2>1 DEF CallOK
  <2>3. /\ call'.op = "save" /\ call'.off = call.off /\ call'.data = call.data
        /\ call'.done = call.done
    BY <2>1
  <2>4. ReadFits' /\ AnswerOK'
    BY <1>5, <2>3, TypeIs DEF ReadFits, AnswerOK, Fits
  <2>5. WriteFits'
    <3>1. ino'.size = NewSize /\ End <= NewSize /\ NewSize \in Nat
      BY <1>1, NewInode
    <3>2. End' = End
      BY <2>3 DEF End
    <3>3. End <= MaxSize
      BY <1>1 DEF Fits, WriteFits
    <3> QED BY <1>3, <2>3, <3>1, <3>2, <3>3 DEF WriteFits
  <2> QED BY <1>2, <2>2, <2>4, <2>5, TypeIs DEF Fits
<1> QED BY <1>4, <1>5 DEF WriteInode

LEMMA EmptyInode ==
  /\ [size |-> 0, ptrs |-> <<>>] \in Inode
  /\ Len([size |-> 0, ptrs |-> <<>>].ptrs) = CeilDiv([size |-> 0, ptrs |-> <<>>].size)
<1>1. CeilDiv(0) \in Nat /\ ~ (0 < CeilDiv(0))
  <2>1. ~ (0 * BlockSize < 0) /\ 0 \in Nat
    BY Sizes
  <2> QED BY <2>1, CeilDivLess
<1>2. CeilDiv(0) = 0
  BY <1>1
<1>3. 0 \in Offsets /\ <<>> \in Seq(Blocks) /\ Len(<<>>) = 0
  BY Sizes, EmptySeq DEF Offsets
<1> QED BY <1>2, <1>3 DEF Inode

LEMMA TruncateFits ==
  ASSUME Fits, fs_truncate
  PROVE  Fits'
<1>1. call' = Idle /\ UNCHANGED image /\ marked' \subseteq marked
  BY DEF fs_truncate
<1>2. torn' \in BOOLEAN
  BY DEF fs_truncate, Fits, TypeOK
<1>3. ino' \in Inode /\ Len(ino'.ptrs) = CeilDiv(ino'.size)
  <2>1. CASE ino' = [size |-> 0, ptrs |-> <<>>]
    BY <2>1, EmptyInode
  <2>2. CASE UNCHANGED ino
    BY <2>2 DEF Fits, TypeOK
  <2> QED BY <2>1, <2>2 DEF fs_truncate
<1>4. DiskOK'
  BY <1>1, <1>2, <1>3, TypeIs DEF Fits, DiskOK, CeilDiv
<1>5. AnswerOK'
  <2>1. answer' \in {Count(0), Error("EIO")} /\ 0 \in Offsets
    BY Sizes DEF fs_truncate, Offsets
  <2> QED BY <2>1, AnswerTypes DEF AnswerOK
<1> QED BY <1>1, <1>4, <1>5, IdleFits

LEMMA ReturnFits ==
  ASSUME Fits, ReadReturns \/ ReadFails \/ SaveMap \/ WriteInodeFails
  PROVE  Fits'
<1>1. CASE ReadReturns
  <2>1. /\ call' = Idle /\ UNCHANGED <<image, ino, marked, torn>>
        /\ answer' = BytesRead(call.got) /\ call.op = "read"
    BY <1>1 DEF ReadReturns, Returns
  <2>2. call.got \in Seq(Byte) /\ marked' \subseteq Blocks
    BY <2>1, ReadParts, TypeIs DEF Fits, DiskOK
  <2>3. AnswerOK'
    BY <2>1, <2>2, AnswerTypes DEF AnswerOK
  <2> QED BY <2>1, <2>2, <2>3, SameDisk, IdleFits
<1>2. CASE ReadFails
  <2>1. call' = Idle /\ UNCHANGED <<image, ino, marked, torn>> /\ answer' = Error("EIO")
    BY <1>2 DEF ReadFails, Returns
  <2>2. marked' \subseteq Blocks /\ AnswerOK'
    BY <2>1, TypeIs, AnswerTypes DEF Fits, DiskOK, AnswerOK
  <2> QED BY <2>1, <2>2, SameDisk, IdleFits
<1>3. CASE SaveMap
  <2>1. call' = Idle /\ UNCHANGED <<image, ino, marked, torn>> /\ call.op = "save"
        /\ answer' \in {Count(call.done), Error("EIO")}
    BY <1>3 DEF SaveMap, Returns
  <2>2. marked' \subseteq Blocks /\ call.done \in Offsets
    BY <2>1, WriteParts, TypeIs DEF Fits, DiskOK
  <2>3. AnswerOK'
    BY <2>1, <2>2, AnswerTypes DEF AnswerOK
  <2> QED BY <2>1, <2>2, <2>3, SameDisk, IdleFits
<1>4. CASE WriteInodeFails
  <2>1. call' = Idle /\ answer' = Error("EIO") /\ DiskOK'
    BY <1>4, NewInodeOnDisk DEF WriteInodeFails, Returns
  <2>2. AnswerOK'
    BY <2>1, AnswerTypes DEF AnswerOK
  <2> QED BY <2>1, <2>2, IdleFits
<1> QED BY <1>1, <1>2, <1>3, <1>4

LEMMA FitsInit == Init => Fits
<1> SUFFICES ASSUME Init PROVE Fits
  OBVIOUS
<1>1. image \in [Blocks -> [InBlock -> Byte]]
  BY DEF Init
<1>2. ino = [size |-> 0, ptrs |-> <<>>] /\ marked = {} /\ torn = FALSE
      /\ call = Idle /\ answer = NoAnswer
  BY DEF Init
<1>3. TypeOK
  BY <1>1, <1>2, EmptyInode, AnswerTypes DEF TypeOK
<1>4. call.op = "idle"
  BY <1>2 DEF Idle
<1> QED BY <1>3, <1>4 DEF Fits, ReadFits, WriteFits

LEMMA FitsNext ==
  ASSUME Fits, [Next]_vars
  PROVE  Fits'
<1>1. CASE \E off, len \in Offsets : begin_read(off, len)
  BY <1>1, BeginReadFits
<1>2. CASE \E off \in Offsets, data \in Buffers :
             off + Len(data) <= MaxSize /\ begin_write(off, data)
  BY <1>2, BeginWriteFits
<1>3. CASE ReadBlock
  BY <1>3, ReadBlockFits
<1>4. CASE WriteBlock
  BY <1>4, WriteBlockFits
<1>5. CASE WriteInode
  BY <1>5, WriteInodeFits
<1>6. CASE ReadReturns \/ ReadFails \/ SaveMap \/ WriteInodeFails
  BY <1>6, ReturnFits
<1>7. CASE WriteBlockFails
  BY <1>7, WriteBlockFailsFits
<1>8. CASE fs_truncate
  BY <1>8, TruncateFits
<1>9. CASE UNCHANGED vars
  BY <1>9 DEF vars, Fits, TypeOK, ReadFits, WriteFits, clipped, End
<1> QED BY <1>1, <1>2, <1>3, <1>4, <1>5, <1>6, <1>7, <1>8, <1>9 DEF Next, Continues

\* fs_read, fs_write and fs_truncate never use a pointer that is not set, go beyond the
\* end of a block or of the caller's buffer, or leave an inode whose pointers are more or
\* fewer than its size needs: whatever fails, and after a truncate that failed half way.
THEOREM BytesTypeCorrect == Spec => []TypeOK
<1>1. Init => Fits
  BY FitsInit
<1>2. Fits /\ [Next]_vars => Fits'
  BY FitsNext
<1>3. Fits => TypeOK
  BY DEF Fits
<1> QED BY <1>1, <1>2, <1>3, PTL DEF Spec

-----------------------------------------------------------------------------
(* What has been written is there *)

\* A block write changes the bytes of one range of the file, and no others.
LEMMA WrittenPlaces ==
  ASSUME Fits, call.op = "write", Left > 0, OwnBlocks(call.ino.ptrs),
         NEW part, \A k \in InBlock : part[k] \in {Filled[k], image[Target][k]},
         NEW p \in Nat, block_index(p) \in 1 .. Len(call.ino.ptrs)
  PROVE  LET now == ByteAt([image EXCEPT ![Target] = part], call.ino.ptrs, p)
             was == ByteAt(image, call.ino.ptrs, p)
             at  == call.off + call.done
         IN
         /\ now # was => p \in at .. at + Chunk - 1 /\ now = call.data[p - call.off + 1]
         /\ p \in at .. at + Chunk - 1 /\ part = Filled => now = call.data[p - call.off + 1]
<1> DEFINE at == call.off + call.done
           from == block_offset(at)
           ptrs == call.ino.ptrs
           now == ByteAt([image EXCEPT ![Target] = part], ptrs, p)
           was == ByteAt(image, ptrs, p)
           o == block_offset(p)
<1>1. /\ at \in Nat /\ Chunk \in Nat \ {0} /\ Target \in Blocks
      /\ block_index(at) \in 1 .. Len(ptrs) /\ Target = ptrs[block_index(at)]
      /\ from \in Nat /\ from < BlockSize /\ from + Chunk <= BlockSize
      /\ BlockSize \in Nat \ {0}
  BY WritePlace, Sizes DEF Target, InBlock
<1>2. call.off \in Nat /\ call.done \in Nat /\ at = call.off + call.done
  BY WriteParts DEF Fits
<1>3. o \in InBlock /\ o \in Nat
  BY Places, Sizes DEF InBlock
<1>4. image \in [Blocks -> [InBlock -> Byte]]
  BY DEF Fits, TypeOK
<1>5. \A h, k \in 1 .. Len(ptrs) : ptrs[h] = ptrs[k] => h = k
  BY DEF OwnBlocks
<1>6. \A k \in InBlock :
        Filled[k] = IF k \in from .. from + Chunk - 1
                    THEN call.data[call.done + k - from + 1] ELSE image[Target][k]
  BY WhatIsWritten
<1>7. now = [image EXCEPT ![Target] = part][ptrs[block_index(p)]][o]
      /\ was = image[ptrs[block_index(p)]][o]
  BY DEF ByteAt
<1>8. ptrs[block_index(p)] \in Blocks /\ block_index(p) \in 1 .. Len(ptrs)
  <2>1. ptrs \in Seq(Blocks) /\ block_index(p) \in 1 .. Len(ptrs)
    BY WriteParts DEF Fits
  <2> HIDE DEF ptrs
  <2> QED BY <2>1, ElementOfSeq
<1> HIDE DEF at, from, ptrs, now, was, o
<1>9. CASE block_index(p) # block_index(at)
  <2>1. ptrs[block_index(p)] # Target
    BY <1>1, <1>5, <1>8, <1>9
  <2>2. now = was
    BY <1>1, <1>4, <1>7, <1>8, <2>1
  <2>3. p \notin at .. at + Chunk - 1
    <3>1. ASSUME p \in at .. at + Chunk - 1 PROVE FALSE
      <4>1. PICK j \in Nat : j = p - at /\ at + j = p /\ j < Chunk
        BY <1>1, <3>1
      <4>2. block_offset(at) + j < BlockSize
        BY <1>1, <4>1 DEF from
      <4>3. block_index(at + j) = block_index(at)
        BY <1>1, <4>2, PlaceNear
      <4> QED BY <1>9, <4>1, <4>3
    <3> QED BY <3>1
  <2> QED BY <2>2, <2>3 DEF at, ptrs, now, was
<1>10. CASE block_index(p) = block_index(at)
  <2>1. now = part[o] /\ was = image[Target][o]
    BY <1>1, <1>4, <1>7, <1>10
  <2>2. p - at = o - from
    <3>1. /\ block_index(p) \in Nat /\ block_index(at) \in Nat
          /\ p = (block_index(p) - 1) * BlockSize + o
          /\ at = (block_index(at) - 1) * BlockSize + from
      BY <1>1, Places DEF o, from
    <3>2. PICK base : base = (block_index(at) - 1) * BlockSize /\ base \in Int
      BY <1>1, <3>1
    <3>3. p = base + o /\ at = base + from
      BY <1>10, <3>1, <3>2
    <3> QED BY <1>1, <1>3, <3>2, <3>3
  <2>3. /\ p \in at .. at + Chunk - 1 <=> o \in from .. from + Chunk - 1
        /\ call.done + o - from + 1 = p - call.off + 1
    <3>1. p = at + (o - from) /\ at \in Nat /\ o \in Nat /\ from \in Nat /\ Chunk \in Nat
      BY <1>1, <1>3, <2>2
    <3>2. p \in at .. at + Chunk - 1 <=> o \in from .. from + Chunk - 1
      BY <3>1
    <3>3. call.done + o - from + 1 = p - call.off + 1
      BY SMTT(30), <1>2, <3>1
    <3> QED BY <3>2, <3>3
  <2>4. Filled[o] = IF p \in at .. at + Chunk - 1
                    THEN call.data[p - call.off + 1] ELSE image[Target][o]
    BY <1>3, <1>6, <2>3
  <2>5. part[o] \in {Filled[o], image[Target][o]}
    BY <1>3
  <2> QED BY <2>1, <2>4, <2>5 DEF at, ptrs, now, was
<1> QED BY <1>9, <1>10

\* Every byte before the end of the data has its block among the pointers.
LEMMA DataPlace ==
  ASSUME Fits, call.op = "write", NEW p \in Nat, p < End
  PROVE  block_index(p) \in 1 .. Len(call.ino.ptrs)
<1>1. /\ call.ino.ptrs \in Seq(Blocks) /\ call.off \in Nat /\ Len(call.data) \in Nat
      /\ Len(call.ino.ptrs) = CeilDiv(End) /\ End = call.off + Len(call.data)
  BY WriteParts DEF Fits, WriteFits, End
<1>2. End \in Nat
  BY <1>1
<1> QED BY <1>1, <1>2, BlockThere

LEMMA ReadBlockData ==
  ASSUME Fits, DataThere, ReadBlock
  PROVE  DataThere'
<1>1. /\ UNCHANGED <<image, ino, marked>> /\ call.op = "read" /\ Len(call.got) < call.len
      /\ call' = [call EXCEPT !.got = call.got \o NextPart]
  BY DEF ReadBlock, NextPart
<1>2. /\ call \in [op : {"read"}, off : Offsets, want : Offsets, len : Offsets, got : Seq(Byte)]
      /\ call.off \in Nat /\ call.got \in Seq(Byte) /\ Len(call.got) \in Nat
  BY <1>1, ReadParts DEF Fits, TypeOK, Idle
<1>3. PICK all : all = call.got \o NextPart
  OBVIOUS
<1>4. call'.op = "read" /\ call'.off = call.off /\ call'.got = all
  <2>1. call' = [call EXCEPT !.got = all]
    BY <1>1, <1>3
  <2> QED BY <1>1, <1>2, <2>1
<1>5. /\ NextPart \in Seq(Byte) /\ Len(NextPart) \in Nat
      /\ Len(all) = Len(call.got) + Len(NextPart)
      /\ \A k \in 1 .. Len(NextPart) :
           NextPart[k] = ByteAt(image, ino.ptrs, call.off + Len(call.got) + k - 1)
  BY <1>1, <1>3, ReadGets
<1>6. \A k \in 1 .. Len(all) :
        all[k] = IF k <= Len(call.got) THEN call.got[k] ELSE NextPart[k - Len(call.got)]
  BY <1>2, <1>3, <1>5, ConcatProperties
<1>7. ASSUME NEW k \in 1 .. Len(all)
      PROVE  all[k] = ByteAt(image, ino.ptrs, call.off + k - 1)
  <2>1. CASE k <= Len(call.got)
    <3>1. k \in 1 .. Len(call.got)
      BY <1>2, <1>5, <2>1
    <3> QED BY <1>1, <1>6, <2>1, <3>1 DEF DataThere
  <2>2. CASE ~ (k <= Len(call.got))
    <3>1. PICK j \in 1 .. Len(NextPart) : j = k - Len(call.got)
      <4>1. k \in Nat /\ k <= Len(call.got) + Len(NextPart)
        BY <1>2, <1>5
      <4>2. k - Len(call.got) \in 1 .. Len(NextPart)
        BY <1>2, <1>5, <2>2, <4>1
      <4> QED BY <4>2
    <3>2. call.off + Len(call.got) + j - 1 = call.off + k - 1
      BY <1>2, <1>5, <3>1
    <3>3. NextPart[j] = ByteAt(image, ino.ptrs, call.off + Len(call.got) + j - 1)
      BY <1>5
    <3> QED BY <1>6, <2>2, <3>1, <3>2, <3>3
  <2> QED BY <2>1, <2>2
<1>8. OwnBlocks(ino.ptrs)'
  BY <1>1 DEF DataThere, OwnBlocks
<1>9. \A k \in 1 .. Len(call'.got) : call'.got[k] = ByteAt(image', ino'.ptrs, call'.off + k - 1)
  BY <1>1, <1>4, <1>7
<1> QED BY <1>4, <1>8, <1>9 DEF DataThere, ByteAt, block_index, block_offset

LEMMA WriteBlockData ==
  ASSUME Fits, DataThere, WriteBlock
  PROVE  DataThere'
<1>1. /\ UNCHANGED <<ino, marked>> /\ call.op = "write" /\ Left > 0
      /\ image' = [image EXCEPT ![Target] = Filled]
  BY DEF WriteBlock
<1>2. /\ call'.op = "write" /\ call'.off = call.off /\ call'.data = call.data
      /\ call'.ino = call.ino /\ call'.done = call.done + Chunk
  BY WriteBlockFits
<1>3. /\ OwnBlocks(ino.ptrs) /\ OwnBlocks(call.ino.ptrs)
      /\ \A k \in 1 .. Len(ino.ptrs) : call.ino.ptrs[k] = ino.ptrs[k]
      /\ \A k \in 1 .. call.done :
           ByteAt(image, call.ino.ptrs, call.off + k - 1) = call.data[k]
  BY <1>1 DEF DataThere
<1>4. /\ call.off \in Nat /\ call.done \in Nat /\ Len(call.data) \in Nat
      /\ Chunk \in Nat /\ Chunk <= Left /\ Left = Len(call.data) - call.done
      /\ End = call.off + Len(call.data)
  <2>1. call.off \in Nat /\ call.done \in Nat /\ Len(call.data) \in Nat
    BY <1>1, WriteParts DEF Fits
  <2>2. Chunk \in 1 .. Left
    BY <1>1, WritePlace
  <2> QED BY <2>1, <2>2 DEF Left, End
<1>5. ASSUME NEW k \in 1 .. call.done + Chunk
      PROVE  ByteAt(image', call.ino.ptrs, call.off + k - 1) = call.data[k]
  <2>1. PICK p \in Nat : p = call.off + k - 1 /\ p < End /\ p - call.off + 1 = k
    <3>1. k \in Nat /\ 1 <= k /\ k <= Len(call.data)
      BY <1>4
    <3>2. /\ call.off + k - 1 \in Nat /\ call.off + k - 1 < End
          /\ (call.off + k - 1) - call.off + 1 = k
      BY <1>4, <3>1
    <3> QED BY <3>2
  <2>2. block_index(p) \in 1 .. Len(call.ino.ptrs)
    BY <1>1, <2>1, DataPlace
  <2>3. /\ ByteAt(image', call.ino.ptrs, p) # ByteAt(image, call.ino.ptrs, p)
             => ByteAt(image', call.ino.ptrs, p) = call.data[k]
        /\ p \in call.off + call.done .. call.off + call.done + Chunk - 1
             => ByteAt(image', call.ino.ptrs, p) = call.data[k]
    BY <1>1, <1>3, <2>1, <2>2, WrittenPlaces
  <2>4. CASE k \in 1 .. call.done
    BY <1>3, <2>1, <2>3, <2>4
  <2>5. CASE k \notin 1 .. call.done
    BY SMTT(30), <1>4, <2>1, <2>3, <2>5
  <2> QED BY <2>4, <2>5
<1>6. OwnBlocks(ino.ptrs)' /\ OwnBlocks(call.ino.ptrs)'
  BY <1>1, <1>2, <1>3 DEF OwnBlocks
<1>7. \A k \in 1 .. Len(ino'.ptrs) : call'.ino.ptrs[k] = ino'.ptrs[k]
  BY <1>1, <1>2, <1>3
<1>8. \A k \in 1 .. call'.done :
        ByteAt(image', call'.ino.ptrs, call'.off + k - 1) = call'.data[k]
  BY <1>2, <1>5
<1> QED BY <1>2, <1>6, <1>7, <1>8 DEF DataThere, ByteAt, block_index, block_offset

\* When no call is under way only the pointers on disk matter.
LEMMA IdleData ==
  ASSUME OwnBlocks(ino.ptrs)', call' = Idle
  PROVE  DataThere'
BY DEF DataThere, Idle

LEMMA BeginWriteData ==
  ASSUME Fits, DataThere, NEW off \in Offsets, NEW data \in Buffers,
         off + Len(data) <= MaxSize, begin_write(off, data)
  PROVE  DataThere'
<1> DEFINE need == NewBlocksNeeded(off + Len(data))
           new == [ino EXCEPT !.ptrs = @ \o Allocated(need)]
<1>1. /\ UNCHANGED <<image, ino, torn>> /\ call = Idle /\ marked \subseteq Blocks
      /\ OwnBlocks(ino.ptrs)
  BY TypeIs DEF begin_write, Fits, DiskOK, DataThere
<1>2. /\ ino.ptrs \in Seq(Blocks) /\ Len(ino.ptrs) \in Nat
      /\ \A k \in 1 .. Len(ino.ptrs) : ino.ptrs[k] \in Blocks
  BY InodeParts, ElementOfSeq DEF Fits
<1>3. CASE marked \subseteq marked' /\ call' = Idle
  BY <1>1, <1>3, IdleData DEF OwnBlocks
<1>4. CASE /\ need <= Cardinality(Free)
           /\ marked' = marked \cup {Allocated(need)[k] : k \in 1 .. need}
           /\ call'.op = "write" /\ call'.done = 0 /\ call'.ino = new
  <2>1. /\ need \in Nat /\ new.ptrs = ino.ptrs \o Allocated(need)
        /\ Len(new.ptrs) = Len(ino.ptrs) + need
    BY <1>1, <1>4, NewPointers
  <2> HIDE DEF new, need
  <2>2. /\ Allocated(need) \in [1 .. need -> Free] /\ Allocated(need) \in Seq(Blocks)
        /\ Len(Allocated(need)) = need
        /\ \A h, k \in 1 .. need : Allocated(need)[h] = Allocated(need)[k] => h = k
    BY <1>1, <1>4, <2>1, AllocatedBlocks
  <2>3. PICK s : s = Allocated(need)
    OBVIOUS
  <2>4. PICK m \in Nat : m = Len(ino.ptrs)
    BY <1>2
  <2>5. \A k \in 1 .. m + need : new.ptrs[k] = IF k <= m THEN ino.ptrs[k] ELSE s[k - m]
    BY <1>2, <2>1, <2>2, <2>3, <2>4, ConcatProperties
  <2>6. /\ \A k \in 1 .. m : ino.ptrs[k] \in marked
        /\ \A h, k \in 1 .. m : ino.ptrs[h] = ino.ptrs[k] => h = k
    BY <1>1, <2>4 DEF OwnBlocks
  <2>7. /\ \A k \in 1 .. need : s[k] \notin marked /\ s[k] \in marked'
        /\ \A h, k \in 1 .. need : s[h] = s[k] => h = k
    BY <1>4, <2>2, <2>3 DEF Free
  <2>8. \A k \in 1 .. m + need : \/ k \in 1 .. m /\ new.ptrs[k] = ino.ptrs[k]
                                 \/ /\ k > m /\ k - m \in 1 .. need
                                    /\ new.ptrs[k] = s[k - m]
    BY SMTT(30), <2>1, <2>4, <2>5
  <2>9. \A k \in 1 .. m + need : new.ptrs[k] \in marked'
    BY <1>4, <2>6, <2>7, <2>8
  <2>10. ASSUME NEW h \in 1 .. m + need, NEW k \in 1 .. m + need, new.ptrs[h] = new.ptrs[k]
         PROVE  h = k
    <3>1. CASE h \in 1 .. m /\ new.ptrs[h] = ino.ptrs[h]
      BY <2>6, <2>7, <2>8, <2>10, <3>1
    <3>2. CASE h > m /\ h - m \in 1 .. need /\ new.ptrs[h] = s[h - m]
      <4>1. k > m /\ k - m \in 1 .. need /\ new.ptrs[k] = s[k - m]
        BY <2>6, <2>7, <2>8, <2>10, <3>2
      <4>2. h - m = k - m
        BY <2>7, <2>10, <3>2, <4>1
      <4> QED BY <2>1, <2>4, <4>2
    <3> QED BY <2>8, <3>1, <3>2
  <2>11. \A k \in 1 .. Len(ino.ptrs) : new.ptrs[k] = ino.ptrs[k]
    BY <2>1, <2>4, <2>5
  <2>12. OwnBlocks(ino.ptrs)'
    BY <1>1, <1>4 DEF OwnBlocks
  <2>13. OwnBlocks(call.ino.ptrs)'
    BY <1>4, <2>1, <2>4, <2>9, <2>10 DEF OwnBlocks
  <2> QED BY <1>1, <1>4, <2>11, <2>12, <2>13 DEF DataThere
<1>5. \/ marked \subseteq marked' /\ call' = Idle
      \/ /\ need <= Cardinality(Free)
         /\ marked' = marked \cup {Allocated(need)[k] : k \in 1 .. need}
         /\ call'.op = "write" /\ call'.done = 0 /\ call'.ino = new
  <2>1. CASE Returns(Error("EINVAL")) /\ UNCHANGED marked
    BY <2>1 DEF Returns
  <2>2. CASE Returns(Error("ENOSPC")) /\ marked' = Blocks
    BY <1>1, <2>2 DEF Returns
  <2>3. CASE /\ need <= Cardinality(Free)
             /\ marked' = marked \cup {Allocated(need)[k] : k \in 1 .. need}
             /\ call' = [op |-> "write", off |-> off, data |-> data, done |-> 0, ino |-> new,
                         grows |-> CeilDiv(off + Len(data)) > CeilDiv(ino.size)]
    <3> HIDE DEF need, new
    <3> QED BY <2>3
  <2> QED BY <2>1, <2>2, <2>3 DEF begin_write
<1> QED BY <1>3, <1>4, <1>5

LEMMA NewInodeData ==
  ASSUME Fits, DataThere, call.op = "write", UNCHANGED <<image, marked>>,
         ino' \in {ino, [call.ino EXCEPT !.size = NewSize]}
  PROVE  OwnBlocks(ino.ptrs)'
<1>1. OwnBlocks(ino.ptrs) /\ OwnBlocks(call.ino.ptrs)
  BY DEF DataThere
<1>2. ino'.ptrs \in {ino.ptrs, call.ino.ptrs}
  BY NewInode
<1> QED BY <1>1, <1>2 DEF OwnBlocks

LEMMA WriteInodeData ==
  ASSUME Fits, DataThere, WriteInode
  PROVE  DataThere'
<1>1. /\ call.op = "write" /\ Left = 0 /\ UNCHANGED <<image, marked>>
      /\ ino' = [call.ino EXCEPT !.size = NewSize]
  BY DEF WriteInode
<1>2. OwnBlocks(ino.ptrs)' /\ ino'.ptrs = call.ino.ptrs
  BY <1>1, NewInodeData, NewInode
<1>3. CASE Returns(Count(call.done))
  BY <1>2, <1>3, IdleData DEF Returns
<1>4. CASE call' = [call EXCEPT !.op = "save"]
  <2>1. call \in [op : {"write", "save"}, off : Offsets, data : Buffers, done : Offsets,
                  ino : Inode, grows : BOOLEAN]
    BY <1>1 DEF Fits, TypeOK, Idle
  <2>2. /\ call'.op = "save" /\ call'.off = call.off /\ call'.data = call.data
        /\ call'.done = call.done
    BY <1>4, <2>1
  <2>3. \A k \in 1 .. call.done :
          ByteAt(image, call.ino.ptrs, call.off + k - 1) = call.data[k]
    BY <1>1 DEF DataThere
  <2>4. \A k \in 1 .. call'.done :
          ByteAt(image', ino'.ptrs, call'.off + k - 1) = call'.data[k]
    BY <1>1, <1>2, <2>2, <2>3
  <2> QED BY <1>2, <2>2, <2>4 DEF DataThere, ByteAt, block_index, block_offset
<1> QED BY <1>3, <1>4 DEF WriteInode

LEMMA TruncateData ==
  ASSUME Fits, DataThere, fs_truncate, ~torn'
  PROVE  DataThere'
<1>1. call' = Idle
  BY DEF fs_truncate
<1>2. ino'.ptrs = <<>> \/ Len(ino'.ptrs) = 0
  <2>1. CASE ino' = [size |-> 0, ptrs |-> <<>>]
    BY <2>1
  <2>2. CASE UNCHANGED ino /\ torn' = (torn \/ ino.size > 0)
    <3>1. ino.size = 0 /\ Len(ino.ptrs) = CeilDiv(ino.size)
      <4>1. ino.size \in Nat /\ Len(ino.ptrs) = CeilDiv(ino.size)
        BY InodeParts DEF Fits
      <4>2. ~ (ino.size > 0)
        BY <2>2
      <4> QED BY <4>1, <4>2
    <3>2. CeilDiv(0) = 0
      BY EmptyInode, EmptySeq
    <3> QED BY <2>2, <3>1, <3>2
  <2> QED BY <2>1, <2>2 DEF fs_truncate
<1>3. Len(ino'.ptrs) = 0
  BY <1>2, EmptySeq
<1>4. OwnBlocks(ino.ptrs)'
  BY <1>3 DEF OwnBlocks
<1> QED BY <1>1, <1>4, IdleData

LEMMA DataInvNext ==
  ASSUME DataInv, [Next]_vars
  PROVE  DataInv'
<1>1. Fits'
  BY FitsNext DEF DataInv
<1>2. SUFFICES ASSUME ~torn' PROVE DataThere'
  BY <1>1 DEF DataInv
<1>3. ~torn /\ Fits /\ DataThere
  <2>1. torn => torn'
    BY DEF Next, Continues, vars, begin_read, begin_write, ReadBlock, ReadReturns, ReadFails,
           WriteBlock, WriteBlockFails, WriteInode, WriteInodeFails, SaveMap, fs_truncate
  <2> QED BY <1>2, <2>1 DEF DataInv
<1>4. OwnBlocks(ino.ptrs)
  BY <1>3 DEF DataThere
<1>5. ASSUME NEW off \in Offsets, NEW len \in Offsets, begin_read(off, len) PROVE DataThere'
  <2>1. call'.op = "read" /\ Len(call'.got) = 0 /\ UNCHANGED <<ino, marked>>
    BY <1>5, EmptySeq DEF begin_read
  <2>2. OwnBlocks(ino.ptrs)'
    BY <1>4, <2>1 DEF OwnBlocks
  <2> QED BY <2>1, <2>2 DEF DataThere
<1>6. CASE \E off \in Offsets, data \in Buffers :
             off + Len(data) <= MaxSize /\ begin_write(off, data)
  BY <1>3, <1>6, BeginWriteData
<1>7. CASE ReadBlock
  BY <1>3, <1>7, ReadBlockData
<1>8. CASE WriteBlock
  BY <1>3, <1>8, WriteBlockData
<1>9. CASE WriteInode
  BY <1>3, <1>9, WriteInodeData
<1>10. CASE ReadReturns \/ ReadFails \/ SaveMap \/ WriteBlockFails
  <2>1. call' = Idle /\ UNCHANGED <<ino, marked>>
    BY <1>10 DEF ReadReturns, ReadFails, SaveMap, WriteBlockFails, Returns
  <2>2. OwnBlocks(ino.ptrs)'
    BY <1>4, <2>1 DEF OwnBlocks
  <2> QED BY <2>1, <2>2, IdleData
<1>11. CASE WriteInodeFails
  <2>1. call' = Idle /\ OwnBlocks(ino.ptrs)'
    BY <1>3, <1>11, NewInodeData DEF WriteInodeFails, Returns
  <2> QED BY <2>1, IdleData
<1>12. CASE fs_truncate
  BY <1>2, <1>3, <1>12, TruncateData
<1>13. CASE UNCHANGED vars
  BY <1>3, <1>13 DEF vars, DataThere, OwnBlocks, ByteAt, block_index, block_offset
<1> QED BY <1>5, <1>6, <1>7, <1>8, <1>9, <1>10, <1>11, <1>12, <1>13 DEF Next, Continues

-----------------------------------------------------------------------------
(* Every step is one that FlatFile allows *)

Bytes(im, i) == [p \in 1 .. i.size |-> ByteAt(im, i.ptrs, p - 1)]

LEMMA ContentIs == Content = Bytes(image, ino) /\ Content' = Bytes(image', ino')
BY DEF Content, Bytes, ByteAt, block_index, block_offset

LEMMA BytesParts ==
  ASSUME NEW im, NEW i, i.size \in Nat
  PROVE  /\ DOMAIN Bytes(im, i) = 1 .. i.size /\ Len(Bytes(im, i)) = i.size
         /\ \A p \in 1 .. i.size : Bytes(im, i)[p] = ByteAt(im, i.ptrs, p - 1)
BY DEF Bytes

LEMMA NoBytes == ASSUME NEW im, NEW i, i.size = 0 PROVE Bytes(im, i) = <<>>
<1>1. Bytes(im, i) \in [1 .. 0 -> Nat]
  BY DEF Bytes
<1>2. Bytes(im, i) \in Seq(Nat) /\ Len(Bytes(im, i)) = 0
  BY <1>1
<1> QED BY <1>2, EmptySeq

\* What FlatFile sees of a call.
Seen(c) ==
  CASE c.op = "read" -> [op |-> "read", off |-> c.off, len |-> c.want]
    [] c.op \in {"write", "save"} -> [op |-> "write", off |-> c.off, data |-> c.data]
    [] OTHER -> [op |-> "none"]

LEMMA SeenIs ==
  /\ CallUnderWay = Seen(call) /\ CallUnderWay' = Seen(call')
  /\ Seen(Idle) = Flat!NoCall
  /\ \A c : c.op = "read" => Seen(c) = [op |-> "read", off |-> c.off, len |-> c.want]
  /\ \A c : c.op \in {"write", "save"} =>
              Seen(c) = [op |-> "write", off |-> c.off, data |-> c.data]
<1>1. CallUnderWay = Seen(call) /\ CallUnderWay' = Seen(call')
  BY DEF CallUnderWay, Seen
<1>2. Seen(Idle) = Flat!NoCall
  BY DEF Seen, Idle, Flat!NoCall
<1>3. \A c : c.op = "read" => Seen(c) = [op |-> "read", off |-> c.off, len |-> c.want]
  BY DEF Seen
<1>4. \A c : c.op \in {"write", "save"} =>
               Seen(c) = [op |-> "write", off |-> c.off, data |-> c.data]
  BY DEF Seen
<1> QED BY <1>1, <1>2, <1>3, <1>4

LEMMA SeenRead ==
  ASSUME call.op = "read"
  PROVE  /\ CallUnderWay.op = "read" /\ CallUnderWay.off = call.off
         /\ CallUnderWay.len = call.want /\ CallUnderWay # Flat!NoCall
<1>1. CallUnderWay = [op |-> "read", off |-> call.off, len |-> call.want]
  BY SeenIs
<1>2. CallUnderWay.op # Flat!NoCall.op
  BY <1>1 DEF Flat!NoCall
<1> QED BY <1>1, <1>2

LEMMA SeenWrite ==
  ASSUME call.op \in {"write", "save"}
  PROVE  /\ CallUnderWay.op = "write" /\ CallUnderWay.off = call.off
         /\ CallUnderWay.data = call.data /\ CallUnderWay # Flat!NoCall
<1>1. CallUnderWay = [op |-> "write", off |-> call.off, data |-> call.data]
  BY SeenIs
<1>2. CallUnderWay.op # Flat!NoCall.op
  BY <1>1 DEF Flat!NoCall
<1> QED BY <1>1, <1>2

LEMMA AnswersAre ==
  /\ NoAnswer = Flat!NoAnswer
  /\ \A e : Error(e) = Flat!ErrorAnswer(e)
  /\ \A n : Count(n) = Flat!CountAnswer(n)
  /\ \A s : BytesRead(s) = Flat!ReadAnswer(s)
BY DEF NoAnswer, Error, Count, BytesRead, Flat!NoAnswer, Flat!ErrorAnswer, Flat!CountAnswer,
       Flat!ReadAnswer

\* The file with all of the data of the write in its place.
Whole(c) ==
  [p \in 1 .. Larger(Len(c), End) |->
     IF p - call.off \in 1 .. Len(call.data) THEN call.data[p - call.off] ELSE c[p]]

LEMMA OverlaidIs ==
  ASSUME Fits, call.op \in {"write", "save"}, NEW c
  PROVE  Flat!Overlaid(c, CallUnderWay) = Whole(c)
<1>1. CallUnderWay.off = call.off /\ CallUnderWay.data = call.data
  BY SeenWrite
<1>2. DOMAIN call.data = 1 .. Len(call.data)
  BY WriteParts DEF Fits
<1> QED BY <1>1, <1>2 DEF Flat!Overlaid, Flat!Larger, Larger, Whole, End

LEMMA SizeOfWhole ==
  ASSUME Fits, call.op \in {"write", "save"}
  PROVE  /\ ino.size \in Nat /\ End \in Nat /\ call.off \in Nat /\ Len(call.data) \in Nat
         /\ End = call.off + Len(call.data) /\ call.off <= ino.size
         /\ Larger(ino.size, End) \in Nat /\ ino.size <= Larger(ino.size, End)
         /\ Larger(ino.size, End) \in {ino.size, End} /\ End <= Larger(ino.size, End)
         /\ call.done \in Nat /\ call.done <= Len(call.data)
<1>1. /\ ino.size \in Nat /\ call.off \in Nat /\ Len(call.data) \in Nat /\ call.done \in Nat
      /\ End = call.off + Len(call.data)
  BY InodeParts, WriteParts DEF Fits, End
<1>2. End \in Nat
  BY <1>1
<1>3. /\ Larger(ino.size, End) \in {ino.size, End}
      /\ ino.size <= Larger(ino.size, End) /\ End <= Larger(ino.size, End)
  BY <1>1, <1>2, SizeIsLarger
<1>4. call.off <= ino.size /\ call.done <= Len(call.data)
  BY DEF Fits, WriteFits
<1> QED BY <1>1, <1>2, <1>3, <1>4

\* A write under way finds the bytes of the file at its own pointers.
LEMMA SameBytes ==
  ASSUME Fits, DataThere, call.op = "write", NEW p \in Nat, p < ino.size, NEW im
  PROVE  /\ block_index(p) \in 1 .. Len(call.ino.ptrs)
         /\ ByteAt(im, call.ino.ptrs, p) = ByteAt(im, ino.ptrs, p)
<1>1. /\ ino.ptrs \in Seq(Blocks) /\ ino.size \in Nat /\ Len(ino.ptrs) = CeilDiv(ino.size)
      /\ Len(ino.ptrs) \in Nat
  BY InodeParts DEF Fits
<1>2. block_index(p) \in 1 .. Len(ino.ptrs)
  BY <1>1, BlockThere
<1>3. /\ Len(call.ino.ptrs) \in Nat /\ Len(ino.ptrs) <= Len(call.ino.ptrs)
      /\ call.ino.ptrs[block_index(p)] = ino.ptrs[block_index(p)]
  BY <1>1, <1>2, WriteParts DEF Fits, WriteFits, DataThere
<1> QED BY <1>1, <1>2, <1>3 DEF ByteAt

\* A block write, whole or in part, changes bytes of the write's own data only.
LEMMA SomeWritten ==
  ASSUME Fits, DataThere, call.op = "write", Left > 0,
         NEW part, \A k \in InBlock : part[k] \in {Filled[k], image[Target][k]},
         image' = [image EXCEPT ![Target] = part], ino' = ino
  PROVE  Flat!PartlyOverlaid(Content, CallUnderWay, Content')
<1>1. /\ ino.size \in Nat /\ End \in Nat /\ call.off \in Nat /\ Len(call.data) \in Nat
      /\ End = call.off + Len(call.data) /\ call.done \in Nat
      /\ Larger(ino.size, End) \in Nat /\ ino.size <= Larger(ino.size, End)
  BY SizeOfWhole
<1>2. /\ DOMAIN Content = 1 .. ino.size /\ Len(Content) = ino.size
      /\ DOMAIN Content' = 1 .. ino.size
      /\ \A p \in 1 .. ino.size : /\ Content[p] = ByteAt(image, ino.ptrs, p - 1)
                                  /\ Content'[p] = ByteAt(image', ino.ptrs, p - 1)
  BY <1>1, ContentIs, BytesParts
<1>3. Flat!Overlaid(Content, CallUnderWay) = Whole(Content)
  BY OverlaidIs
<1>4. /\ Chunk \in Nat /\ Chunk <= Left /\ Left = Len(call.data) - call.done
      /\ OwnBlocks(call.ino.ptrs)
  BY WritePlace DEF Left, DataThere
<1>5. ASSUME NEW p \in 1 .. ino.size
      PROVE  Content'[p] \in {Content[p], Flat!Overlaid(Content, CallUnderWay)[p]}
  <2>1. PICK q \in Nat : q = p - 1 /\ q < ino.size /\ p \in 1 .. Larger(ino.size, End)
    <3>1. p - 1 \in Nat /\ p - 1 < ino.size /\ p \in 1 .. Larger(ino.size, End)
      BY <1>1
    <3> QED BY <3>1
  <2>2. /\ block_index(q) \in 1 .. Len(call.ino.ptrs)
        /\ Content[p] = ByteAt(image, call.ino.ptrs, q)
        /\ Content'[p] = ByteAt(image', call.ino.ptrs, q)
    BY <1>2, <2>1, SameBytes
  <2>3. Content'[p] # Content[p] =>
          /\ q \in call.off + call.done .. call.off + call.done + Chunk - 1
          /\ Content'[p] = call.data[q - call.off + 1]
    BY <1>4, <2>2, WrittenPlaces
  <2>4. CASE Content'[p] # Content[p]
    <3>1. /\ p - call.off \in 1 .. Len(call.data) /\ q - call.off + 1 = p - call.off
      <4>1. q \in call.off + call.done .. call.off + call.done + Chunk - 1 /\ p \in Nat
        BY <1>1, <2>3, <2>4
      <4>2. p = q + 1 /\ Chunk <= Len(call.data) - call.done
        BY <1>4, <2>1, <4>1
      <4>3. p - call.off \in 1 .. Len(call.data)
        <5>1. PICK off \in Nat, done \in Nat, len \in Nat, n \in Nat :
                off = call.off /\ done = call.done /\ len = Len(call.data) /\ n = Chunk
          BY <1>1, <1>4
        <5>2. q \in Nat /\ off + done <= q /\ q <= off + done + n - 1 /\ n <= len - done
          BY <4>1, <4>2, <5>1
        <5>3. p - off \in 1 .. len
          BY <4>2, <5>2
        <5> QED BY <5>1, <5>3
      <4>4. q - call.off + 1 = p - call.off
        BY <1>1, <2>1, <4>2
      <4> QED BY <4>3, <4>4
    <3>2. Whole(Content)[p] = call.data[p - call.off]
      BY <1>2, <2>1, <3>1 DEF Whole
    <3> QED BY <1>3, <2>3, <2>4, <3>1, <3>2
  <2> QED BY <2>4
<1> QED BY <1>2, <1>5 DEF Flat!PartlyOverlaid

\* When the inode of a write reaches the disk, all of its data is in the file.
LEMMA AllWritten ==
  ASSUME Fits, DataThere, call.op = "write", Left = 0, UNCHANGED image,
         ino' = [call.ino EXCEPT !.size = NewSize]
  PROVE  Content' = Flat!Overlaid(Content, CallUnderWay)
<1>1. /\ ino.size \in Nat /\ End \in Nat /\ call.off \in Nat /\ Len(call.data) \in Nat
      /\ End = call.off + Len(call.data) /\ call.off <= ino.size
      /\ Larger(ino.size, End) \in Nat
      /\ Larger(ino.size, End) \in {ino.size, End}
  BY SizeOfWhole
<1>2. /\ ino'.size = NewSize /\ ino'.ptrs = call.ino.ptrs /\ NewSize = Larger(ino.size, End)
  BY NewInode DEF NewSize, End
<1>3. /\ Len(Content) = ino.size
      /\ \A p \in 1 .. ino.size : Content[p] = ByteAt(image, ino.ptrs, p - 1)
  BY <1>1, ContentIs, BytesParts
<1>4. Content' = [p \in 1 .. Larger(ino.size, End) |-> ByteAt(image, call.ino.ptrs, p - 1)]
  BY <1>2, ContentIs DEF Bytes
<1>5. call.done = Len(call.data)
  <2>1. call.done \in Nat /\ Left = Len(call.data) - call.done
    BY WriteParts DEF Fits, Left
  <2> QED BY <1>1, <2>1
<1>6. ASSUME NEW p \in 1 .. Larger(ino.size, End)
      PROVE  ByteAt(image, call.ino.ptrs, p - 1)
               = IF p - call.off \in 1 .. Len(call.data) THEN call.data[p - call.off]
                 ELSE Content[p]
  <2>1. CASE p - call.off \in 1 .. Len(call.data)
    <3>1. PICK k \in 1 .. Len(call.data) : k = p - call.off /\ call.off + k - 1 = p - 1
      <4>1. call.off + (p - call.off) - 1 = p - 1
        BY <1>1
      <4> QED BY <2>1, <4>1
    <3>2. ByteAt(image, call.ino.ptrs, call.off + k - 1) = call.data[k]
      BY <1>5 DEF DataThere
    <3> QED BY <2>1, <3>1, <3>2
  <2>2. CASE p - call.off \notin 1 .. Len(call.data)
    <3>1. p \in 1 .. ino.size
      BY <1>1, <2>2
    <3>2. p - 1 \in Nat /\ p - 1 < ino.size
      BY <1>1, <3>1
    <3>3. ByteAt(image, call.ino.ptrs, p - 1) = ByteAt(image, ino.ptrs, p - 1)
      BY <3>2, SameBytes
    <3> QED BY <1>3, <2>2, <3>1, <3>3
  <2> QED BY <2>1, <2>2
<1>7. Content' = Whole(Content)
  BY <1>3, <1>4, <1>6 DEF Whole
<1> QED BY <1>7, OverlaidIs

\* While the bitmap is saved the data is in the file already.
LEMMA SavedAlready ==
  ASSUME Fits, DataThere, call.op = "save"
  PROVE  Content = Flat!Overlaid(Content, CallUnderWay)
<1>1. /\ ino.size \in Nat /\ End \in Nat /\ call.off \in Nat /\ Len(call.data) \in Nat
      /\ End = call.off + Len(call.data)
  BY SizeOfWhole
<1>2. call.done = Len(call.data) /\ End <= ino.size
  BY DEF Fits, WriteFits
<1>3. Larger(ino.size, End) = ino.size
  BY <1>1, <1>2 DEF Larger
<1>4. /\ Len(Content) = ino.size
      /\ Content = [p \in 1 .. ino.size |-> ByteAt(image, ino.ptrs, p - 1)]
  BY <1>1, ContentIs, BytesParts DEF Bytes
<1>5. ASSUME NEW p \in 1 .. ino.size, p - call.off \in 1 .. Len(call.data)
      PROVE  ByteAt(image, ino.ptrs, p - 1) = call.data[p - call.off]
  <2>1. PICK k \in 1 .. Len(call.data) : k = p - call.off /\ call.off + k - 1 = p - 1
    <3>1. call.off + (p - call.off) - 1 = p - 1
      BY <1>1
    <3> QED BY <1>5, <3>1
  <2>2. ByteAt(image, ino.ptrs, call.off + k - 1) = call.data[k]
    BY <1>2 DEF DataThere
  <2> QED BY <2>1, <2>2
<1>6. Content = Whole(Content)
  <2>1. Whole(Content) = [p \in 1 .. ino.size |->
          IF p - call.off \in 1 .. Len(call.data) THEN call.data[p - call.off] ELSE Content[p]]
    BY <1>3, <1>4 DEF Whole
  <2>2. \A p \in 1 .. ino.size :
          Content[p] = IF p - call.off \in 1 .. Len(call.data) THEN call.data[p - call.off]
                       ELSE Content[p]
    BY <1>4, <1>5
  <2> QED BY <1>4, <2>1, <2>2
<1> QED BY <1>6, OverlaidIs

\* A read returns the bytes of the file from its offset on, as many as there are.
LEMMA ReadReturnsRange ==
  ASSUME Fits, DataThere, ReadReturns
  PROVE  Flat!ReadReturns
<1>1. /\ call.op = "read" /\ Len(call.got) >= call.len /\ call' = Idle
      /\ answer' = BytesRead(call.got) /\ UNCHANGED <<image, ino>>
  BY DEF ReadReturns, Returns
<1>2. /\ call.off \in Nat /\ call.want \in Nat /\ call.len \in Nat
      /\ call.got \in Seq(Byte) /\ Len(call.got) \in Nat /\ ino.size \in Nat
      /\ call.len = clipped(call.off, call.want) /\ Len(call.got) <= call.len
  BY <1>1, ReadParts, InodeParts DEF Fits, ReadFits
<1>3. Len(call.got) = call.len
  BY <1>1, <1>2
<1>4. /\ Len(Content) = ino.size
      /\ \A p \in 1 .. ino.size : Content[p] = ByteAt(image, ino.ptrs, p - 1)
  BY <1>2, ContentIs, BytesParts
<1>5. \A k \in 1 .. Len(call.got) : call.got[k] = ByteAt(image, ino.ptrs, call.off + k - 1)
  BY <1>1 DEF DataThere
<1> DEFINE last == IF call.off + call.want > Len(Content) THEN Len(Content)
                   ELSE call.off + call.want
<1>6. last \in Nat
  BY <1>2, <1>4
<1>7. call.got = SubSeq(Content, call.off + 1, last)
  <2>1. CASE call.off >= ino.size
    <3>1. last < call.off + 1 /\ call.off + 1 \in Int /\ last \in Int
      BY <1>2, <1>4, <2>1
    <3>2. SubSeq(Content, call.off + 1, last) = <<>>
      <4> HIDE DEF last
      <4> QED BY <3>1, SubSeqEmpty
    <3>3. Len(call.got) = 0
      BY <1>2, <1>3, <2>1 DEF clipped
    <3> QED BY <1>2, <3>2, <3>3, EmptySeq
  <2>2. CASE ~ (call.off >= ino.size)
    <3>1. /\ last = call.off + call.len /\ call.off + call.len <= ino.size
      BY <1>2, <1>4, <2>2 DEF clipped, Smaller
    <3>2. ASSUME NEW k \in 1 .. call.len
          PROVE  /\ call.off + k \in 1 .. ino.size /\ call.off + k - 1 = (call.off + k) - 1
                 /\ Content[call.off + k] = call.got[k] /\ call.got[k] \in Byte
      <4>1. call.off + k \in 1 .. ino.size /\ call.off + k - 1 = (call.off + k) - 1
        BY SMTT(30), <1>2, <3>1
      <4>2. call.got[k] \in Byte
        BY <1>2, <1>3, ElementOfSeq
      <4> QED BY <1>3, <1>4, <1>5, <4>1, <4>2
    <3> HIDE DEF last
    <3>3. ASSUME NEW i \in call.off + 1 .. last PROVE Content[i] \in Byte
      <4>1. PICK k \in 1 .. call.len : call.off + k = i
        <5>1. i - call.off \in 1 .. call.len /\ call.off + (i - call.off) = i
          BY <1>2, <3>1
        <5> QED BY <5>1
      <4> QED BY <3>2, <4>1
    <3>4. call.off + 1 \in Int /\ last \in Int
      BY <1>2, <1>6
    <3>5. PICK s : s = SubSeq(Content, call.off + 1, last)
      OBVIOUS
    <3>6. /\ s \in Seq(Byte)
          /\ Len(s) = IF call.off + 1 <= last THEN last - (call.off + 1) + 1 ELSE 0
          /\ \A k \in 1 .. last - (call.off + 1) + 1 : s[k] = Content[call.off + 1 + k - 1]
      BY SMTT(30), <3>3, <3>4, <3>5, SubSeqProperties
    <3>7. Len(s) = call.len
      BY <1>2, <3>1, <3>6
    <3>8. ASSUME NEW k \in 1 .. call.len PROVE s[k] = call.got[k]
      <4>1. k \in 1 .. last - (call.off + 1) + 1 /\ call.off + 1 + k - 1 = call.off + k
        BY <1>2, <3>1
      <4> QED BY <3>2, <3>6, <4>1
    <3>9. s = call.got
      BY <1>2, <1>3, <3>6, <3>7, <3>8, SeqEqual
    <3> QED BY <3>5, <3>9
  <2> QED BY <2>1, <2>2
<1>8. /\ CallUnderWay.op = "read" /\ CallUnderWay.off = call.off
      /\ CallUnderWay.len = call.want
  BY <1>1, SeenRead
<1>9. CallUnderWay' = Flat!NoCall /\ UNCHANGED Content
  BY <1>1, SeenIs, ContentIs
<1>10. answer' = Flat!ReadAnswer(SubSeq(Content, CallUnderWay.off + 1,
                    IF CallUnderWay.off + CallUnderWay.len > Len(Content) THEN Len(Content)
                    ELSE CallUnderWay.off + CallUnderWay.len))
  BY <1>1, <1>7, <1>8, AnswersAre
<1> QED BY <1>8, <1>9, <1>10 DEF Flat!ReadReturns

LEMMA BeginStep ==
  ASSUME Fits, NEW off \in Offsets,
         \/ \E len \in Offsets : begin_read(off, len)
         \/ \E data \in Buffers : begin_write(off, data)
  PROVE  Flat!Starts \/ Flat!Refused
<1>1. call = Idle /\ UNCHANGED <<image, ino>> /\ off \in Nat
  <2>1. off \in Nat
    BY Sizes DEF Offsets
  <2>2. CASE \E len \in Offsets : begin_read(off, len)
    BY <2>1, <2>2 DEF begin_read
  <2>3. CASE \E data \in Buffers : begin_write(off, data)
    BY <2>1, <2>3 DEF begin_write
  <2> QED BY <2>2, <2>3
<1>2. CallUnderWay = Flat!NoCall /\ UNCHANGED Content
  BY <1>1, SeenIs, ContentIs
<1>3. Len(Content) = ino.size /\ ino.size \in Nat
  BY InodeParts, ContentIs, BytesParts DEF Fits
<1>4. ASSUME NEW len \in Offsets, begin_read(off, len) PROVE Flat!Starts
  <2>1. /\ answer' = NoAnswer /\ call'.op = "read" /\ call'.off = off /\ call'.want = len
    BY <1>4 DEF begin_read
  <2>2. CallUnderWay' = [op |-> "read", off |-> off, len |-> len]
    BY <2>1, SeenIs
  <2>3. /\ CallUnderWay'.op = "read" /\ CallUnderWay'.off \in Nat /\ CallUnderWay'.len \in Nat
    BY <1>1, <2>2, Sizes DEF Offsets
  <2> QED BY <1>2, <2>1, <2>3, AnswersAre DEF Flat!Starts
<1>5. ASSUME NEW data \in Buffers, begin_write(off, data) PROVE Flat!Starts \/ Flat!Refused
  <2>1. CASE Returns(Error("EINVAL")) \/ Returns(Error("ENOSPC"))
    <3>1. call' = Idle /\ answer' \in {Error("EINVAL"), Error("ENOSPC")}
      BY <2>1 DEF Returns
    <3>2. CallUnderWay' = Flat!NoCall
      BY <3>1, SeenIs
    <3> QED BY <1>2, <3>1, <3>2, AnswersAre DEF Flat!Refused
  <2>2. ASSUME NEW new, NEW grows, off <= ino.size, answer' = NoAnswer,
               call' = [op |-> "write", off |-> off, data |-> data, done |-> 0, ino |-> new,
                        grows |-> grows]
        PROVE  Flat!Starts
    <3>1. CallUnderWay' = [op |-> "write", off |-> off, data |-> data]
      BY <2>2, SeenIs
    <3>2. off \in 0 .. Len(Content)
      BY <1>1, <1>3, <2>2
    <3>3. data \in Seq(Byte)
      BY DataAssumption DEF DataAssumption
    <3>4. /\ CallUnderWay'.op = "write" /\ CallUnderWay'.off \in 0 .. Len(Content)
          /\ CallUnderWay'.data \in Seq(Byte)
      BY <3>1, <3>2, <3>3
    <3> QED BY <1>2, <2>2, <3>4, AnswersAre DEF Flat!Starts
  <2> QED BY <1>5, <2>1, <2>2 DEF begin_write
<1> QED BY <1>4, <1>5

LEMMA WriteStep ==
  ASSUME Fits, DataThere, WriteBlock \/ WriteBlockFails
  PROVE  Flat!WritesSome \/ Flat!FailsHalfWay
<1>1. call.op = "write" /\ Left > 0 /\ UNCHANGED ino
  BY DEF WriteBlock, WriteBlockFails
<1>2. CallUnderWay.op = "write" /\ CallUnderWay # Flat!NoCall
  BY <1>1, SeenWrite
<1>3. CASE WriteBlock
  <2>1. image' = [image EXCEPT ![Target] = Filled] /\ UNCHANGED answer
    BY <1>3 DEF WriteBlock
  <2>2. Flat!PartlyOverlaid(Content, CallUnderWay, Content')
    BY <1>1, <2>1, SomeWritten
  <2>3. call'.op = "write" /\ call'.off = call.off /\ call'.data = call.data
    BY <1>3, WriteBlockFits
  <2>4. UNCHANGED CallUnderWay
    BY <1>1, <2>3, SeenIs
  <2> QED BY <1>2, <2>1, <2>2, <2>4 DEF Flat!WritesSome
<1>4. CASE WriteBlockFails
  <2>1. PICK n \in 0 .. BlockSize :
          image' = [image EXCEPT ![Target] =
                      [k \in InBlock |-> IF k < n THEN Filled[k] ELSE image[Target][k]]]
    BY <1>4 DEF WriteBlockFails
  <2>2. PICK part : part = [k \in InBlock |-> IF k < n THEN Filled[k] ELSE image[Target][k]]
    OBVIOUS
  <2>3. /\ image' = [image EXCEPT ![Target] = part]
        /\ \A k \in InBlock : part[k] \in {Filled[k], image[Target][k]}
    BY <2>1, <2>2
  <2>4. Flat!PartlyOverlaid(Content, CallUnderWay, Content')
    BY <1>1, <2>3, SomeWritten
  <2>5. CallUnderWay' = Flat!NoCall /\ answer' = Flat!ErrorAnswer("EIO")
    BY <1>4, SeenIs, AnswersAre DEF WriteBlockFails, Returns
  <2> QED BY <1>2, <2>4, <2>5 DEF Flat!FailsHalfWay
<1> QED BY <1>3, <1>4

LEMMA WriteEnds ==
  ASSUME Fits, DataThere, WriteInode \/ WriteInodeFails \/ SaveMap
  PROVE  Flat!WritesSome \/ Flat!WriteReturns \/ Flat!FailsHalfWay
<1>1. call.op \in {"write", "save"}
  BY DEF WriteInode, WriteInodeFails, SaveMap
<1>2. /\ CallUnderWay.op = "write" /\ CallUnderWay # Flat!NoCall
      /\ CallUnderWay.data = call.data
  BY <1>1, SeenWrite
<1>3. call' = Idle => CallUnderWay' = Flat!NoCall
  BY SeenIs
<1>4. CASE WriteInode
  <2>1. call.op = "write" /\ Left = 0 /\ Content' = Flat!Overlaid(Content, CallUnderWay)
    BY <1>4, AllWritten DEF WriteInode
  <2>2. CASE Returns(Count(call.done))
    <3>1. call.done = Len(call.data)
      BY <1>1, <2>1, WriteParts DEF Fits, Left
    <3> QED BY <1>2, <1>3, <2>1, <2>2, <3>1, AnswersAre DEF Flat!WriteReturns, Returns
  <2>3. CASE call' = [call EXCEPT !.op = "save"] /\ UNCHANGED answer
    <3>1. call'.op = "save" /\ call'.off = call.off /\ call'.data = call.data
      <4>1. call \in [op : {"write", "save"}, off : Offsets, data : Buffers, done : Offsets,
                      ino : Inode, grows : BOOLEAN]
        BY <2>1 DEF Fits, TypeOK, Idle
      <4> QED BY <2>3, <4>1
    <3>2. UNCHANGED CallUnderWay
      BY <1>1, <3>1, SeenIs
    <3> QED BY <1>2, <2>1, <2>3, <3>2 DEF Flat!WritesSome
  <2> QED BY <1>4, <2>2, <2>3 DEF WriteInode
<1>5. CASE WriteInodeFails
  <2>1. /\ call.op = "write" /\ Left = 0 /\ UNCHANGED image /\ call' = Idle
        /\ answer' = Flat!ErrorAnswer("EIO")
        /\ ino' = ino \/ ino' = [call.ino EXCEPT !.size = NewSize]
    BY <1>5, AnswersAre DEF WriteInodeFails, Returns
  <2>2. Content' = Content \/ Content' = Flat!Overlaid(Content, CallUnderWay)
    BY <2>1, AllWritten, ContentIs
  <2> QED BY <1>2, <1>3, <2>1, <2>2 DEF Flat!FailsHalfWay
<1>6. CASE SaveMap
  <2>1. /\ call.op = "save" /\ call' = Idle /\ UNCHANGED <<image, ino>>
        /\ answer' = Count(call.done) \/ answer' = Error("EIO")
    BY <1>6 DEF SaveMap, Returns
  <2>2. Content' = Content /\ Content = Flat!Overlaid(Content, CallUnderWay)
    BY <2>1, SavedAlready, ContentIs
  <2>3. call.done = Len(call.data)
    BY <2>1 DEF Fits, WriteFits
  <2>4. CASE answer' = Count(call.done)
    BY <1>2, <1>3, <2>1, <2>2, <2>3, <2>4, AnswersAre DEF Flat!WriteReturns
  <2>5. CASE answer' = Error("EIO")
    BY <1>2, <1>3, <2>1, <2>2, <2>5, AnswersAre DEF Flat!FailsHalfWay
  <2> QED BY <2>1, <2>4, <2>5
<1> QED BY <1>4, <1>5, <1>6

LEMMA TruncateStep ==
  ASSUME Fits, fs_truncate
  PROVE  Flat!Truncates
<1>1. call = Idle /\ call' = Idle /\ UNCHANGED image
  BY DEF fs_truncate
<1>2. CallUnderWay = Flat!NoCall /\ CallUnderWay' = Flat!NoCall
  BY <1>1, SeenIs
<1>3. CASE ino' = [size |-> 0, ptrs |-> <<>>] /\ answer' \in {Count(0), Error("EIO")}
  <2>1. Content' = <<>>
    BY <1>3, ContentIs, NoBytes
  <2> QED BY <1>2, <1>3, <2>1, AnswersAre DEF Flat!Truncates
<1>4. CASE UNCHANGED ino /\ answer' = Error("EIO")
  <2>1. UNCHANGED Content
    BY <1>1, <1>4, ContentIs
  <2> QED BY <1>2, <1>4, <2>1, AnswersAre DEF Flat!Truncates
<1> QED BY <1>3, <1>4 DEF fs_truncate

LEMMA DataStep ==
  ASSUME DataInv, ~torn, [Next]_vars
  PROVE  [Flat!FlatNext]_(Flat!varsFlat)
<1>1. Fits /\ DataThere
  BY DEF DataInv
<1>2. CASE \/ \E off, len \in Offsets : begin_read(off, len)
           \/ \E off \in Offsets, data \in Buffers : begin_write(off, data)
  BY <1>1, <1>2, BeginStep DEF Flat!FlatNext
<1>3. CASE ReadBlock
  <2>1. /\ UNCHANGED <<image, ino, answer>> /\ call.op = "read"
        /\ call' = [call EXCEPT !.got = call.got \o NextPart]
    BY <1>3 DEF ReadBlock, NextPart
  <2>2. PICK all : call' = [call EXCEPT !.got = all]
    BY <2>1
  <2>3. call \in [op : {"read"}, off : Offsets, want : Offsets, len : Offsets, got : Seq(Byte)]
    BY <1>1, <2>1 DEF Fits, TypeOK, Idle
  <2>4. call'.op = "read" /\ call'.off = call.off /\ call'.want = call.want
    BY <2>2, <2>3
  <2>5. UNCHANGED CallUnderWay /\ UNCHANGED Content
    BY <2>1, <2>4, SeenIs, ContentIs
  <2> QED BY <2>1, <2>5 DEF Flat!varsFlat
<1>4. CASE ReadReturns
  BY <1>1, <1>4, ReadReturnsRange DEF Flat!FlatNext
<1>5. CASE ReadFails
  <2>1. /\ call.op = "read" /\ call' = Idle /\ answer' = Error("EIO")
        /\ UNCHANGED <<image, ino>>
    BY <1>5 DEF ReadFails, Returns
  <2>2. CallUnderWay # Flat!NoCall /\ CallUnderWay' = Flat!NoCall /\ UNCHANGED Content
    BY <2>1, SeenRead, SeenIs, ContentIs
  <2>3. Flat!FailsHalfWay
    BY <2>1, <2>2, AnswersAre DEF Flat!FailsHalfWay
  <2> QED BY <2>3 DEF Flat!FlatNext
<1>6. CASE WriteBlock \/ WriteBlockFails
  BY <1>1, <1>6, WriteStep DEF Flat!FlatNext
<1>7. CASE WriteInode \/ WriteInodeFails \/ SaveMap
  BY <1>1, <1>7, WriteEnds DEF Flat!FlatNext
<1>8. CASE fs_truncate
  BY <1>1, <1>8, TruncateStep DEF Flat!FlatNext
<1>9. CASE UNCHANGED vars
  <2>1. UNCHANGED Content /\ UNCHANGED CallUnderWay /\ UNCHANGED answer
    BY <1>9, SeenIs, ContentIs DEF vars
  <2> QED BY <2>1 DEF Flat!varsFlat
<1> QED BY <1>2, <1>3, <1>4, <1>5, <1>6, <1>7, <1>8, <1>9 DEF Next, Continues

LEMMA DataInit == Init => DataInv /\ Flat!FlatInit
<1> SUFFICES ASSUME Init PROVE DataInv /\ Flat!FlatInit
  OBVIOUS
<1>1. /\ ino.size = 0 /\ Len(ino.ptrs) = 0 /\ call = Idle /\ answer = NoAnswer
  BY EmptySeq DEF Init
<1>2. DataThere
  BY <1>1 DEF DataThere, OwnBlocks, Idle
<1>3. Content = <<>> /\ CallUnderWay = Flat!NoCall /\ answer = Flat!NoAnswer
  BY <1>1, ContentIs, NoBytes, SeenIs, AnswersAre
<1> QED BY <1>2, <1>3, FitsInit DEF DataInv, Flat!FlatInit

LEMMA DataInvHolds == Spec => []DataInv
<1>1. Init => DataInv
  BY DataInit
<1>2. DataInv /\ [Next]_vars => DataInv'
  BY DataInvNext
<1> QED BY <1>1, <1>2, PTL DEF Spec

\* What fs_read returns is what fs_write was given, at every offset and length, whatever
\* the blocks held before and whatever block_read or block_write failed in between, as
\* long as no truncate has failed after it had cleared bits of the bitmap.
THEOREM BytesAreThoseWritten == Spec /\ []~torn => ImplementsFlatFile
<1>1. Init => Flat!FlatInit
  BY DataInit
<1>2. DataInv /\ ~torn /\ [Next]_vars => [Flat!FlatNext]_(Flat!varsFlat)
  BY DataStep
<1> QED BY <1>1, <1>2, DataInvHolds, PTL DEF Spec, ImplementsFlatFile, Flat!FlatSpec

\* Until then no two pointers of the file are the same and every block it points to is
\* marked, so that no write takes one of them a second time.
THEOREM BlocksStayOwn == Spec => [](~torn => OwnBlocks(ino.ptrs))
<1>1. DataInv => (~torn => OwnBlocks(ino.ptrs))
  BY DEF DataInv, DataThere
<1> QED BY <1>1, DataInvHolds, PTL
=============================================================================
