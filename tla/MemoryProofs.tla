---------------------------- MODULE MemoryProofs ----------------------------
(***************************************************************************)
(* Proofs about Memory for every number and size of pages and every set of *)
(* ROMs: the types, that a guarded byte of a ROM cannot be changed, that   *)
(* the protected pages are the ROMs, and that the stack is a stack.        *)
(*                                                                         *)
(* RomIntact is inductive but for loading: while the configuration is read *)
(* a page may become guarded only later, so until the guest starts every   *)
(* byte of a ROM, guarded or not, must be what was loaded.                 *)
(* ProtectionIsRoms is inductive given the types; the stack's property is  *)
(* one of each step, and rests on the arithmetic of addresses that wrap.   *)
(***************************************************************************)
EXTENDS Memory, TLAPS

LEMMA PageType == \A a \in Addr : Page(a) \in Pages
<1> SUFFICES ASSUME NEW a \in Addr PROVE Page(a) \in Pages
  OBVIOUS
<1>1. PICK n \in Nat \ {0}, k \in Nat \ {0} : n = PageSize /\ k = PageCount
  BY MemoryAssumption
<1>2. a \in Nat /\ a < n * k
  BY <1>1 DEF Addr, MemorySize
<1>3. a \div n \in Nat /\ a \div n < k
  BY <1>2
<1> QED  BY <1>1, <1>3 DEF Page, Pages

LEMMA SizeType ==
    MemorySize \in Nat /\ MemorySize >= 2 /\ Top \in Addr /\ 0 \in Addr
<1>1. PICK n \in Nat, k \in Nat \ {0} :
        n = PageSize /\ k = PageCount /\ n >= 2
  BY MemoryAssumption
<1>2. n * k \in Nat /\ n * k >= 2
  BY <1>1
<1>3. MemorySize \in Nat /\ MemorySize >= 2
  BY <1>1, <1>2 DEF MemorySize
<1> QED  BY <1>3 DEF Top, Addr

(* RomIntact, and while loading more than that.                            *)
IInv ==
    /\ TypeOK
    /\ RomIntact
    /\ loading => \A a \in Addr : image[a] # NoRom => memory[a] = image[a]

LEMMA NextAddrType ==
    ASSUME NEW a \in Addr
    PROVE  /\ Minus2(a) \in Addr
           /\ Plus2(a) \in Addr
           /\ a # Top => a + 1 \in Addr
<1>1. PICK n \in Nat : n = MemorySize /\ n >= 2
  BY SizeType
<1>2. a \in 0 .. n - 1 /\ Addr = 0 .. n - 1 /\ Top = n - 1
  BY <1>1 DEF Addr, Top
<1>3. \A b \in Addr : Next16(b) \in Addr
  BY <1>2 DEF Next16
<1>4. Plus2(a) \in Addr
  BY <1>3 DEF Plus2
<1>5. a # Top => a + 1 \in Addr
  BY <1>2
<1>6. Minus2(a) \in Addr
  <2>1. CASE a >= 2
    BY <1>2, <2>1 DEF Minus2
  <2>2. CASE ~(a >= 2)
    BY <1>1, <1>2, <2>2 DEF Minus2
  <2> QED  BY <2>1, <2>2
<1> QED  BY <1>4, <1>5, <1>6

-----------------------------------------------------------------------------
LEMMA InitIInv == Init => IInv
<1> SUFFICES ASSUME Init PROVE IInv
  OBVIOUS
<1>1. TypeOK
  <2>1. 0 \in 0 .. MaxRoms /\ 0 \in 0 .. MaxDepth /\ Zero \in Values
    BY MemoryAssumption
  <2>2. /\ memory \in [Addr -> Values]
        /\ write_prot \in [Pages -> BOOLEAN]
        /\ image \in [Addr -> Values \cup {NoRom}]
    BY <2>1 DEF Init
  <2>3. sp \in Addr /\ lines \in 0 .. MaxRoms /\ depth \in 0 .. MaxDepth
    BY <2>1, SizeType DEF Init
  <2> QED  BY <2>2, <2>3 DEF Init, TypeOK
<1>2. \A a \in Addr : image[a] = NoRom
  BY DEF Init
<1> QED  BY <1>1, <1>2 DEF IInv, RomIntact

(* A store leaves guarded bytes alone.                                     *)
LEMMA Write8Keeps ==
    ASSUME IInv, ~loading, NEW b \in Addr, NEW v \in Contents, Write8(b, v)
    PROVE  /\ memory' \in [Addr -> Values]
           /\ UNCHANGED <<write_prot, image, lines, whole, overran>>
           /\ RomIntact'
<1>1. memory \in [Addr -> Values] /\ v \in Values
  BY MemoryAssumption DEF IInv, TypeOK
<1>2. UNCHANGED <<write_prot, image, lines, whole, overran>>
  BY DEF Write8
<1>3. memory' \in [Addr -> Values]
  BY <1>1 DEF Write8
<1>4. \A a \in Addr : write_prot[Page(a)] => memory'[a] = memory[a]
  BY <1>1 DEF Write8
<1>5. RomIntact'
  <2> SUFFICES ASSUME NEW a \in Addr, ~overran, image[a] # NoRom, Guarded(a)
               PROVE  memory'[a] = image[a]
    BY <1>2 DEF RomIntact, Guarded
  <2>1. memory[a] = image[a]
    BY DEF IInv, RomIntact
  <2> QED  BY <1>4, <2>1 DEF Guarded
<1> QED  BY <1>2, <1>3, <1>5

LEMMA Write16Keeps ==
    ASSUME IInv, ~loading, NEW b \in Addr, NEW v \in Contents,
           NEW w \in Contents, Write16(b, v, w)
    PROVE  /\ memory' \in [Addr -> Values]
           /\ write_prot' \in [Pages -> BOOLEAN]
           /\ overran' \in BOOLEAN
           /\ UNCHANGED <<image, lines, whole>>
           /\ RomIntact'
<1>1. /\ memory \in [Addr -> Values] /\ v \in Values /\ w \in Values
      /\ write_prot \in [Pages -> BOOLEAN] /\ overran \in BOOLEAN
  BY MemoryAssumption DEF IInv, TypeOK
<1>2. UNCHANGED <<image, lines, whole>>
  BY DEF Write16
<1>3. CASE write_prot[Page(b)] /\ UNCHANGED <<memory, write_prot, overran>>
  BY <1>1, <1>2, <1>3 DEF IInv, RomIntact, Guarded
<1>4. CASE /\ ~write_prot[Page(b)] /\ b # Top
           /\ memory' = [memory EXCEPT ![b] = v, ![b + 1] = w]
           /\ UNCHANGED <<write_prot, overran>>
  <2>1. b + 1 \in Addr
    BY <1>4, NextAddrType
  <2>2. memory' \in [Addr -> Values]
    BY <1>1, <1>4, <2>1
  <2>3. RomIntact'
    <3> SUFFICES ASSUME NEW a \in Addr, ~overran, image[a] # NoRom, Guarded(a)
                 PROVE  memory'[a] = image[a]
      BY <1>2, <1>4 DEF RomIntact, Guarded
    <3>1. memory[a] = image[a]
      BY DEF IInv, RomIntact
    <3>2. a # b
      BY <1>4 DEF Guarded
    <3>3. ASSUME a = b + 1 PROVE FALSE
      <4>1. a > 0 /\ a - 1 = b
        BY <3>3, SizeType DEF Addr
      <4> QED  BY <1>4, <4>1 DEF Guarded
    <3> QED  BY <1>1, <1>4, <3>1, <3>2, <3>3
  <2> QED  BY <1>1, <1>2, <1>4, <2>2, <2>3
<1>5. CASE /\ memory' = [memory EXCEPT ![b] = v]
           /\ PastTheEnd(w)
  <2>1. memory' \in [Addr -> Values]
    BY <1>1, <1>5
  <2>2. overran' = TRUE /\ write_prot' \in [Pages -> BOOLEAN]
    BY <1>1, <1>5 DEF PastTheEnd
  <2>3. RomIntact'
    BY <2>2 DEF RomIntact
  <2> QED  BY <1>2, <2>1, <2>2, <2>3
<1> QED  BY <1>3, <1>4, <1>5 DEF Write16

LEMMA NextIInv == IInv /\ [Next]_vars => IInv'
<1> SUFFICES ASSUME IInv, [Next]_vars PROVE IInv'
  OBVIOUS
<1>1. ASSUME NEW rom \in Roms, LoadRom(rom) PROVE IInv'
  <2>1. TypeOK'
    BY <1>1, MemoryAssumption DEF IInv, TypeOK, LoadRom
  <2>2. \A a \in Addr : image'[a] # NoRom => memory'[a] = image'[a]
    BY <1>1 DEF IInv, TypeOK, LoadRom
  <2> QED  BY <2>1, <2>2 DEF IInv, RomIntact
<1>2. CASE Start
  BY <1>2 DEF IInv, TypeOK, RomIntact, Guarded, Start, history
<1>3. CASE Reset
  <2>1. TypeOK'
    <3>1. 0 \in 0 .. MaxRoms /\ 0 \in 0 .. MaxDepth /\ Zero \in Values
      BY MemoryAssumption
    <3>2. /\ memory' \in [Addr -> Values]
          /\ write_prot' \in [Pages -> BOOLEAN]
          /\ image' \in [Addr -> Values \cup {NoRom}]
      BY <1>3, <3>1 DEF Reset
    <3>3. /\ sp' \in Addr /\ lines' \in 0 .. MaxRoms
          /\ depth' \in 0 .. MaxDepth
      BY <1>3, <3>1, SizeType DEF Reset
    <3> QED  BY <1>3, <3>2, <3>3 DEF Reset, TypeOK
  <2>2. \A a \in Addr : image'[a] = NoRom
    BY <1>3 DEF Reset
  <2> QED  BY <2>1, <2>2 DEF IInv, RomIntact
<1>4. CASE DisableRom
  <2>1. TypeOK'
    BY <1>4 DEF IInv, TypeOK, DisableRom
  <2>2. \A a \in Addr : image'[a] = NoRom
    BY <1>4 DEF DisableRom
  <2> QED  BY <2>1, <2>2 DEF IInv, RomIntact
<1>5. CASE Pop
  <2>1. TypeOK'
    <3>1. sp' \in Addr
      BY <1>5, NextAddrType DEF IInv, TypeOK, Pop
    <3>2. depth' \in 0 .. MaxDepth
      BY <1>5, MemoryAssumption DEF IInv, TypeOK, Pop
    <3> QED  BY <1>5, <3>1, <3>2 DEF IInv, TypeOK, Pop
  <2> QED  BY <1>5, <2>1 DEF IInv, RomIntact, Guarded, Pop
<1>6. ASSUME NEW a \in Addr, NEW v \in Contents, Store(a, v) PROVE IInv'
  <2>1. ~loading /\ Write8(a, v)
    BY <1>6 DEF Store
  <2>2. /\ memory' \in [Addr -> Values] /\ RomIntact'
        /\ UNCHANGED <<write_prot, image, lines, whole, overran>>
    BY <2>1, Write8Keeps
  <2>3. TypeOK'
    BY <1>6, <2>2, MemoryAssumption DEF IInv, TypeOK, Store
  <2> QED  BY <1>6, <2>1, <2>2, <2>3 DEF IInv, Store
<1>7. ASSUME NEW a \in Addr, NEW v \in Contents, NEW w \in Contents,
             Write16(a, v, w), ~loading, UNCHANGED loading,
             sp' \in Addr, depth' \in 0 .. MaxDepth
      PROVE  IInv'
  <2>1. /\ memory' \in [Addr -> Values] /\ write_prot' \in [Pages -> BOOLEAN]
        /\ overran' \in BOOLEAN /\ RomIntact'
        /\ UNCHANGED <<image, lines, whole>>
    BY <1>7, Write16Keeps
  <2>2. TypeOK'
    <3>1. /\ image' \in [Addr -> Values \cup {NoRom}]
          /\ lines' \in 0 .. MaxRoms /\ whole' \in BOOLEAN
      BY <2>1 DEF IInv, TypeOK
    <3>2. loading' \in BOOLEAN
      BY <1>7 DEF IInv, TypeOK
    <3> QED  BY <1>7, <2>1, <3>1, <3>2 DEF TypeOK
  <2> QED  BY <1>7, <2>1, <2>2 DEF IInv
<1>8. ASSUME NEW a \in Addr, NEW v \in Contents, NEW w \in Contents,
             StoreWord(a, v, w)
      PROVE  IInv'
  <2>1. /\ Write16(a, v, w) /\ ~loading /\ UNCHANGED loading
        /\ sp' \in Addr /\ depth' \in 0 .. MaxDepth
    BY <1>8, MemoryAssumption DEF IInv, TypeOK, StoreWord
  <2> QED  BY <1>7, <2>1
<1>9. ASSUME NEW v \in Contents, NEW w \in Contents, Push(v, w) PROVE IInv'
  <2>1. Minus2(sp) \in Addr
    BY NextAddrType DEF IInv, TypeOK
  <2>2. /\ Write16(Minus2(sp), v, w) /\ ~loading /\ UNCHANGED loading
        /\ sp' \in Addr /\ depth' \in 0 .. MaxDepth
    BY <1>9, <2>1, MemoryAssumption DEF IInv, TypeOK, Push
  <2> QED  BY <1>7, <2>1, <2>2
<1>10. ASSUME NEW v \in Contents, NEW w \in Contents, Xthl(v, w) PROVE IInv'
  <2>1. /\ Write16(sp, v, w) /\ ~loading /\ UNCHANGED loading /\ sp \in Addr
        /\ sp' \in Addr /\ depth' \in 0 .. MaxDepth
    BY <1>10 DEF IInv, TypeOK, Xthl
  <2> QED  BY <1>7, <2>1
<1>11. ASSUME NEW a \in Addr, SetSp(a) PROVE IInv'
  <2>1. TypeOK'
    BY <1>11, MemoryAssumption DEF IInv, TypeOK, SetSp
  <2> QED  BY <1>11, <2>1 DEF IInv, RomIntact, Guarded, SetSp
<1>12. CASE UNCHANGED vars
  BY <1>12 DEF IInv, TypeOK, RomIntact, Guarded, vars, history
<1> QED  BY <1>1, <1>2, <1>3, <1>4, <1>5, <1>6, <1>8, <1>9, <1>10, <1>11,
            <1>12 DEF Next

THEOREM Invariance == Spec => []IInv
BY InitIInv, NextIInv, PTL DEF Spec

(* The stack pointer stays an address through every wrap, and protection   *)
(* is a matter of pages that exist.                                        *)
THEOREM TypeCorrect == Spec => []TypeOK
<1>1. IInv => TypeOK
  BY DEF IInv
<1> QED  BY <1>1, Invariance, PTL

(* No sequence of stores, pushes, calls, exchanges and deposits changes a  *)
(* guarded byte of a ROM before port FF is used.                           *)
THEOREM GuardedRomIntact == Spec => []RomIntact
<1>1. IInv => RomIntact
  BY DEF IInv
<1> QED  BY <1>1, Invariance, PTL

-----------------------------------------------------------------------------
(* A page lies within a range of whole pages if its bytes do.              *)
LEMMA PageOrder ==
  ASSUME NEW n \in Nat \ {0}, NEW a \in Nat, NEW p \in Nat
  PROVE  /\ p <= a \div n <=> n * p <= a
         /\ a \div n < p <=> a < n * p
<1>1. PICK k \in Nat, r \in 0 .. n - 1 : k = a \div n /\ a = n * k + r
  BY a \div n \in Nat /\ a % n \in 0 .. n - 1 /\ a = n * (a \div n) + (a % n)
<1>2. CASE p <= k
  <2>1. PICK j \in Nat : k = p + j
    BY <1>2
  <2>2. n * k = n * p + n * j /\ n * j >= 0
    BY <2>1
  <2> QED
    BY <1>1, <1>2, <2>2
<1>3. CASE k < p
  <2>1. PICK j \in Nat : p = k + 1 + j
    BY <1>3
  <2>2. n * p = n * k + n + n * j /\ n * j >= 0
    BY <2>1
  <2> QED
    BY <1>1, <1>3, <2>2
<1> QED
  BY <1>1, <1>2, <1>3

LEMMA WholePagesProtected ==
  ASSUME NEW rom \in Roms, WholePages(rom), NEW a \in Addr
  PROVE  Page(a) \in ProtectedPages(rom) <=> Within(a, rom)
<1>1. /\ rom.offset \in Nat /\ rom.size \in Nat /\ a \in Nat
      /\ PageSize \in Nat \ {0}
  BY MemoryAssumption DEF Addr
<1>2. PICK p \in Nat : p = Page(rom.offset) /\ rom.offset = PageSize * p
  BY <1>1 DEF WholePages, Page
<1>3. PICK q \in Nat : q = rom.size \div PageSize /\ rom.size = PageSize * q
  BY <1>1 DEF WholePages
<1>4. PICK e \in Nat : e = p + q /\ rom.offset + rom.size = PageSize * e
  BY <1>1, <1>2, <1>3
<1>5. p <= Page(a) <=> rom.offset <= a
  BY <1>1, <1>2, PageOrder DEF Page
<1>6. Page(a) < e <=> a < rom.offset + rom.size
  BY <1>1, <1>4, PageOrder DEF Page
<1> QED
  BY <1>2, <1>3, <1>4, <1>5, <1>6, PageType DEF ProtectedPages, Within

LEMMA ProtectionStep ==
  ASSUME TypeOK, ProtectionIsRoms, [Next]_vars
  PROVE  ProtectionIsRoms'
<1>1. ASSUME NEW rom \in Roms, LoadRom(rom) PROVE ProtectionIsRoms'
  <2> SUFFICES ASSUME whole', ~overran', NEW a \in Addr
               PROVE  write_prot'[Page(a)] <=> image'[a] # NoRom
    BY DEF ProtectionIsRoms
  <2>1. whole /\ WholePages(rom) /\ ~overran
    BY <1>1 DEF LoadRom
  <2>2. write_prot[Page(a)] <=> image[a] # NoRom
    BY <2>1 DEF ProtectionIsRoms
  <2>3. write_prot'[Page(a)] <=> Page(a) \in ProtectedPages(rom) \/ write_prot[Page(a)]
    BY <1>1, PageType DEF LoadRom, TypeOK
  <2>4. image'[a] # NoRom <=> Within(a, rom) \/ image[a] # NoRom
    BY <1>1, MemoryAssumption DEF LoadRom
  <2> QED
    BY <2>1, <2>2, <2>3, <2>4, WholePagesProtected
<1>2. CASE Start \/ Pop
  BY <1>2 DEF Start, Pop, history, ProtectionIsRoms
<1>3. CASE Reset \/ DisableRom
  BY <1>3, PageType DEF Reset, DisableRom, ProtectionIsRoms
<1>4. ASSUME NEW a \in Addr, NEW v \in Contents, NEW w \in Contents, Write16(a, v, w)
      PROVE  ProtectionIsRoms'
  BY <1>4 DEF Write16, PastTheEnd, ProtectionIsRoms
<1>5. ASSUME NEW a \in Addr, NEW v \in Contents, Store(a, v)
      PROVE  ProtectionIsRoms'
  BY <1>5 DEF Store, Write8, ProtectionIsRoms
<1>6. ASSUME NEW a \in Addr, NEW v \in Contents, NEW w \in Contents,
             StoreWord(a, v, w)
      PROVE  ProtectionIsRoms'
  BY <1>4, <1>6 DEF StoreWord
<1>7. ASSUME NEW v \in Contents, NEW w \in Contents, Push(v, w) \/ Xthl(v, w)
      PROVE  ProtectionIsRoms'
  BY <1>4, <1>7, NextAddrType DEF Push, Xthl, TypeOK
<1>8. ASSUME NEW a \in Addr, SetSp(a) PROVE ProtectionIsRoms'
  BY <1>8 DEF SetSp, ProtectionIsRoms
<1>9. CASE UNCHANGED vars
  BY <1>9 DEF vars, history, ProtectionIsRoms
<1> QED
  BY <1>1, <1>2, <1>3, <1>5, <1>6, <1>7, <1>8, <1>9 DEF Next

(* ROMs of whole pages are protected to the byte, whatever the size of a   *)
(* page, however they overlap, and until port FF is used.                  *)
THEOREM ProtectionExact == Spec => []ProtectionIsRoms
<1>1. Init => ProtectionIsRoms
  BY PageType DEF Init, ProtectionIsRoms
<1>2. TypeOK /\ ProtectionIsRoms /\ [Next]_vars => ProtectionIsRoms'
  BY ProtectionStep
<1> QED
  BY <1>1, <1>2, TypeCorrect, PTL DEF Spec

-----------------------------------------------------------------------------
(* The address d bytes above another.                                      *)
LEMMA Above ==
  ASSUME NEW n \in Nat, n >= 2, NEW a \in 0 .. n - 1, NEW d \in 0 .. n - 1
  PROVE  (a + d) % n = IF a + d < n THEN a + d ELSE a + d - n
<1>1. CASE a + d < n
  BY <1>1
<1>2. CASE a + d >= n
  BY <1>2
<1> QED
  BY <1>1, <1>2

(* A word is stored at a: no word two bytes or more above it changes.      *)
LEMMA WordStored ==
  ASSUME NEW m \in [Addr -> Values], NEW a \in Addr, a # Top,
         NEW v \in Values, NEW w \in Values
  PROVE  LET mw == [m EXCEPT ![a] = v, ![a + 1] = w]
         IN  /\ Read16(mw, a) = <<v, w>>
             /\ \A d \in 2 .. MemorySize - 2 :
                  Read16(mw, (a + d) % MemorySize) = Read16(m, (a + d) % MemorySize)
<1> DEFINE mw == [m EXCEPT ![a] = v, ![a + 1] = w]
<1>1. PICK n \in Nat : n = MemorySize /\ n >= 2
  BY SizeType
<1>2. Addr = 0 .. n - 1 /\ Top = n - 1 /\ a \in 0 .. n - 2
  BY <1>1 DEF Addr, Top
<1>3. Read16(mw, a) = <<v, w>>
  BY <1>2 DEF Read16, Next16
<1>4. ASSUME NEW x \in Addr, x # a, x # a + 1, Next16(x) \notin {a, a + 1}
      PROVE  Read16(mw, x) = Read16(m, x)
  <2>1. Next16(x) \in Addr
    BY <1>2 DEF Next16
  <2> QED
    BY <1>4, <2>1 DEF Read16
<1>5. ASSUME NEW d \in 2 .. n - 2
      PROVE  Read16(mw, (a + d) % n) = Read16(m, (a + d) % n)
  <2>1. d \in 0 .. n - 1 /\ a \in 0 .. n - 1
    BY <1>1, <1>2
  <2>2. PICK x \in Int : x = (a + d) % n
                        /\ x = IF a + d < n THEN a + d ELSE a + d - n
    <3>1. (a + d) % n = IF a + d < n THEN a + d ELSE a + d - n
      BY <1>1, <2>1, Above
    <3>2. (IF a + d < n THEN a + d ELSE a + d - n) \in Int
      BY <1>1, <2>1
    <3> QED
      BY <3>1, <3>2, Zenon
  <2>3. x \in Addr /\ x # a /\ x # a + 1
    BY <1>2, <2>2
  <2>4. Next16(x) \notin {a, a + 1}
    BY <1>2, <2>2 DEF Next16
  <2> QED
    BY <1>4, <2>2, <2>3, <2>4
<1> HIDE DEF mw
<1>6. \A d \in 2 .. n - 2 : Read16(mw, (a + d) % n) = Read16(m, (a + d) % n)
  BY <1>5
<1> QED
  BY <1>1, <1>3, <1>6 DEF mw

(* The word below the pointer before a PUSH is one further above after it. *)
LEMMA PushedDown ==
  ASSUME NEW s \in Addr, NEW i \in Nat \ {0}, 2 * i + 2 <= MemorySize
  PROVE  (Minus2(s) + 2 * i) % MemorySize = (s + 2 * (i - 1)) % MemorySize
<1>1. PICK n \in Nat : n = MemorySize /\ n >= 2
  BY SizeType
<1>2. s \in 0 .. n - 1 /\ Minus2(s) \in 0 .. n - 1
  BY <1>1, NextAddrType DEF Addr
<1>3. Minus2(s) = IF s >= 2 THEN s - 2 ELSE s + n - 2
  BY <1>1 DEF Minus2
<1>4. 2 * i \in 0 .. n - 1 /\ 2 * (i - 1) \in 0 .. n - 1
  BY <1>1
<1>5. (s + 2 * (i - 1)) % n =
        IF s + 2 * (i - 1) < n THEN s + 2 * (i - 1) ELSE s + 2 * (i - 1) - n
  BY <1>1, <1>2, <1>4, Above
<1>6. (Minus2(s) + 2 * i) % n =
        IF Minus2(s) + 2 * i < n THEN Minus2(s) + 2 * i ELSE Minus2(s) + 2 * i - n
  BY <1>1, <1>2, <1>4, Above
<1> QED
  BY <1>1, <1>2, <1>3, <1>4, <1>5, <1>6

LEMMA TopOfStack ==
  ASSUME NEW m, NEW s \in Addr
  PROVE  StackWord(m, s, 1) = Read16(m, s)
<1>1. PICK n \in Nat : n = MemorySize /\ n >= 2
  BY SizeType
<1>2. s \in 0 .. n - 1 /\ 0 \in 0 .. n - 1 /\ 2 * (1 - 1) = 0
  BY <1>1 DEF Addr
<1>3. (s + 0) % n = s
  <2>1. (s + 0) % n = IF s + 0 < n THEN s + 0 ELSE s + 0 - n
    BY <1>1, <1>2, Above
  <2> QED
    BY <1>2, <2>1
<1> QED
  BY <1>1, <1>2, <1>3 DEF StackWord

(* What is pushed comes back first and nothing below it has changed, for   *)
(* every size of memory and wherever the stack is in it, the wrap of the   *)
(* pointer through 0 included.                                             *)
THEOREM LastInFirstOut == Spec => StackIsLifo
<1> DEFINE Lifo(low, high) ==
      ~write_prot[Page(sp')] /\ sp' # Top /\ 2 * depth' <= MemorySize =>
        /\ Push(low, high) =>
             /\ StackWord(memory', sp', 1) = <<low, high>>
             /\ \A i \in 1 .. depth :
                  StackWord(memory', sp', i + 1) = StackWord(memory, sp, i)
        /\ Xthl(low, high) =>
             /\ StackWord(memory', sp', 1) = <<low, high>>
             /\ \A i \in 2 .. depth :
                  StackWord(memory', sp', i) = StackWord(memory, sp, i)
<1>1. TypeOK => \A low, high \in Contents : Lifo(low, high)
  <2> SUFFICES ASSUME TypeOK, NEW low \in Contents, NEW high \in Contents,
                      ~write_prot[Page(sp')], sp' # Top, 2 * depth' <= MemorySize
               PROVE  /\ Push(low, high) =>
                           /\ StackWord(memory', sp', 1) = <<low, high>>
                           /\ \A i \in 1 .. depth :
                                StackWord(memory', sp', i + 1) = StackWord(memory, sp, i)
                      /\ Xthl(low, high) =>
                           /\ StackWord(memory', sp', 1) = <<low, high>>
                           /\ \A i \in 2 .. depth :
                                StackWord(memory', sp', i) = StackWord(memory, sp, i)
    OBVIOUS
  <2>1. /\ memory \in [Addr -> Values] /\ low \in Values /\ high \in Values
        /\ sp \in Addr /\ depth \in Nat /\ MemorySize \in Nat
    BY MemoryAssumption, SizeType DEF TypeOK
  <2>2. ASSUME NEW a \in Addr, sp' = a, Write16(a, low, high)
        PROVE  /\ StackWord(memory', sp', 1) = <<low, high>>
               /\ \A d \in 2 .. MemorySize - 2 :
                    Read16(memory', (a + d) % MemorySize)
                      = Read16(memory, (a + d) % MemorySize)
    <3>1. memory' = [memory EXCEPT ![a] = low, ![a + 1] = high] /\ a # Top
      BY <2>2 DEF Write16
    <3>2. Read16(memory', a) = <<low, high>>
      BY <2>1, <3>1, WordStored
    <3>3. StackWord(memory', sp', 1) = <<low, high>>
      BY <2>2, <3>2, TopOfStack
    <3>4. \A d \in 2 .. MemorySize - 2 :
            Read16(memory', (a + d) % MemorySize) = Read16(memory, (a + d) % MemorySize)
      BY <2>1, <3>1, WordStored
    <3> QED
      BY <3>3, <3>4
  <2>3. ASSUME Push(low, high), NEW i \in 1 .. depth
        PROVE  StackWord(memory', sp', i + 1) = StackWord(memory, sp, i)
    <3>1. /\ sp' = Minus2(sp) /\ Minus2(sp) \in Addr /\ depth' = depth + 1
          /\ Write16(Minus2(sp), low, high)
      BY <2>1, <2>3, NextAddrType DEF Push
    <3>2. i \in Nat \ {0} /\ 2 * i + 2 <= MemorySize
      BY <2>1, <3>1
    <3>3. 2 * i \in 2 .. MemorySize - 2 /\ 2 * ((i + 1) - 1) = 2 * i
      BY <2>1, <3>2
    <3>4. Read16(memory', (sp' + 2 * i) % MemorySize)
            = Read16(memory, (sp' + 2 * i) % MemorySize)
      BY <2>2, <3>1, <3>3
    <3>5. (sp' + 2 * i) % MemorySize = (sp + 2 * (i - 1)) % MemorySize
      BY <2>1, <3>1, <3>2, PushedDown
    <3> QED
      BY <3>3, <3>4, <3>5 DEF StackWord
  <2>4. ASSUME Xthl(low, high), NEW i \in 2 .. depth
        PROVE  StackWord(memory', sp', i) = StackWord(memory, sp, i)
    <3>1. sp' = sp /\ depth' = depth /\ Write16(sp, low, high)
      BY <2>4 DEF Xthl
    <3>2. 2 * (i - 1) \in 2 .. MemorySize - 2
      BY <2>1, <3>1
    <3>3. Read16(memory', (sp + 2 * (i - 1)) % MemorySize)
            = Read16(memory, (sp + 2 * (i - 1)) % MemorySize)
      BY <2>1, <2>2, <3>1, <3>2
    <3> QED
      BY <3>1, <3>3 DEF StackWord
  <2>5. Push(low, high) => StackWord(memory', sp', 1) = <<low, high>>
    BY <2>1, <2>2, NextAddrType DEF Push
  <2>6. Xthl(low, high) => StackWord(memory', sp', 1) = <<low, high>>
    BY <2>1, <2>2 DEF Xthl
  <2> QED
    BY <2>3, <2>4, <2>5, <2>6
<1> QED
  BY <1>1, TypeCorrect, PTL DEF StackIsLifo
=============================================================================
