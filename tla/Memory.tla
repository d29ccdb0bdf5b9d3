------------------------------- MODULE Memory -------------------------------
(***************************************************************************)
(* The guest's memory: 64K of RAM of which ROMs, loaded by rom[] lines of  *)
(* the configuration, are write-protected a page at a time until the guest *)
(* first uses port FF (memory.c, memory.h), and the instructions that      *)
(* store and load bytes, words and the words of the stack (intel8080.c).   *)
(*                                                                         *)
(* The protection of a word is decided by the page of its first byte, and  *)
(* its second byte is memory[address + 1] even where address is the last   *)
(* one.  That write falls outside the array: depending on where the linker *)
(* puts _write_prot it changes the protection of page 0 or something that  *)
(* is not part of this module.                                             *)
(*                                                                         *)
(* Registers that hold addresses and data are inputs; only sp is state.    *)
(***************************************************************************)
EXTENDS Integers

CONSTANTS
    PageSize,       \* bytes to a page; 0x100
    PageCount,      \* pages; 0x100
    Values,         \* contents of a byte
    Zero,           \* the byte 0
    Contents,       \* bytes the guest stores
    RomByte,        \* what the bytes of a ROM hold
    Roms,           \* the ROMs a configuration may load, [offset, size]
    NoRom,          \* no ROM was loaded at an address
    MaxRoms,        \* bound: rom[] lines in a configuration
    MaxDepth        \* bound: words on the stack since sp was set

MemorySize == PageSize * PageCount
Addr == 0 .. MemorySize - 1
Pages == 0 .. PageCount - 1
Top == MemorySize - 1

ASSUME MemoryAssumption ==
    /\ PageSize \in Nat /\ PageSize >= 2 /\ PageCount \in Nat \ {0}
    /\ Zero \in Values /\ RomByte \in Values /\ Contents \subseteq Values
    /\ NoRom \notin Values
    /\ Roms \subseteq [offset : Addr, size : Nat]
    /\ \A rom \in Roms : rom.offset + rom.size <= MemorySize
    /\ MaxRoms \in Nat /\ MaxDepth \in Nat

VARIABLES
    memory,         \* memory[]
    write_prot,     \* _write_prot[]
    sp,             \* registers.sp
    loading,        \* config_read has not returned
    image,          \* history: what ROMs loaded since the last reset hold
    lines,          \* history: rom[] lines so far
    whole,          \* history: every ROM began and ended with a page
    overran,        \* history: a word was stored at the last address
    depth           \* history: words pushed and not popped since sp was set

history == <<image, lines, whole, overran, depth>>
vars == <<memory, write_prot, sp, loading, history>>

TypeOK ==
    /\ memory \in [Addr -> Values]
    /\ write_prot \in [Pages -> BOOLEAN]
    /\ sp \in Addr
    /\ loading \in BOOLEAN
    /\ image \in [Addr -> Values \cup {NoRom}]
    /\ lines \in 0 .. MaxRoms
    /\ whole \in BOOLEAN
    /\ overran \in BOOLEAN
    /\ depth \in 0 .. MaxDepth

Page(a) == a \div PageSize
Next16(a) == IF a = Top THEN 0 ELSE a + 1
Plus2(a)  == Next16(Next16(a))
Minus2(a) == IF a >= 2 THEN a - 2 ELSE a + MemorySize - 2

-----------------------------------------------------------------------------
(* config_read before it looks at the file.                                *)
Init ==
    /\ memory = [a \in Addr |-> Zero]
    /\ write_prot = [p \in Pages |-> FALSE]
    /\ sp = 0
    /\ loading = TRUE
    /\ image = [a \in Addr |-> NoRom]
    /\ lines = 0
    /\ whole = TRUE
    /\ overran = FALSE
    /\ depth = 0

WholePages(rom) == rom.offset % PageSize = 0 /\ rom.size % PageSize = 0

Within(a, rom) == rom.offset <= a /\ a < rom.offset + rom.size

ProtectedOneMore(rom) ==                                        \* mutant
    {p \in Pages : /\ p >= Page(rom.offset)
                   /\ p <= Page(rom.offset) + rom.size \div PageSize}

(* memory_load_rom protects size / 0x100 pages from the one the offset is  *)
(* in: none of the rest of a ROM that does not fill its last page.         *)
ProtectedPages(rom) ==
    {p \in Pages : /\ p >= Page(rom.offset)
                   /\ p < Page(rom.offset) + rom.size \div PageSize}

LoadRom(rom) ==
    /\ loading
    /\ lines < MaxRoms /\ lines' = lines + 1
    /\ whole' = (whole /\ WholePages(rom))
    /\ memory' = [a \in Addr |-> IF Within(a, rom) THEN RomByte ELSE memory[a]]
    /\ image' = [a \in Addr |-> IF Within(a, rom) THEN RomByte ELSE image[a]]
    /\ write_prot' = [p \in Pages |-> p \in ProtectedPages(rom) \/ write_prot[p]]
    /\ UNCHANGED <<sp, loading, overran, depth>>

Start ==
    /\ loading
    /\ loading' = FALSE
    /\ UNCHANGED <<memory, write_prot, sp, history>>

Reset ==
    /\ ~loading
    /\ memory' = [a \in Addr |-> Zero]
    /\ write_prot' = [p \in Pages |-> FALSE]
    /\ sp' = 0
    /\ loading' = TRUE
    /\ image' = [a \in Addr |-> NoRom]
    /\ lines' = 0
    /\ whole' = TRUE
    /\ overran' = FALSE
    /\ depth' = 0

(* An IN or OUT on port FF: memory_disable_rom.                            *)
DisableRom ==
    /\ ~loading
    /\ write_prot' = [p \in Pages |-> FALSE]
    /\ image' = [a \in Addr |-> NoRom]
    /\ UNCHANGED <<memory, sp, loading, lines, whole, overran, depth>>

-----------------------------------------------------------------------------
Write8Unchecked(a, v) ==                                        \* mutant
    /\ memory' = [memory EXCEPT ![a] = v]
    /\ UNCHANGED <<write_prot, image, lines, whole, overran>>

(* write8: STA, STAX, stores to M and the front panel's DEPOSIT.           *)
Write8(a, v) ==
    /\ memory' = IF write_prot[Page(a)] THEN memory ELSE [memory EXCEPT ![a] = v]
    /\ UNCHANGED <<write_prot, image, lines, whole, overran>>

(* The byte after the last one: page 0's protection, or something else.    *)
PastTheEnd(v) ==
    /\ write_prot' \in {write_prot, [write_prot EXCEPT ![0] = (v # Zero)]}
    /\ overran' = TRUE

(* write16: SHLD, XTHL, PUSH, CALL and RST.                                *)
Write16Swapped(a, low, high) ==                                 \* mutant
    /\ IF write_prot[Page(a)] \/ a = Top
       THEN UNCHANGED memory
       ELSE memory' = [memory EXCEPT ![a] = high, ![a + 1] = low]
    /\ UNCHANGED <<write_prot, overran, image, lines, whole>>

Write16(a, low, high) ==
    /\ \/ /\ write_prot[Page(a)]
          /\ UNCHANGED <<memory, write_prot, overran>>
       \/ /\ ~write_prot[Page(a)]
          /\ a # Top
          /\ memory' = [memory EXCEPT ![a] = low, ![a + 1] = high]
          /\ UNCHANGED <<write_prot, overran>>
       \/ /\ ~write_prot[Page(a)]
          /\ a = Top
          /\ memory' = [memory EXCEPT ![a] = low]
          /\ PastTheEnd(high)
    /\ UNCHANGED <<image, lines, whole>>

(* read16: the second byte is that of the next address, 0 after the last.  *)
Read16(m, a) == <<m[a], m[Next16(a)]>>

-----------------------------------------------------------------------------
Store(a, v) ==
    /\ ~loading
    /\ Write8(a, v)
    /\ UNCHANGED <<sp, loading>>
    /\ depth' = 0                   \* it may have hit the stack

StoreWord(a, low, high) ==
    /\ ~loading
    /\ Write16(a, low, high)
    /\ UNCHANGED <<sp, loading>>
    /\ depth' = 0

Push(low, high) ==
    /\ ~loading
    /\ depth < MaxDepth
    /\ sp' = Minus2(sp)
    /\ Write16(Minus2(sp), low, high)
    /\ depth' = depth + 1
    /\ UNCHANGED loading

Pop ==
    /\ ~loading
    /\ sp' = Plus2(sp)
    /\ depth' = IF depth > 0 THEN depth - 1 ELSE 0
    /\ UNCHANGED <<memory, write_prot, loading, image, lines, whole, overran>>

(* XTHL exchanges the word on top of the stack.                            *)
Xthl(low, high) ==
    /\ ~loading
    /\ Write16(sp, low, high)
    /\ UNCHANGED <<sp, loading, depth>>

(* LXI SP and SPHL.                                                        *)
SetSp(a) ==
    /\ ~loading
    /\ sp' = a
    /\ depth' = 0
    /\ UNCHANGED <<memory, write_prot, loading, image, lines, whole, overran>>

Next ==
    \/ \E rom \in Roms : LoadRom(rom)
    \/ Start \/ Reset \/ DisableRom \/ Pop
    \/ \E a \in Addr, v \in Contents : Store(a, v)
    \/ \E a \in Addr, v, w \in Contents : StoreWord(a, v, w)
    \/ \E v, w \in Contents : Push(v, w) \/ Xthl(v, w)
    \/ \E a \in Addr : SetSp(a)

Spec == Init /\ [][Next]_vars

-----------------------------------------------------------------------------
(* A byte of a protected page is out of the guest's reach, unless it is    *)
(* the first of its page and the page before is open to a word.            *)
Guarded(a) ==
    /\ write_prot[Page(a)]
    /\ a > 0 /\ Page(a - 1) # Page(a) => write_prot[Page(a - 1)]

(* Whatever the guest and the front panel store, wherever the stack        *)
(* pointer is, a guarded byte of a ROM is what was loaded there.           *)
RomIntact ==
    \A a \in Addr :
        ~overran /\ image[a] # NoRom /\ Guarded(a) => memory[a] = image[a]

(* When every ROM begins and ends with a page, the protected pages are the *)
(* ROMs, no more and no less.                                              *)
ProtectionIsRoms ==
    whole /\ ~overran =>
        \A a \in Addr : write_prot[Page(a)] <=> image[a] # NoRom

(* The i-th word of a stack whose pointer is s, the newest being the first.*)
StackWord(m, s, i) == Read16(m, (s + 2 * (i - 1)) % MemorySize)

(* What a PUSH, CALL or RST stores is the newest word of the stack and the *)
(* words below it stay what they were, and XTHL only changes the newest,   *)
(* as long as the stack does not run into itself, a ROM or, at an odd      *)
(* address, the end of memory.                                             *)
StackIsLifo ==
    [][\A low, high \in Contents :
         ~write_prot[Page(sp')] /\ sp' # Top /\ 2 * depth' <= MemorySize =>
           /\ Push(low, high) =>
                /\ StackWord(memory', sp', 1) = <<low, high>>
                /\ \A i \in 1 .. depth :
                     StackWord(memory', sp', i + 1) = StackWord(memory, sp, i)
           /\ Xthl(low, high) =>
                /\ StackWord(memory', sp', 1) = <<low, high>>
                /\ \A i \in 2 .. depth :
                     StackWord(memory', sp', i) = StackWord(memory, sp, i)
      ]_vars
=============================================================================
