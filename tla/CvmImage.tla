------------------------------ MODULE CvmImage ------------------------------
(***************************************************************************)
(* The loaded image (struct cvm_image in src/include/cvm.h) and the        *)
(* instructions it holds: what the loader hands to the interpreter.        *)
(***************************************************************************)
EXTENDS CvmWord, Sequences

(***************************************************************************)
(* Instructions.  One 32-bit word holds op, a, b, c, one byte each; imm16  *)
(* is b and c, imm24 is a, b and c.                                        *)
(***************************************************************************)
CmpOps   == {"CMP_EQ", "CMP_NE", "CMP_LT", "CMP_LE", "CMP_LTU", "CMP_LEU"}
AluOps   == CmpOps \cup {"ADD", "SUB", "MUL", "MULH", "MULHU",
                         "SHL", "SHR", "SAR", "AND", "OR", "XOR"}
DivOps   == {"DIV", "DIVU", "MOD", "MODU", "QDIV1616"}
FloatCmpOps == {"FCMP_EQ", "FCMP_NE", "FCMP_LT", "FCMP_LE"}
FloatOps == FloatCmpOps \cup
            {"FADD", "FSUB", "FMUL", "FDIV", "FSQRT", "FFLOOR", "FCEIL",
             "FTRUNC", "F2I_S", "F2I_U", "I2F_S", "I2F_U"}
LoadOps  == {"LDB", "LDH", "LDW"}
StoreOps == {"STB", "STH", "STW"}
CopyOps  == {"MEMCPY", "MEMMOVE"}
Opcodes  == AluOps \cup DivOps \cup FloatOps \cup LoadOps \cup StoreOps
            \cup CopyOps \cup
            {"HALT", "MOVI", "MOVHI", "MOV", "FNEG", "QDIV6432", "MEMSET",
             "JMP", "BEQ", "BNE", "JMPR", "CALL", "CALLR", "RET", "SYSCALL",
             "SETJMP", "LONGJMP", "CORO_SWAP"}

(* "BAD" stands for the byte values that are no opcode.                    *)
Instruction == [op : Opcodes \cup {"BAD"}, a : Byte, b : Byte, c : Byte]

(***************************************************************************)
(* A loaded image, with what cvm_load_ex guarantees of it and cvm_exec_at  *)
(* relies on: the contract between CvmLoader and CvmExec.                  *)
(* An import slot holds NULL ("unlinked"), one of the built-in handlers    *)
(* or a handler the host supplied.                                         *)
(***************************************************************************)
ImportKinds == {"unlinked", "heap_start", "heap_size", "rom_base",
                "rom_size", "get_region", "host", "host_read", "host_write"}

IsCart(c) ==
  /\ c.code \in Seq(Instruction) /\ Len(c.code) \in 1 .. WordMod \div 4
  /\ c.funcs \in Seq(Nat) /\ \A k \in DOMAIN c.funcs : c.funcs[k] < Len(c.code)
  /\ c.imports \in Seq(ImportKinds)
  /\ c.entry \in Nat /\ c.entry < Len(c.code)
  /\ {c.heapSize, c.reserve, c.romOffset, c.romSize, c.stackSize, c.memSize}
       \subseteq Word
  /\ c.reserve <= c.heapSize
  /\ c.regions \subseteq [name : Seq(Byte \ {0}), offset : Word]
  /\ \A r \in c.regions : Len(r.name) \in 1 .. 15
  /\ \A r, q \in c.regions : r.name = q.name => r = q
  /\ c.memSize = c.heapSize + c.stackSize
  /\ c.stackSize = 0 \/ c.stackSize >= 4
  /\ c.data \in [0 .. c.memSize - 1 -> Byte]
=============================================================================
