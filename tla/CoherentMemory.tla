--------------------------- MODULE CoherentMemory ---------------------------
(***************************************************************************)
(* What the simulated memory system promises the program that drives it:   *)
(* one flat memory.  A read or an instruction fetch delivers the last      *)
(* value written, whichever core wrote it, and a write changes one word    *)
(* of one line.  Caches, states and evictions do not appear here; the      *)
(* module MesiProtocol implements this interface with them.                *)
(***************************************************************************)
EXTENDS Naturals

CONSTANTS
  Lines,   (* line numbers: physical address / LINE_SIZE                   *)
  Words,   (* positions inside a line that one access reads or writes      *)
  Vals,    (* what a word can hold                                         *)
  Zero     (* the content of untouched memory (static uint8_t phys[])      *)

VARIABLES
  memory,  (* memory[l][w]: the value a read of word w of line l delivers  *)
  ret      (* the last access: <<>> or <<line, the data delivered>>        *)

Init ==
  /\ memory = [l \in Lines |-> [w \in Words |-> Zero]]
  /\ ret = <<>>

\* cpu_read and cpu_fetch seen from outside.
Read(l) ==
  /\ ret' = <<l, memory[l]>>
  /\ UNCHANGED memory

\* cpu_write seen from outside: the other words of the line keep their value.
Write(l, w, x) ==
  /\ memory' = [memory EXCEPT ![l][w] = x]
  /\ ret' = <<>>

Next ==
  \E l \in Lines :
    \/ Read(l)
    \/ \E w \in Words, x \in Vals : Write(l, w, x)

Spec == Init /\ [][Next]_<<memory, ret>>
=============================================================================
