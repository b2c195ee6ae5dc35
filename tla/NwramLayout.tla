---------------------------- MODULE NwramLayout -----------------------------
(***************************************************************************)
(* The register values of dsi/nwram.hpp, and what the ARM9 finds at an     *)
(* address of the new shared WRAM once they are in place.  It is three     *)
(* memories: A of four banks of 64KB, B and C of eight of 32KB.            *)
(***************************************************************************)
EXTENDS Integers, Sequences

BASE == \h03000000
SIZE == \hC0000

\* MBK1-5: one byte per bank, the lowest first.  Mutant: banks 4-7 of B go
\* where banks 0-3 are.
Slots0to3 == <<\h80, \h84, \h88, \h8C>>
Slots4to7 == <<\h90, \h94, \h98, \h9C>>
BanksLow  == [A |-> Slots0to3, B |-> Slots0to3 \o Slots0to3, C |-> Slots0to3 \o Slots4to7]
Banks     == [A |-> Slots0to3, B |-> Slots0to3 \o Slots4to7, C |-> Slots0to3 \o Slots4to7]

\* MBK6-8: the window of each, in its units.
Unit   == [A |-> \h10000, B |-> \h8000, C |-> \h8000]
Window == [A |-> [start |-> 0,  end |-> 4],
           B |-> [start |-> 8,  end |-> 16],
           C |-> [start |-> 16, end |-> 24]]

Enabled(byte) == byte \div 128 = 1
Slot(byte)    == (byte \div 4) % 8
Master(byte)  == byte % 4          \* 0 is the ARM9

\* The bytes that answer the ARM9 at an address, each as memory, bank and place
\* in it.  The image size is all slots of a memory, counted from BASE.
BytesAt(address) ==
  UNION {LET place == address - BASE
             unit  == place \div Unit[m]
         IN  {<<m, k, place % Unit[m]>> : k \in {k \in DOMAIN Banks[m] :
                /\ Window[m].start <= unit /\ unit < Window[m].end
                /\ Enabled(Banks[m][k]) /\ Master(Banks[m][k]) = 0
                /\ Slot(Banks[m][k]) = unit % Len(Banks[m])}} : m \in DOMAIN Banks}

\* [lo, hi) in steps of the smallest bank: one byte at each, and none at two.
Tiled(lo, hi) ==
  LET steps == {lo + \h8000 * k : k \in 0 .. (hi - lo) \div \h8000 - 1}
  IN  /\ \A p \in steps : \E byte \in BytesAt(p) : BytesAt(p) = {byte}
      /\ \A p, q \in steps : BytesAt(p) = BytesAt(q) => p = q

==============================================================================
