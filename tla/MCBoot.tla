-------------------------------- MODULE MCBoot --------------------------------
(* Tables of eight entries, a directory of sixteen slots.                  *)
EXTENDS Boot

Section(type, addr, data) == [type |-> type, addr |-> addr, data |-> data]
MCPrograms ==
    {[names |-> TRUE, sections |->
        <<Section("NULL", 0, "none"), Section("PROGBITS", 0, "text"), Section("PROGBITS", 1, "data")>>],
     [names |-> TRUE, sections |->
        <<Section("PROGBITS", 1, "first"), Section("PROGBITS", 1, "second"), Section("PROGBITS", 3, "far")>>],
     [names |-> FALSE, sections |-> <<Section("PROGBITS", 0, "text")>>]}
===============================================================================
