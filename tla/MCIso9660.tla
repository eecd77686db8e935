----------------------------- MODULE MCIso9660 -----------------------------
(***************************************************************************)
(* Three discs: one where a name is the beginning of a later one, one with *)
(* the two in the other order and one with names that share only their     *)
(* first byte; the machines have up to two CD-ROMs, in any place.  Every   *)
(* directory begins with itself and its parent (names 0 and 1).            *)
(***************************************************************************)
EXTENDS Iso9660

At2(name, lba, size) == [name |-> name, lba |-> lba, size |-> size]
Itself == At2(<<0>>, 19, 1)
Parent == At2(<<1>>, 19, 1)

Terminal == [kind |-> "atapi", pathTable |-> 17, root |-> 19,
             entries |-> <<Itself, Parent, At2(<<65>>, 20, 2), At2(<<65, 66>>, 21, 3)>>]
Reversed == [kind |-> "atapi", pathTable |-> 18, root |-> 19,
             entries |-> <<Itself, Parent, At2(<<65, 66>>, 20, 1), At2(<<65>>, 21, 2)>>]
Others == [kind |-> "atapi", pathTable |-> 17, root |-> 18,
           entries |-> <<Itself, Parent, At2(<<65, 67>>, 20, 0)>>]
Without(kind) == [kind |-> kind, pathTable |-> 16, root |-> 16, entries |-> <<>>]

MCLbas == 16..19
MCDevices == {Terminal, Reversed, Others,
              Without("none"), Without("ata"), Without("mute")}
MCMachines == {m \in [0..3 -> MCDevices] :
                 /\ \A e, f, g \in 0..3 :
                       e < f /\ f < g =>
                         \E h \in {e, f, g} : m[h].kind # "atapi"
                 /\ \A e \in {1, 3} : m[e].kind \in {"none", "atapi"}
                 /\ \A e \in {0, 2} : m[e].kind = "ata" => e = 0}
MCNames == {<<65>>, <<65, 66>>, <<66>>}
============================================================================
