------------------------------- MODULE MCVfs -------------------------------
(* Every archive of up to three entries with three names, repeated names   *)
(* included: with the /dev node the list is shorter than, as long as or    *)
(* longer than the list of devices.  With blocks of four bytes the files   *)
(* are empty, shorter than a block, one block, just over a block, and of   *)
(* two blocks, where the size field has two digits.                        *)
EXTENDS Vfs

MCEntries == {[name |-> "d/a", type |-> "file", size |-> <<0, 4>>],
              [name |-> "d/a", type |-> "file", size |-> <<1, 0>>],
              [name |-> "b", type |-> "file", size |-> <<0, 5>>],
              [name |-> "b", type |-> "dir", size |-> <<0, 0>>],
              [name |-> "stdin", type |-> "file", size |-> <<0, 0>>],
              [name |-> "stdin", type |-> "file", size |-> <<0, 1>>],
              [name |-> "stdin", type |-> "dir", size |-> <<0, 0>>]}
MCArchives == UNION {[1 .. n -> MCEntries] : n \in 0 .. 3}
MCDevices == <<"stdin", "stdout", "tty">>
MCPaths == {"d/a", "b", "stdin", "tty", "missing"}

(* A directory of the archive; no device is in it.                         *)
MCDirectories == {"d/"}
MCInside == [d \in MCDirectories |-> {"d/a"}]
=============================================================================
