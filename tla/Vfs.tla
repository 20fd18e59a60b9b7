-------------------------------- MODULE Vfs --------------------------------
(***************************************************************************)
(* Opening and listing files: kernel/kernel/fs/vfs.c over the nodes of     *)
(* initrd.c and devfs.c, as kernel_main sets them up and the shell's `cat` *)
(* and `ls` use them.  The nodes come from module Initrd, which reads the  *)
(* archive first.                                                          *)
(*                                                                         *)
(* The archive is one flat list of nodes: the readdir of each of its       *)
(* directories enumerates that whole list.  vfs_search_node copes by       *)
(* handing a directory the index it has reached.  The /dev directory is    *)
(* the last node of the list and has a list of its own, with a flag shared *)
(* by the two readdir functions that tells it to start over.  Indices      *)
(* count from 0 as in the code.                                            *)
(***************************************************************************)
EXTENDS Integers, Sequences, FiniteSetsExt, SequencesExt

CONSTANTS BLOCK,      \* 512, the block of the tar format
          Archives,   \* lists of [name, type, size] the initrd may hold
          Devices,    \* names of the devices, in the order of registration
          Paths,      \* names callers open
          DevName,    \* "dev/", the name of the devfs node
          Directories,  \* directories the shell may be in
          Inside      \* Inside[d]: the names that start with d

Null == [name |-> "none", type |-> "none"]

(* tar writes sizes as octal digits; register_devices_necessary registers  *)
(* several devices under different names; "none" stands for no name.       *)
ASSUME VfsAssumption ==
  /\ BLOCK \in Nat \ {0}
  /\ Devices \in Seq(STRING \ {Null.name}) /\ Devices # <<>>
  /\ \A i, j \in DOMAIN Devices : Devices[i] = Devices[j] => i = j
  /\ Archives \subseteq Seq([name : STRING \ {Null.name, DevName},
                            type : {"file", "dir"}, size : Seq(0 .. 7)])
  /\ DevName # Null.name
ASSUME ShellAssumption == Inside \in [Directories -> SUBSET STRING]

VARIABLES archive, pc, address, headers, size, nfiles   \* of module Initrd
VARIABLES root_nodes,            \* list of nodes, devfs last once it is set
          devices,               \* device_list
          initrd_readdir_call,   \* the flag
          stack,                 \* activations of vfs_search_node, innermost last
          call,                  \* "idle", "open", "ls"
          path,                  \* what is opened, or the directory listed
          result,                \* the last answer of vfs_open
          directory,             \* where the shell is: "none" for the root
          temp,                  \* what ls found its directory under, or "none"
          listed                 \* the lines printed by the ls that runs
tarVars == <<archive, pc, address, headers, size, nfiles>>
shellVars == <<directory, temp, listed>>
fsVars == <<devices, initrd_readdir_call, stack, call, path, result, shellVars>>
vars == <<tarVars, root_nodes, fsVars>>

Tar == INSTANCE Initrd WITH nodes <- root_nodes

nroot_nodes == Len(root_nodes)
devfsSet == \E i \in DOMAIN root_nodes : root_nodes[i].type = "devfs"
booted == devfsSet /\ Len(devices) = Len(Devices)

(* The flag is set before anything here reads it: kernel_main lists the    *)
(* initrd as soon as it has been read.                                     *)
Init ==
  /\ Tar!Init
  /\ devices = <<>>
  /\ initrd_readdir_call = TRUE
  /\ stack = <<>> /\ call = "idle" /\ path = DevName
  /\ result = Null /\ listed = <<>> /\ directory = "none" /\ temp = "none"

-----------------------------------------------------------------------------
(* A readdir gives the child and the flag after the call.                  *)
initrd_readdir(index) ==
  [child |-> IF index >= nroot_nodes THEN Null ELSE root_nodes[index + 1],
   flag  |-> TRUE]

(* Mutant: the enumeration starts one device too far.                      *)
devfs_readdir_one_further(index) ==
  IF index + 1 < Len(devices)
  THEN [child |-> devices[index + 2], flag |-> FALSE]
  ELSE [child |-> Null, flag |-> FALSE]

devfs_readdir(index) ==
  IF index < Len(devices)
  THEN [child |-> devices[index + 1], flag |-> FALSE]
  ELSE IF initrd_readdir_call
       THEN [child |-> devices[1], flag |-> FALSE]
       ELSE [child |-> Null, flag |-> FALSE]

(* readdir_fs: a node without a readdir callback, such as a device, has no *)
(* children.                                                               *)
readdir_fs(fs, index) ==
  CASE fs = "initrd" -> initrd_readdir(index)
    [] fs = "devfs"  -> devfs_readdir(index)
    [] OTHER         -> [child |-> Null, flag |-> initrd_readdir_call]

(* What enumerates the children of a node.                                 *)
callback(node) ==
  CASE node.type = "devfs" -> "devfs"
    [] node.type = "device_directory" -> "none"
    [] OTHER -> "initrd"

isDirectory(node) == node.type \in {"dir", "devfs", "device_directory"}

-----------------------------------------------------------------------------
(* set_dev_node_initrd                                                     *)
SetDevNode ==
  /\ pc = "ready" /\ ~devfsSet
  /\ root_nodes' = Append(root_nodes, [name |-> DevName, type |-> "devfs",
                                       inode |-> 0, length |-> 0])
  /\ UNCHANGED <<tarVars, fsVars>>

(* devfs_register_device: the first device comes from create_device, which *)
(* leaves device_type as kmalloc found it; the others have type 0.  A name *)
(* that is taken would be refused; register_devices_necessary has none.    *)
RegisterDevice ==
  /\ devfsSet /\ ~booted
  /\ \E type \in IF devices = <<>> THEN {"file", "device_directory", "device"}
                 ELSE {"device"} :
       devices' = Append(devices, [name |-> Devices[Len(devices) + 1], type |-> type])
  /\ UNCHANGED <<tarVars, root_nodes, initrd_readdir_call, stack, call, path, result, shellVars>>

(* vfs_open, as `cat` calls it.                                            *)
Open(p) ==
  /\ booted /\ call = "idle"
  /\ call' = "open" /\ path' = p
  /\ stack' = <<[fs |-> "initrd", index |-> 0]>>
  /\ UNCHANGED <<tarVars, root_nodes, devices, initrd_readdir_call, result, shellVars>>

top == stack[Len(stack)]
read == readdir_fs(top.fs, top.index)

advanced == [stack EXCEPT ![Len(stack)].index = @ + 1]

(* Mutant: the activation that met the directory does not get past it.     *)
enter_not_advanced(node) ==
  Append(stack, [fs |-> callback(node), index |-> top.index + 1])

(* Mutant: a directory takes the place of the activation that met it.      *)
enter_two_further(node) ==
  [stack EXCEPT ![Len(stack)] = [fs |-> callback(node), index |-> top.index + 2]]

(* A directory is searched in an activation of its own, with the index     *)
(* after it; the one that met it continues at the same index.              *)
enter(node) == Append(advanced, [fs |-> callback(node), index |-> top.index + 1])

(* One round of the loop of vfs_search_node.  A match ends every           *)
(* activation; vfs_open refuses what is not a file.                        *)
SearchStep ==
  /\ call = "open" /\ stack # <<>>
  /\ initrd_readdir_call' = read.flag
  /\ stack' = IF read.child = Null THEN Front(stack)
              ELSE IF read.child.name = path THEN <<>>
              ELSE IF isDirectory(read.child) THEN enter(read.child)
              ELSE advanced
  /\ result' = IF read.child.name = path /\ read.child.type = "file"
               THEN read.child ELSE Null
  /\ call' = IF stack' = <<>> THEN "idle" ELSE "open"
  /\ UNCHANGED <<tarVars, root_nodes, devices, path, shellVars>>

(* `cd`.  `cd ..` builds the name in a buffer it never filled: the shell   *)
(* may then be anywhere.                                                   *)
Cd(d) ==
  /\ booted /\ call = "idle"
  /\ directory' = d
  /\ UNCHANGED <<tarVars, root_nodes, devices, initrd_readdir_call, stack, call, path, result,
                 temp, listed>>

(* `ls`: the RAM disk, or /dev.  "dev/" is found as it is and leaves temp  *)
(* empty; "dev" is found as "dev/".                                        *)
List(fs, t) ==
  /\ booted /\ call = "idle"
  /\ call' = "ls" /\ stack' = <<[fs |-> fs, index |-> 0]>> /\ listed' = <<>>
  /\ temp' = t
  /\ path' = DevName
  /\ UNCHANGED <<tarVars, root_nodes, devices, initrd_readdir_call, result, directory>>

(* In a directory only the names that start with it are printed.           *)
prints(name) ==
  \/ directory # "none" /\ name \in Inside[directory]
  \/ directory = "none"
  \/ temp = DevName

(* A round of its loop over readdir_fs; the last one leaves nothing.       *)
ListStep ==
  /\ call = "ls"
  /\ initrd_readdir_call' = read.flag
  /\ IF read.child = Null
     THEN call' = "idle" /\ stack' = <<>> /\ listed' = <<>> /\ temp' = "none"
     ELSE /\ listed' = IF prints(read.child.name)
                       THEN Append(listed, [index |-> top.index, name |-> read.child.name])
                       ELSE listed
          /\ stack' = advanced
          /\ UNCHANGED <<call, temp>>
  /\ UNCHANGED <<tarVars, root_nodes, devices, path, result, directory>>

Next ==
  \/ Tar!Next /\ UNCHANGED fsVars
  \/ SetDevNode
  \/ RegisterDevice
  \/ \E p \in Paths : Open(p)
  \/ \E d \in Directories \cup {"none"} : Cd(d)
  \/ List("initrd", "none") \/ List("devfs", "none") \/ List("devfs", DevName)
  \/ SearchStep
  \/ ListStep

Spec == Init /\ [][Next]_vars /\ WF_vars(SearchStep) /\ WF_vars(ListStep)

-----------------------------------------------------------------------------
NodeTypes == {"file", "dir", "devfs", "device", "device_directory"}

(* Types of the nodes, the flag, the call and its activations; the array   *)
(* of headers of the archive is never written past its end.                *)
TypeOK ==
  /\ Tar!TypeOK
  /\ \A i \in DOMAIN root_nodes : root_nodes[i].type \in NodeTypes
  /\ \A i \in DOMAIN devices : devices[i].type \in NodeTypes
  /\ initrd_readdir_call \in BOOLEAN
  /\ call \in {"idle", "open", "ls"}
  /\ path \in Paths \cup {DevName}
  /\ directory \in Directories \cup {"none"} /\ temp \in {"none", DevName}
  /\ \A i \in DOMAIN stack : stack[i].index \in Nat

named(p) == {i \in DOMAIN root_nodes : root_nodes[i].name = p}
deviceNames == {devices[i].name : i \in DOMAIN devices}

(* The two walks over the archive agree with each other and with it, and   *)
(* the array of headers, which grows while it is filled, is large enough.  *)
WalksAgree == TypeOK /\ Tar!WalksAgree

(* vfs_open gives the archive's file of that name, however many            *)
(* directories come before it and whatever was enumerated earlier, refuses *)
(* a directory, and gives nothing for a name nobody has.                   *)
OpenFindsFile ==
  [][call = "open" /\ call' = "idle" /\ (named(path) # {} \/ path \notin deviceNames)
     => result' = IF named(path) = {} THEN Null
                  ELSE LET node == root_nodes[Min(named(path))]
                       IN  IF node.type = "file" THEN node ELSE Null]_vars

(* What `cat` reads is the content of the file it names and nothing else,  *)
(* whatever the sizes of the files before it: no header, no padding, and   *)
(* no other file's bytes.                                                  *)
CatReadsContent ==
  call = "idle" /\ named(result.name) # {}
  => Tar!initrd_read(result) = Tar!contentOf(Min(named(result.name)))

(* A listing that ends has a line for every child once, with its index and *)
(* in order, although the two readdir functions share a flag that makes    *)
(* /dev start over: in a directory for those whose name starts with it, in *)
(* the root and for `ls dev` for all.                                      *)
linesFor(nodes) ==
  {[index |-> i - 1, name |-> nodes[i].name] :
     i \in {j \in DOMAIN nodes : directory = "none" \/ temp = DevName
                                \/ nodes[j].name \in Inside[directory]}}
inOrder(lines) ==
  \A i, j \in DOMAIN lines : i < j => lines[i].index < lines[j].index
ListingExact ==
  [][call = "ls" /\ call' = "idle"
     => /\ {listed[i] : i \in DOMAIN listed}
           = linesFor(IF stack[1].fs = "devfs" THEN devices ELSE root_nodes)
        /\ inOrder(listed)]_vars

(* Every vfs_open and every listing comes to an end: enumerations that     *)
(* start over do not go on for ever.                                       *)
CallsEnd == call # "idle" ~> call = "idle"

=============================================================================
