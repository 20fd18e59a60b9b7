----------------------------- MODULE FileCalls -----------------------------
(***************************************************************************)
(* The mount tree of kernel/fs/vfs.c and its paths, the calls on a node,   *)
(* the nodes of pipes (kernel/fs/pipe.c) and the shell's `cd`.             *)
(*                                                                         *)
(* A path is a sequence of codes, '/' among them.  The tree is a function  *)
(* from the folder names that lead to a node to the file system mounted    *)
(* there, or NoFs; the root is <<>>.  A callback is the name of a          *)
(* function, None for 0; Wild stands for a pointer nobody set.             *)
(***************************************************************************)
EXTENDS Integers, Text

NoFs == "none"
Slash == 47

IsPrefixOf(s, t) == Len(s) <= Len(t) /\ SubSeq(t, 1, Len(s)) = s

-----------------------------------------------------------------------------
(* The loop of parse_path: a slash ends a name, except the first slash,    *)
(* which drops what is before it; the name after the last slash is never   *)
(* appended.                                                               *)
parse_path(path) ==
  FoldLeft(LAMBDA p, c :
             IF c # Slash THEN [p EXCEPT !.temp = Append(@, c)]
             ELSE [folders |-> IF p.first THEN p.folders ELSE Append(p.folders, p.temp),
                   temp |-> <<>>, first |-> FALSE],
           [folders |-> <<>>, temp |-> <<>>, first |-> TRUE], path).folders

vfs_tree_init == [n \in {<<>>} |-> NoFs]

vfs_tree_find_child_with_name(tree, node, name) == Append(node, name) \in DOMAIN tree


(* vfs_mount's walk: a child that is missing is created.                   *)
Descend(tree, folders) ==
  FoldLeft(LAMBDA t, k :
             IF vfs_tree_find_child_with_name(t, SubSeq(folders, 1, k - 1), folders[k]) THEN t
             ELSE [n \in DOMAIN t \cup {SubSeq(folders, 1, k)} |->
                     IF n \in DOMAIN t THEN t[n] ELSE NoFs],
           tree, [k \in 1 .. Len(folders) |-> k])

(* Every path that begins with a slash is the root.                        *)
vfs_mount(tree, path, fs) ==
  IF At(path, 0) = Slash THEN [tree EXCEPT ![<<>>] = fs]
  ELSE [Descend(tree, parse_path(path)) EXCEPT ![parse_path(path)] = fs]

(* The first mount point on the way down takes the search, with the names  *)
(* from there on run together; the last node is not looked at.             *)
vfs_tree_find_local_root(tree, path) ==
  LET folders == parse_path(path)
      stops == {i \in 1 .. Len(folders) :
                  \/ SubSeq(folders, 1, i - 1) \notin DOMAIN tree
                  \/ tree[SubSeq(folders, 1, i - 1)] # NoFs}
      at == SubSeq(folders, 1, Min(stops) - 1)
  IN  IF At(path, 0) = Slash THEN [fs |-> tree[<<>>], path_to_use |-> <<Slash>>]
      ELSE IF stops = {} \/ at \notin DOMAIN tree THEN [fs |-> NoFs, path_to_use |-> <<>>]
      ELSE [fs |-> tree[at],
            path_to_use |-> FlattenSeq(SubSeq(folders, Min(stops), Len(folders)))]

vfs_get_depth(path) == Cardinality({i \in 1 .. Len(path) : path[i] = Slash})

-----------------------------------------------------------------------------
(* What the mounts are for.  `mounts` is the sequence of <<path, fs>>.     *)

(* The folders a path names, by the places of its slashes: the text from   *)
(* one slash to the next.  What is before the first slash is none of them, *)
(* nor is what follows the last one.                                       *)
Slashes(path) == SetToSortSeq({i \in DOMAIN path : path[i] = Slash}, <)
FolderNames(path) ==
  LET at == Slashes(path)
  IN  [k \in 1 .. Len(at) - 1 |-> SubSeq(path, at[k] + 1, at[k + 1] - 1)]
Absolute(path) == path # <<>> /\ path[1] = Slash
Folder(path) == IF Absolute(path) THEN <<>> ELSE FolderNames(path)

mountsAt(mounts, n) == {k \in DOMAIN mounts : Folder(mounts[k][1]) = n}
mountedAt(mounts, n) ==
  IF mountsAt(mounts, n) = {} THEN NoFs ELSE mounts[Max(mountsAt(mounts, n))][2]

(* A node holds the file system mounted last by a path that leads to it,   *)
(* and there is a node for every folder on the way and no other.           *)
TreeHolds(tree, mounts) ==
  /\ DOMAIN tree = {<<>>} \cup UNION {Prefixes(Folder(m[1])) : m \in Range(mounts)}
  /\ \A n \in DOMAIN tree : tree[n] = mountedAt(mounts, n)
  /\ \A m \in Range(mounts) : Len(FolderNames(m[1])) = vfs_get_depth(m[1]) - 1

(* A lookup finds a file system exactly when one is mounted on the way to  *)
(* the last folder, and then one of those, with the names from there on.   *)
LookupHolds(mounts, path, found) ==
  LET names == FolderNames(path)
      way == IF Absolute(path) THEN {0} ELSE 0 .. Len(names) - 1
      mounted == {i \in way : mountedAt(mounts, SubSeq(names, 1, i)) # NoFs}
  IN  IF mounted = {} THEN found.fs = NoFs
      ELSE \E i \in mounted :
             /\ found.fs = mountedAt(mounts, SubSeq(names, 1, i))
             /\ Absolute(path) \/ found.path_to_use
                                   = FlattenSeq(SubSeq(names, i + 1, Len(names)))

-----------------------------------------------------------------------------
(* The calls on a node.                                                    *)

None == "none"
Wild == "wild"
NoNode == [null |-> TRUE]
FS_DIRECTORY == 2

(* What a call through a callback does: the function that runs, and the    *)
(* value that is returned.                                                 *)
Runs(f) == [runs |-> f, ret |-> "of callback"]
Gives(v) == [runs |-> None, ret |-> v]

get_file_size_fs(node) ==
  IF node.null THEN Gives(-1)
  ELSE IF node.get_file_size # None THEN Runs(node.get_file_size) ELSE Gives(-1)

read_fs(node) ==
  IF node.null THEN Gives(-1) ELSE IF node.read # None THEN Runs(node.read) ELSE Gives(0)

write_fs(node) == IF node.write # None THEN Runs(node.write) ELSE Gives(0)

finddir_fs(node) ==
  IF node.flags % 8 = FS_DIRECTORY /\ node.finddir # None THEN Runs(node.finddir) ELSE Gives(0)

(* The node afterwards: without a callback the mode is kept in it.         *)
open_fs(node, flags) == IF node.open # None THEN node ELSE [node EXCEPT !.mode = flags]
close_fs(node) ==
  IF node.null \/ node.close # None THEN node ELSE [node EXCEPT !.mode = 0]

(* A pipe's node: no callback, and what make_pipe does not set.            *)
make_pipe == [null |-> FALSE, read |-> None, write |-> None, open |-> None, close |-> None,
              finddir |-> None, get_file_size |-> Wild, flags |-> 0, mode |-> 0]

(* A node without callbacks can be opened, read, written and closed: it is *)
(* empty, takes nothing, and has no mode once it is closed.  A pipe is     *)
(* such a node; its size is not asked, since nobody set that callback.     *)
CallsSafe(node, flags, open) ==
  /\ open.mode = (IF node.open = None THEN flags ELSE node.mode)
  /\ close_fs(open).mode = (IF node.close = None THEN 0 ELSE open.mode)
  /\ finddir_fs(open).runs # None => node.flags % 8 = FS_DIRECTORY
  /\ read_fs(NoNode).ret = -1 /\ get_file_size_fs(NoNode).ret = -1 /\ close_fs(NoNode) = NoNode
  /\ LET pipe == close_fs(open_fs(make_pipe, flags))
     IN  /\ {read_fs(pipe), write_fs(pipe), finddir_fs(pipe)} = {Gives(0)}
         /\ pipe.mode = 0

-----------------------------------------------------------------------------
(* cd of launch_command_framebuffer.  `directory` and the uninitialised    *)
(* `temp` are arrays, functions from 0 .. N - 1 to codes that end in a 0.  *)

TextOf(array) ==
  LET end == CHOOSE i \in DOMAIN array : array[i] = 0 /\ \A j \in 0 .. i - 1 : array[j] # 0
  IN  [i \in 1 .. end |-> array[i - 1]]

(* strcpy: what is behind the terminator stays.                            *)
Copied(array, text) ==
  [i \in DOMAIN array |-> IF i < Len(text) THEN text[i + 1] ELSE IF i = Len(text) THEN 0 ELSE array[i]]

cd_into(directory, dir) == Copied(directory, TextOf(directory) \o dir \o <<47>>)

(* cd ..: the search for a slash starts at the length of `temp`, not of    *)
(* `directory`; the byte at the slash stays what it was in `temp`.         *)
cd_up(directory, temp) ==
  LET hits == {i \in 0 .. Len(TextOf(temp)) - 2 : directory[i] = 47}
      pos == IF hits = {} THEN 0 ELSE CHOOSE i \in hits : \A j \in hits : j <= i
      i == IF hits = {} THEN (IF TextOf(temp) = <<>> THEN -2 ELSE -1) ELSE pos
  IN  Copied(directory,
             TextOf([k \in DOMAIN temp |-> IF k < pos THEN directory[k]
                                           ELSE IF k = i + 1 THEN 0 ELSE temp[k]]))

(* Whatever the stack held, `cd ..` never leaves more than a beginning of  *)
(* the old directory and one stray character, and it only shortens it when *)
(* what it found on the stack was no longer than the directory.            *)
UpKeepsPrefix(directory, temp, array) ==
  LET new == TextOf(array)
      n == Len(new)
  IN  /\ \A k \in 1 .. n - 1 : new[k] = directory[k - 1]
      /\ Len(TextOf(temp)) <= Len(TextOf(directory)) /\ directory[0] # 0
           => n < Len(TextOf(directory)) \/ n <= 1
=============================================================================
