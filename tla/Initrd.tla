------------------------------- MODULE Initrd -------------------------------
(***************************************************************************)
(* Reading the initial ram disk: kernel/kernel/fs/initrd.c walks the tar   *)
(* archive twice, once to collect the headers and once to count them, and  *)
(* builds a node per file that knows where its content is.                 *)
(*                                                                         *)
(* Addresses are bytes from the start of the archive.  An entry of the     *)
(* archive is a name, a type and a size field, digits in base 8.           *)
(***************************************************************************)
EXTENDS Integers, Sequences, SequencesExt

CONSTANTS BLOCK,      \* 512
          Archives    \* sequences of [name, type, size]

-----------------------------------------------------------------------------
(* The tar format: a header block, the content padded to whole blocks, and *)
(* after the last file an empty header.                                    *)
value(digits) == FoldLeft(LAMBDA n, d : 8 * n + d, 0, digits)
padded(n) == ((n + BLOCK - 1) \div BLOCK) * BLOCK
offsetOf(archive, k) ==
  FoldLeft(LAMBDA n, f : n + BLOCK + padded(value(f.size)), 0, SubSeq(archive, 1, k - 1))

VARIABLES archive,   \* the file in memory
          pc,        \* "list", "count", "build", "ready"
          address,   \* of the header looked at
          headers,   \* list_headers.headers, addresses
          size,      \* list_headers.size, entries the array has room for
          nfiles,    \* initrd_header->nfiles; i of the counting loop
          nodes      \* root_nodes: [name, type, inode, length]
vars == <<archive, pc, address, headers, size, nfiles, nodes>>

Init ==
  /\ archive \in Archives
  /\ pc = "list" /\ address = 0
  /\ headers = <<>> /\ size = 1          \* init_header_list(&list_headers, 1)
  /\ nfiles = 0 /\ nodes = <<>>

(* The file whose header is at an address; 0 for the empty header.  A walk *)
(* that leaves the headers would read content as a header: it is taken to  *)
(* see an empty one.                                                       *)
fileAt(a) ==
  LET ks == {k \in DOMAIN archive : offsetOf(archive, k) = a}
  IN  IF ks = {} THEN 0 ELSE CHOOSE k \in ks : TRUE

(* From the last digit to the first, with a growing weight.                *)
getsize(in) ==
  FoldLeft(LAMBDA acc, d : [size |-> acc.size + d * acc.count, count |-> acc.count * 8],
           [size |-> 0, count |-> 1], Reverse(in)).size

(* Mutant: a last block that is not full is forgotten.                     *)
next_header_no_rest(a, n) == a + ((n \div BLOCK) + 1) * BLOCK

next_header(a, n) ==
  a + ((n \div BLOCK) + 1) * BLOCK + (IF n % BLOCK # 0 THEN BLOCK ELSE 0)

headerSize(a) == getsize(archive[fileAt(a)].size)

(* add_header_list                                                         *)
grown == IF Len(headers) = size THEN size * 2 ELSE size

(* One round of generate_list_files_initrd                                 *)
ListHeader ==
  /\ pc = "list" /\ fileAt(address) # 0
  /\ size' = grown
  /\ headers' = Append(headers, address)
  /\ address' = next_header(address, headerSize(address))
  /\ UNCHANGED <<archive, pc, nfiles, nodes>>

(* The empty header ends the list, and the count starts over.              *)
EndList ==
  /\ pc = "list" /\ fileAt(address) = 0
  /\ pc' = "count" /\ address' = 0
  /\ UNCHANGED <<archive, headers, size, nfiles, nodes>>

(* One round of initrd_get_number_files                                    *)
CountHeader ==
  /\ pc = "count" /\ fileAt(address) # 0
  /\ nfiles' = nfiles + 1
  /\ address' = next_header(address, headerSize(address))
  /\ UNCHANGED <<archive, pc, headers, size, nodes>>

EndCount ==
  /\ pc = "count" /\ fileAt(address) = 0
  /\ pc' = "build"
  /\ UNCHANGED <<archive, address, headers, size, nfiles, nodes>>

(* The node of file i, counted from 1; its inode counts from 0.            *)
node(i) ==
  LET file == archive[fileAt(headers[i])]
  IN  [name |-> file.name, type |-> file.type,
       inode |-> i - 1, length |-> headerSize(headers[i])]

(* initialise_initrd: one node per file counted, in an array that has room *)
(* for one more.                                                           *)
Build ==
  /\ pc = "build"
  /\ nodes' = [i \in 1 .. nfiles |-> node(i)]
  /\ pc' = "ready"
  /\ UNCHANGED <<archive, address, headers, size, nfiles>>

Next == ListHeader \/ EndList \/ CountHeader \/ EndCount \/ Build

Spec == Init /\ [][Next]_vars

-----------------------------------------------------------------------------
(* Mutant: the header block is not skipped.                                *)
initrd_read_header(n) ==
  headers[n.inode + 1] .. headers[n.inode + 1] + n.length - 1

(* initrd_read of a whole file, as its callers do: the addresses copied.   *)
initrd_read(n) ==
  LET content == headers[n.inode + 1] + BLOCK
  IN  content .. content + n.length - 1

(* The bytes of file k in the archive.                                     *)
contentOf(k) ==
  LET a == offsetOf(archive, k) + BLOCK IN a .. a + value(archive[k].size) - 1

(* Types, and the array of headers is never written past its end.          *)
TypeOK ==
  /\ pc \in {"list", "count", "build", "ready"}
  /\ address \in Nat /\ nfiles \in Nat
  /\ headers \in Seq(Nat) /\ size \in Nat /\ Len(headers) <= size

(* The two walks agree with each other and with the archive: the nodes are *)
(* all of its files, whatever their sizes, and the array of nfiles + 1     *)
(* nodes has room for them and for /dev.                                   *)
WalksAgree ==
  pc \in {"build", "ready"}
  => /\ nfiles = Len(headers) /\ Len(nodes) <= nfiles + 1
     /\ headers = [k \in DOMAIN archive |-> offsetOf(archive, k)]
=============================================================================
