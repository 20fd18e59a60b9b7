-------------------------------- MODULE Boot --------------------------------
(***************************************************************************)
(* The information of the boot loader: the tag list, as kernel_main and    *)
(* kernel/multiboot2.c walk it, the boot modules and the framebuffer.      *)
(*                                                                         *)
(* A tag is [type, size] and what its type needs; the loader puts the next *)
(* tag at the next multiple of 8.  `tags` is a function from addresses.    *)
(***************************************************************************)
EXTENDS Integers, Sequences, SequencesExt

CONSTANTS PAGE,           \* 4096
          BOOT_STACK      \* what is left of the 16 KiB of boot.S

TAG_END == 0
TAG_MODULE == 3
TAG_FB == 8

align_to(n, align) == IF n % align = 0 THEN n ELSE n + (align - (n % align))

(* kernel_main's step: ((tag->size + 7) & ~7).                             *)
NextTag(tags, a) == a + ((tags[a].size + 7) \div 8) * 8

RECURSIVE mb2_find_tag(_, _, _)
(* The tag itself is looked at before the end is: also the end tag's type  *)
(* is found.  -1 for NULL.                                                 *)
mb2_find_tag(tags, a, tag_type) ==
  IF tags[a].type = tag_type THEN a
  ELSE IF tags[a].type = TAG_END THEN -1
  ELSE mb2_find_tag(tags, a + align_to(tags[a].size, 8), tag_type)

(* init_fb: the pages of the block that are pointed at the framebuffer.    *)
init_fb(tag) == [width |-> tag.width, height |-> tag.height, pitch |-> tag.pitch,
                 pages |-> (tag.height * tag.pitch) \div PAGE]

(* The initrd case: its address and root node, mounted at "/"; each file   *)
(* is read into an array on the stack, which one byte more than its        *)
(* length must fit; then /dev and the devices.  Other modules are loaded.  *)
BootModule(b, tag) ==
  IF tag.cmdline = "initrd"
  THEN [b EXCEPT !.initrd = tag.id, !.root = tag.id, !.mounted = tag.id, !.devices = b.devices + 1,
                 !.overrun = b.overrun \/ \E n \in Range(tag.files) : n + 1 > BOOT_STACK]
  ELSE [b EXCEPT !.loaded = Append(b.loaded, tag.id)]

Handled(b, tag) ==
  CASE tag.type = TAG_MODULE -> BootModule(b, tag)
    [] tag.type = TAG_FB -> [b EXCEPT !.fb = init_fb(tag)]
    [] OTHER -> b

RECURSIVE BootTags(_, _, _)
(* The loop over the tags in kernel_main.                                  *)
BootTags(tags, a, b) ==
  IF tags[a].type = TAG_END THEN b
  ELSE BootTags(tags, NextTag(tags, a), [Handled(b, tags[a]) EXCEPT !.seen = Append(@, a)])

NoFb == [width |-> 0, height |-> 0, pitch |-> 0, pages |-> 0]
Unbooted == [initrd |-> 0, root |-> 0, mounted |-> 0, devices |-> 0, overrun |-> FALSE,
             loaded |-> <<>>, fb |-> NoFb, seen |-> <<>>]

(* An unaligned address ends kernel_main; a wrong magic number is logged.  *)
kernel_main(tags, addr) ==
  IF addr % 8 # 0 THEN Unbooted ELSE BootTags(tags, addr + 8, Unbooted)

-----------------------------------------------------------------------------
(* Where the loader puts a list of tags.                                   *)
Place(list, addr, k) ==
  addr + 8 + FoldLeft(LAMBDA n, i : n + 8 * ((list[i].size + 7) \div 8), 0, [i \in 1 .. k - 1 |-> i])
LaidOut(list, addr) ==
  [a \in {Place(list, addr, k) : k \in DOMAIN list} |->
     list[CHOOSE k \in DOMAIN list : Place(list, addr, k) = a]]

(* Every tag before the end is seen once and in order, whatever its size,  *)
(* and both walks find the same.  The initrd's address, the root node and  *)
(* what is mounted at "/" are always of the same module, the last initrd,  *)
(* and the devices are registered once for each.  Reading the files of the *)
(* initrd stays in the stack when each is smaller than what is left of it. *)
(* Nothing behind the framebuffer is remapped, and the whole of it when    *)
(* its size is a multiple of the page.                                     *)
Booted(list, addr, b) ==
  LET tags == LaidOut(list, addr)
      body == SelectSeq(list, LAMBDA t : t.type # TAG_END)
      mods == {k \in DOMAIN body : body[k].type = TAG_MODULE /\ body[k].cmdline = "initrd"}
      fbs == {k \in DOMAIN body : body[k].type = TAG_FB}
  IN  /\ b.seen = [k \in DOMAIN body |-> Place(list, addr, k)]
      /\ b.initrd = IF mods = {} THEN 0 ELSE body[Max(mods)].id
      /\ b.root = b.initrd /\ b.mounted = b.initrd
      /\ b.devices = Cardinality(mods)
      /\ b.overrun => \E k \in mods : \E n \in Range(body[k].files) : n >= BOOT_STACK
      /\ fbs = {} => b.fb = NoFb
      /\ b.fb.pages * PAGE <= b.fb.height * b.fb.pitch
      /\ (b.fb.height * b.fb.pitch) % PAGE = 0 => b.fb.pages * PAGE = b.fb.height * b.fb.pitch
      /\ \A type \in {TAG_MODULE, TAG_FB, TAG_END, 7} :
           LET hits == {k \in DOMAIN list : list[k].type = type}
           IN  mb2_find_tag(tags, addr + 8, type)
                 = IF hits = {} THEN -1 ELSE Place(list, addr, Min(hits))
=============================================================================
