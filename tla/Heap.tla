-------------------------------- MODULE Heap --------------------------------
(***************************************************************************)
(* The kernel heap: malloc, free and realloc in main, and malloc in the    *)
(* keyboard interrupt                                                      *)
(*   src/kernel/memory/malloc.c                                            *)
(*   src/kernel/vfs/std.c:12-13     std_put takes its element from malloc  *)
(*                                                                         *)
(* Addresses and sizes are the code's, with a small PAGE_SIZE.  A block is *)
(* the address of its header.  Main's loads and stores are steps of their  *)
(* own where a key can come between them; the handler's malloc is one.     *)
(* `spoiled' records a key that took a block main was about to use: there  *)
(* the model ends, and the invariants say that nothing else does harm.     *)
(***************************************************************************)
EXTENDS Integers, Sequences, FiniteSets

CONSTANTS
  PAGE_SIZE,
  Sizes,         \* bound: what main asks for
  MaxPages,      \* bound: the pages of the heap; then allocate_new_page fails
  MaxLive        \* bound: main asks for no more with so many blocks in use

STARTING_PAGE == 1000      \* 0xF0000000, any address but 0
NULL == 0
BlkHeader == 12
PageHeader == 16
KeySize == 8               \* sizeof(std_elt_t)

ASSUME HeapAssumption ==
  /\ PAGE_SIZE \in Nat \ {0} /\ PAGE_SIZE % 16 = 0
  /\ Sizes \subseteq Nat \ {0}
  /\ MaxPages \in Nat /\ MaxLive \in Nat

VARIABLES
  pages,       \* page_list: base, size and used_size of the pages, in order
  hdr,         \* the block headers written so far
  free_list,
  live,        \* history: the blocks handed out, with the size asked for
  grown,       \* history: the blocks realloc left smaller than asked for
  pc,          \* where main is
  m,           \* main's locals: size, header, tmp, loaded value, page, and
               \*   the block realloc frees at the end
  spoiled      \* history

heap == <<pages, hdr, free_list, live>>
vars == <<heap, grown, pc, m, spoiled>>

NoLocals == [size |-> 0, blk |-> NULL, tmp |-> NULL, loaded |-> NULL, page |-> 0, old |-> NULL]

align(n, base) == ((n + base - 1) \div base) * base
Aligned(size) == align(size, 16)

Room(p) == pages[p].size - pages[p].used

\* Mistake: room for the block without its header.
Fits_NoHeader(p, size) == Room(p) >= Aligned(size)

Fits(p, size) == Room(p) >= Aligned(size) + BlkHeader

Init ==
  /\ pages = << >> /\ hdr = << >> /\ free_list = NULL
  /\ live = {} /\ grown = {}
  /\ pc = "idle" /\ m = NoLocals
  /\ spoiled = FALSE

\* The blocks on the free list, in order.
FreeList ==
  LET walk[k \in 0 .. Cardinality(DOMAIN hdr) + 1] ==
        IF k = 0 THEN free_list
        ELSE IF walk[k - 1] = NULL THEN NULL ELSE hdr[walk[k - 1]].next
      n == CHOOSE k \in 0 .. Cardinality(DOMAIN hdr) + 1 :
             \/ walk[k] = NULL /\ (k > 0 => walk[k - 1] # NULL)
             \/ k = Cardinality(DOMAIN hdr) + 1 /\ walk[k] # NULL
  IN  [k \in 1 .. n |-> walk[k - 1]]

\* add_page behind the last page.
WithPage(size) ==
  LET n == Len(pages)
  IN  Append(pages, [base |-> IF n = 0 THEN STARTING_PAGE ELSE pages[n].base + pages[n].size,
                     size |-> align(size, PAGE_SIZE), used |-> PageHeader])

Header(size, next) == [size |-> size, actual |-> Aligned(size), next |-> next]
WithHeader(b, h) == [a \in DOMAIN hdr \cup {b} |-> IF a = b THEN h ELSE hdr[a]]
Owned(b, size, by) == [at |-> b, size |-> size, by |-> by]

-----------------------------------------------------------------------------
(* malloc in the interrupt                                                 *)

\* The place on the free list of the block find_free_blk takes, 0 for none:
\* the head must be larger than asked for, the others at least as large.
Taken(size) ==
  LET actual(i) == hdr[FreeList[i]].actual
      fit == {i \in 2 .. Len(FreeList) : actual(i) >= Aligned(size)}
  IN  IF FreeList # << >> /\ actual(1) > Aligned(size) THEN 1
      ELSE IF fit # {} THEN CHOOSE i \in fit : \A j \in fit : i <= j
      ELSE 0

\* The page a new block is carved from, 0 when none has room.
PageFor(size) ==
  IF \E p \in DOMAIN pages : Fits(p, size)
  THEN CHOOSE p \in DOMAIN pages : Fits(p, size) /\ \A q \in 1 .. p - 1 : ~Fits(q, size)
  ELSE 0

Carved(b, p, size, by) ==
  /\ hdr' = WithHeader(b, Header(size, NULL))
  /\ pages' = [pages EXCEPT ![p].used = @ + BlkHeader + Aligned(size)]
  /\ live' = live \cup {Owned(b, size, by)}
  /\ UNCHANGED free_list

\* A block off the list.
TakenFromList(i, size, by) ==
  LET b == FreeList[i]
      sized == [hdr EXCEPT ![b].size = size]
  IN  /\ IF i = 1 THEN free_list' = hdr[b].next /\ hdr' = sized
         ELSE /\ hdr' = [sized EXCEPT ![FreeList[i - 1]].next = hdr[b].next]
              /\ UNCHANGED free_list
      /\ live' = live \cup {Owned(b, size, by)}
      /\ UNCHANGED pages

\* What main goes on to use from where it is: the blocks it loaded ...
Held ==
  CASE pc \in {"pop", "walk"} -> {m.blk}
    [] pc = "popped" -> {m.blk, m.loaded}
    [] pc = "found" -> {m.blk, hdr[m.blk].next}
    [] pc = "unlink" -> {m.blk, m.tmp, m.loaded}
    [] pc = "publish" -> {m.loaded}
    [] OTHER -> {}

\* ... and the room it counts on in page p.
RoomHeld(p) ==
  \/ pc \in {"count", "counted"} /\ m.page = p
  \/ /\ pc = "carve" /\ m.page = p
     /\ Room(p) < Aligned(m.size) + 2 * BlkHeader + Aligned(KeySize)

\* std_put: malloc as one step.
Key ==
  /\ ~spoiled /\ pages # << >>
  /\ Cardinality({b \in live : b.by = "key"}) < MaxLive
  /\ LET i == Taken(KeySize)
         p == PageFor(KeySize)
     IN  IF i # 0
         THEN /\ TakenFromList(i, KeySize, "key")
              /\ spoiled' = (FreeList[i] \in Held)
         ELSE IF p # 0
         THEN /\ Carved(pages[p].base + pages[p].used, p, KeySize, "key")
              /\ spoiled' = RoomHeld(p)
         ELSE \* add_page, and the block in it
              /\ Len(pages) < MaxPages
              /\ LET with == WithPage(Aligned(KeySize) + BlkHeader + PageHeader)
                     b == with[Len(with)].base + PageHeader
                 IN  /\ pages' = [with EXCEPT ![Len(with)].used = @ + BlkHeader + Aligned(KeySize)]
                     /\ hdr' = WithHeader(b, Header(KeySize, NULL))
                     /\ live' = live \cup {Owned(b, KeySize, "key")}
              /\ spoiled' = (pc = "add page")
              /\ UNCHANGED free_list
  /\ UNCHANGED <<grown, pc, m>>

-----------------------------------------------------------------------------
(* Main: malloc                                                            *)

Main(step) == pc = step /\ ~spoiled
Frame == UNCHANGED <<grown, spoiled>>

\* A call; the first one makes the first page.
Malloc ==
  /\ Main("idle") /\ Cardinality(live) < MaxLive
  /\ \E size \in Sizes :
       /\ m' = [NoLocals EXCEPT !.size = size]
       /\ pc' = IF pages = << >> THEN "first page" ELSE "list"
  /\ UNCHANGED heap /\ Frame

\* Without a page malloc answers NULL; realloc frees the old block all the same.
NoPage ==
  /\ pc' = IF m.old = NULL THEN "idle" ELSE "free"
  /\ m' = [NoLocals EXCEPT !.old = m.old]
  /\ UNCHANGED heap

FirstPage ==
  /\ Main("first page")
  /\ \/ /\ pages' = WithPage(Aligned(m.size))
        /\ pc' = "list"
        /\ UNCHANGED <<hdr, free_list, live, m>>
     \/ NoPage
  /\ Frame

\* find_free_blk looks at the head, alone with `larger than'.
List ==
  /\ Main("list")
  /\ m' = [m EXCEPT !.blk = free_list]
  /\ pc' = CASE free_list = NULL -> "room"
             [] free_list # NULL /\ hdr[free_list].actual > Aligned(m.size) -> "pop"
             [] OTHER -> "walk"
  /\ UNCHANGED heap /\ Frame

\* The block is main's; realloc copies into it and frees the old one.
Return(b) ==
  /\ live' = live \cup {Owned(b, m.size, "main")}
  /\ pc' = IF m.old = NULL THEN "idle" ELSE "free"
  /\ m' = [NoLocals EXCEPT !.old = m.old]

\* free_list = free_blk->next, a load and a store.
Pop ==
  /\ Main("pop")
  /\ m' = [m EXCEPT !.loaded = hdr[m.blk].next]
  /\ pc' = "popped"
  /\ UNCHANGED heap /\ Frame

\* Mistake: the block stays the head of the list.
Popped_Kept ==
  /\ Main("popped")
  /\ hdr' = [hdr EXCEPT ![m.blk].size = m.size]
  /\ Return(m.blk)
  /\ UNCHANGED <<pages, free_list>> /\ Frame

Popped ==
  /\ Main("popped")
  /\ free_list' = m.loaded
  /\ hdr' = [hdr EXCEPT ![m.blk].size = m.size]
  /\ Return(m.blk)
  /\ UNCHANGED pages /\ Frame

\* A turn of the loop over the rest of the list.
Walk ==
  /\ Main("walk")
  /\ LET next == hdr[m.blk].next
     IN  IF next # NULL /\ hdr[next].actual < Aligned(m.size)
         THEN m' = [m EXCEPT !.blk = next] /\ UNCHANGED pc
         ELSE pc' = (IF next = NULL THEN "room" ELSE "found") /\ UNCHANGED m
  /\ UNCHANGED heap /\ Frame

\* free_blk->next is loaded again.
Found ==
  /\ Main("found")
  /\ LET next == hdr[m.blk].next
     IN  IF next = NULL THEN pc' = "room" /\ UNCHANGED m
         ELSE /\ m' = [m EXCEPT !.tmp = next, !.loaded = hdr[next].next]
              /\ pc' = "unlink"
  /\ UNCHANGED heap /\ Frame

Unlink ==
  /\ Main("unlink")
  /\ hdr' = [hdr EXCEPT ![m.blk].next = m.loaded, ![m.tmp].size = m.size]
  /\ Return(m.tmp)
  /\ UNCHANGED <<pages, free_list>> /\ Frame

\* No block: a page with room, or a new one.
ChoosePage ==
  /\ Main("room")
  /\ pc' = IF PageFor(m.size) = 0 THEN "add page" ELSE "carve"
  /\ m' = [m EXCEPT !.page = PageFor(m.size)]
  /\ UNCHANGED heap /\ Frame

AddPage ==
  /\ Main("add page")
  /\ \/ /\ Len(pages) < MaxPages
        /\ pages' = WithPage(Aligned(m.size) + BlkHeader + PageHeader)
        /\ m' = [m EXCEPT !.page = Len(pages) + 1]
        /\ pc' = "carve"
        /\ UNCHANGED <<hdr, free_list, live>>
     \/ NoPage
  /\ Frame

\* The header is written where used_size says ...
Carve ==
  /\ Main("carve")
  /\ LET b == pages[m.page].base + pages[m.page].used
     IN  /\ hdr' = WithHeader(b, Header(m.size, NULL))
         /\ m' = [m EXCEPT !.blk = b]
  /\ pc' = "count"
  /\ UNCHANGED <<pages, free_list, live>> /\ Frame

\* ... and then counted: a load and a store of used_size.
Count ==
  /\ Main("count")
  /\ m' = [m EXCEPT !.loaded = pages[m.page].used]
  /\ pc' = "counted"
  /\ UNCHANGED heap /\ Frame

\* Mistake: the header is not counted.
Counted_NoHeader ==
  /\ Main("counted")
  /\ pages' = [pages EXCEPT ![m.page].used = m.loaded + Aligned(m.size)]
  /\ Return(m.blk)
  /\ UNCHANGED <<hdr, free_list>> /\ Frame

Counted ==
  /\ Main("counted")
  /\ pages' = [pages EXCEPT ![m.page].used = m.loaded + BlkHeader + Aligned(m.size)]
  /\ Return(m.blk)
  /\ UNCHANGED <<hdr, free_list>> /\ Frame

-----------------------------------------------------------------------------
(* Main: free and realloc                                                  *)

\* free: main's own blocks, and the elements std_get has read.
Free ==
  /\ Main("idle")
  /\ \E b \in live : b.by \in {"main", "key"} /\ m' = [NoLocals EXCEPT !.old = b.at]
  /\ pc' = "free"
  /\ UNCHANGED heap /\ Frame

\* header->next = free_list ...
Link ==
  /\ Main("free")
  /\ hdr' = [hdr EXCEPT ![m.old].next = free_list]
  /\ m' = [m EXCEPT !.loaded = free_list]
  /\ live' = {b \in live : b.at # m.old}
  /\ grown' = grown \ {m.old}
  /\ pc' = "publish"
  /\ UNCHANGED <<pages, free_list, spoiled>>

\* Mistake: a list that was empty stays empty.
Publish_NotFirst ==
  /\ Main("publish")
  /\ free_list' = IF m.loaded = NULL THEN NULL ELSE m.old
  /\ pc' = "idle" /\ m' = NoLocals
  /\ UNCHANGED <<pages, hdr, live>> /\ Frame

\* ... free_list = header.
Publish ==
  /\ Main("publish")
  /\ free_list' = m.old
  /\ pc' = "idle" /\ m' = NoLocals
  /\ UNCHANGED <<pages, hdr, live>> /\ Frame

\* A block that is too small is kept, with the new size; one that is large
\* enough is copied.
Realloc ==
  /\ Main("idle")
  /\ \E b \in live, size \in Sizes :
       /\ b.by = "main"
       /\ IF hdr[b.at].actual < size
          THEN /\ hdr' = [hdr EXCEPT ![b.at].size = size]
               /\ live' = (live \ {b}) \cup {[b EXCEPT !.size = size]}
               /\ grown' = grown \cup {b.at}
               /\ UNCHANGED <<pages, free_list, pc, m>>
          ELSE /\ Cardinality(live) < MaxLive
               /\ m' = [NoLocals EXCEPT !.size = size, !.old = b.at]
               /\ pc' = "list"
               /\ UNCHANGED <<heap, grown>>
  /\ UNCHANGED spoiled

Mallocs ==
  \/ FirstPage \/ List \/ Pop \/ Popped \/ Walk \/ Found \/ Unlink
  \/ ChoosePage \/ AddPage \/ Carve \/ Count \/ Counted

MainNext == Malloc \/ Mallocs \/ Free \/ Link \/ Publish \/ Realloc
Next == MainNext \/ Key

\* Main goes on with a call it has begun.
Spec == Init /\ [][Next]_vars /\ WF_vars(Mallocs \/ Link \/ Publish)

-----------------------------------------------------------------------------

HeapTypeOK ==
  /\ \A p \in DOMAIN pages :
       /\ pages[p].used \in PageHeader .. pages[p].size
       /\ pages[p].size % PAGE_SIZE = 0
  /\ free_list \in DOMAIN hdr \cup {NULL}
  /\ \A b \in DOMAIN hdr : hdr[b].next \in DOMAIN hdr \cup {NULL}
  /\ {b.at : b \in live} \subseteq DOMAIN hdr /\ grown \subseteq {b.at : b \in live}
  /\ pc \in {"idle", "first page", "list", "pop", "popped", "walk", "found", "unlink",
             "room", "add page", "carve", "count", "counted", "free", "publish"}
  /\ m.blk \in DOMAIN hdr \cup {NULL} /\ m.page \in 0 .. Len(pages)

EndOf(b) == b + BlkHeader + hdr[b].actual

\* What malloc gave belongs to one owner: the blocks in use do not overlap,
\* header included, and each has the size that was asked for, unless a key
\* took what main was about to use; a block that realloc grew is the only one
\* that may be too small.
BlocksApart ==
  ~spoiled =>
    /\ \A x, y \in live : x # y => EndOf(x.at) <= y.at \/ EndOf(y.at) <= x.at
    /\ \A x \in live : x.size <= hdr[x.at].actual \/ x.at \in grown

\* The blocks of every page lie one behind the other from its header to
\* used_size: no interleaving leaves a gap or counts a block twice.
PagesTiled ==
  ~spoiled =>
    \A p \in DOMAIN pages :
      LET start == pages[p].base + PageHeader
          end == pages[p].base + pages[p].used
          blocks == {b \in DOMAIN hdr : b \in start .. end - 1}
      IN  {start} \cup {EndOf(b) : b \in blocks} = blocks \cup {end}

\* Between two calls every block is either in use or once on the free list:
\* memory is neither lost nor handed out while it is free.
NothingLost ==
  pc = "idle" /\ ~spoiled =>
    LET used == {b.at : b \in live}
        free == {FreeList[i] : i \in DOMAIN FreeList}
    IN  /\ used \cup free = DOMAIN hdr /\ used \cap free = {}
        /\ Cardinality(free) = Len(FreeList)

\* A call of malloc, free or realloc returns, whenever keys come.
CallsReturn == pc # "idle" ~> (pc = "idle" \/ spoiled)
=============================================================================
