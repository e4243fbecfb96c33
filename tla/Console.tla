------------------------------ MODULE Console ------------------------------
(***************************************************************************)
(* The terminal's input: the keyboard interrupt against the reading loop   *)
(*   src/kernel/driver/keyboard/keyboard.c:25-81  keyboard_handler_main    *)
(*   src/kernel/vfs/std.c                         std_put, std_get         *)
(*   src/kernel/vfs/vfs.c:44-69, 89-102           read_line, write         *)
(*                                                                         *)
(* Handlers run behind interrupt gates, so a key is one step; it may come  *)
(* between any two of main's loads and stores, which the unoptimised build *)
(* keeps in the order of the source.  `spoiled' records that a key came in *)
(* one of the places of std_get where it does damage: the invariants say   *)
(* that those are the only ones.                                           *)
(***************************************************************************)
EXTENDS Integers, Sequences, FiniteSets

CONSTANTS
  Cased,      \* keys with a second character under caps lock
  Digits,     \* keys of the number pad, dead without num lock
  Plain,      \* other keys with a character, Enter among them
  Enter,      \* the key that ends a line
  Nodes,      \* bound: the heap blocks list elements are made of
  NULL,
  SizeMod     \* 2^32: size is a uint32_t

ASSUME ConsoleAssumption ==
  /\ Enter \in Plain
  /\ NULL \notin Nodes
  /\ IsFiniteSet(Nodes)
  /\ SizeMod \in Nat /\ SizeMod > Cardinality(Nodes) + 1

VARIABLES
  caps_lock, num_lock,   \* the handler's static flags
  first, last, size,     \* stds[STDIN]
  next, val,             \* the fields of the elements
  allocated,             \* the nodes malloc gave and free has not taken back
  pc,                    \* where main is in read_line and std_get
  old, c, loaded,        \* main's locals: the element, its char, the load
                         \*   (old->next or size) whose store is still to come
  owed,                  \* history: the characters typed and not yet delivered
  waiting,               \* history: a key came since the last delivery
  spoiled                \* history: a key came in a damaging place

keyVars == <<caps_lock, num_lock>>
queue == <<first, last, size, next, val, allocated>>
main == <<pc, old, c, loaded>>
history == <<owed, waiting, spoiled>>
vars == <<keyVars, queue, main, history>>

Keys == Cased \cup Digits \cup Plain
Chars == [key : Keys \cup {"other"}, shifted : BOOLEAN]
NoChar == [key |-> "other", shifted |-> FALSE]    \* any other character

EnterChar == [key |-> Enter, shifted |-> FALSE]
Forgotten == [n \in Nodes |-> NoChar]

\* keycode_translated, then the changes caps lock makes.
Translate(k) == [key |-> k, shifted |-> caps_lock /\ k \in Cased]

Init ==
  /\ caps_lock = FALSE /\ num_lock = FALSE
  /\ first = NULL /\ last = NULL /\ size = 0
  /\ next = [n \in Nodes |-> NULL]
  /\ val = Forgotten
  /\ allocated = {}
  /\ pc = "command" /\ old = NULL /\ c = NoChar /\ loaded = NULL
  /\ owed = << >> /\ waiting = FALSE /\ spoiled = FALSE

-----------------------------------------------------------------------------
(* The interrupt                                                           *)

\* malloc's answers for an element.  Bound: once a key did damage an element
\* may be freed twice, so malloc may give out any block again, the blocks and
\* the characters are not followed any more and every character may be read.
Mallocs == IF spoiled THEN Nodes ELSE Nodes \ allocated

\* Mistake: a list that was emptied is not started again.
Linked_NoFirst(elt) ==
  /\ last' = elt
  /\ first' = first

Linked(elt) ==
  /\ last' = elt
  /\ first' = IF first = NULL THEN elt ELSE first

\* Mistake: the new element is not linked behind the last one.
Behind_Forgotten(elt) == [next EXCEPT ![elt] = NULL]

\* elt->next = NULL, then std->last->next = elt.
Behind(elt) ==
  LET n == [next EXCEPT ![elt] = NULL]
  IN  IF last = NULL THEN n ELSE [n EXCEPT ![last] = elt]

\* std_put of one character.
std_put(ch) ==
  \E elt \in Mallocs :
    /\ allocated' = IF spoiled' THEN {} ELSE allocated \cup {elt}
    /\ val' = IF spoiled' THEN Forgotten ELSE [val EXCEPT ![elt] = ch]
    /\ next' = Behind(elt)
    /\ Linked(elt)
    /\ size' = (size + 1) % SizeMod

\* The three places where a key does damage: old->next has been read as NULL
\* and not yet stored in first; size was 1 and last is about to be cleared;
\* size has been read and not yet stored back.
Damaging ==
  \/ pc = "advance" /\ loaded = NULL
  \/ pc = "clear"
  \/ pc = "store"

\* A key with a character; a digit without num lock is dropped.
Key(k) ==
  /\ k \in Digits => num_lock
  /\ spoiled' = (spoiled \/ Damaging)
  /\ std_put(Translate(k))
  /\ owed' = IF spoiled THEN owed
             ELSE IF spoiled' THEN [i \in 1 .. Len(owed) + 1 |-> NoChar]
             ELSE Append(owed, Translate(k))
  /\ waiting' = TRUE
  /\ UNCHANGED <<keyVars, main>>

CapsLock ==
  /\ ~spoiled /\ caps_lock' = ~caps_lock
  /\ UNCHANGED <<num_lock, queue, main, history>>

NumLock ==
  /\ ~spoiled /\ num_lock' = ~num_lock
  /\ UNCHANGED <<caps_lock, queue, main, history>>

-----------------------------------------------------------------------------
(* The main thread                                                         *)

\* The terminal is done with a line and calls read_line again.
ReadLine ==
  /\ pc = "command"
  /\ pc' = "poll"
  /\ UNCHANGED <<old, c, loaded, keyVars, queue, history>>

\* std_get on a list that is not empty: the character and the element.  The
\* interrupt changes neither first nor the element's character meanwhile.
Take ==
  /\ pc = "poll" /\ first # NULL
  /\ old' = first /\ c' \in IF spoiled THEN {NoChar, EnterChar} ELSE {val[first]}
  /\ pc' = "next"
  /\ UNCHANGED <<loaded, keyVars, queue, history>>

\* std->first = old->next, a load and a store.
LoadNext ==
  /\ pc = "next"
  /\ loaded' = next[old]
  /\ pc' = "advance"
  /\ UNCHANGED <<old, c, keyVars, queue, history>>

Advance ==
  /\ pc = "advance"
  /\ first' = loaded /\ loaded' = NULL
  /\ pc' = "test"
  /\ UNCHANGED <<last, size, next, val, allocated, old, c, keyVars, history>>

\* if (std->size == 1)
TestSize ==
  /\ pc = "test"
  /\ pc' = IF size = 1 THEN "clear" ELSE "load"
  /\ UNCHANGED <<old, c, loaded, keyVars, queue, history>>

\* Mistake: last keeps pointing to the element about to be freed.
ClearLast_Kept ==
  /\ pc = "clear"
  /\ pc' = "load"
  /\ UNCHANGED <<old, c, loaded, keyVars, queue, history>>

ClearLast ==
  /\ pc = "clear"
  /\ last' = NULL
  /\ pc' = "load"
  /\ UNCHANGED <<first, size, next, val, allocated, old, c, loaded, keyVars, history>>

\* Mistake: size is taken for a number without width.
StoreSize_Unbounded ==
  /\ pc = "store"
  /\ size' = loaded - 1 /\ loaded' = NULL
  /\ pc' = "free"
  /\ UNCHANGED <<first, last, next, val, allocated, old, c, keyVars, history>>

\* std->size--, a load and a store.
LoadSize ==
  /\ pc = "load"
  /\ loaded' = size
  /\ pc' = "store"
  /\ UNCHANGED <<old, c, keyVars, queue, history>>

StoreSize ==
  /\ pc = "store"
  /\ size' = (loaded - 1) % SizeMod /\ loaded' = NULL
  /\ pc' = "free"
  /\ UNCHANGED <<first, last, next, val, allocated, old, c, keyVars, history>>

\* free(old); read_line stores the character and goes on until Enter.
Deliver ==
  /\ pc = "free"
  /\ allocated' = allocated \ {old}
  /\ pc' = IF c.key = Enter THEN "command" ELSE "poll"
  /\ old' = NULL /\ c' = NoChar
  /\ owed' = IF owed = << >> THEN owed ELSE Tail(owed)
  /\ waiting' = FALSE
  /\ UNCHANGED <<first, last, size, next, val, loaded, spoiled, keyVars>>

Main ==
  \/ ReadLine \/ Take \/ LoadNext \/ Advance \/ TestSize \/ ClearLast
  \/ LoadSize \/ StoreSize \/ Deliver

Next == Main \/ CapsLock \/ NumLock \/ \E k \in Keys : Key(k)

\* Handlers return, so main goes on whenever it can.
Spec == Init /\ [][Next]_vars /\ WF_vars(Main)

-----------------------------------------------------------------------------

ConsoleTypeOK ==
  /\ caps_lock \in BOOLEAN /\ num_lock \in BOOLEAN
  /\ {first, last, old} \subseteq Nodes \cup {NULL}
  /\ size \in 0 .. SizeMod - 1
  /\ next \in [Nodes -> Nodes \cup {NULL}]
  /\ val \in [Nodes -> Chars]
  /\ allocated \subseteq Nodes
  /\ pc \in {"command", "poll", "next", "advance", "test", "clear", "load", "store", "free"}
  /\ c \in Chars
  /\ loaded \in Nodes \cup {NULL} \cup 0 .. SizeMod - 1
  /\ owed \in Seq(Chars)
  /\ waiting \in BOOLEAN /\ spoiled \in BOOLEAN

\* The k-th element of a list, NULL past its end.
At(list, k) == IF k \in DOMAIN list THEN list[k] ELSE NULL

\* The elements that are met from first on are those of list.
StartsAtFirst(list) ==
  /\ first = At(list, 1)
  /\ \A k \in DOMAIN list : next[list[k]] = At(list, k + 1)

\* While main is outside std_get, the list is exactly what was typed and not
\* yet read, in order, with its end and its size right, unless a key came in
\* one of the three damaging places: the two sides of the queue share it
\* without a lock, and everywhere else the interrupt is harmless.
QueueIsWhatWasTyped ==
  pc \in {"command", "poll"} /\ ~spoiled =>
    \E list \in [1 .. Len(owed) -> Nodes] :
      /\ StartsAtFirst(list)
      /\ \A k \in 1 .. Len(owed) : val[list[k]] = owed[k]
      /\ last = At(list, Len(owed))
      /\ size = Len(owed)

\* The element main reads, and everything an interrupt follows or writes
\* through last, is memory the list owns, until a key did damage.
NoUseAfterFree ==
  ~spoiled =>
    /\ {old, last} \subseteq allocated \cup {NULL}
    /\ \E reached \in SUBSET allocated :
         {first} \cup {next[n] : n \in reached} \subseteq reached \cup {NULL}

\* Characters are delivered in the order they were typed, none twice.
DeliveredInOrder ==
  pc = "free" /\ ~spoiled => owed # << >> /\ c = Head(owed)

\* Whatever interrupts do to the list, the terminal never goes deaf: after a
\* key, main gets a character, even when earlier damage lost some.
NeverDeaf == waiting ~> ~waiting

-----------------------------------------------------------------------------
(* What a comment of the code says and the code does not do.               *)

\* main.c:159, `you wrote: %s': what read_line returns is what was typed; an
\* empty list means that everything typed has been read.
ReadsWhatWasTyped == pc = "poll" /\ first = NULL => owed = << >>
=============================================================================
