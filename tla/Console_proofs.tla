--------------------------- MODULE Console_proofs ---------------------------
(***************************************************************************)
(* Theorems about Console, for every set of keys and every number of heap  *)
(* blocks: the queue between the keyboard interrupt and the reading loop   *)
(* is right until a key comes in one of the three damaging places.         *)
(***************************************************************************)
EXTENDS Console, TLAPS, FiniteSetTheorems

\* Main has taken the first element off the list, and not freed it yet.
Late == pc \in {"test", "clear", "load", "store", "free"}
Off == IF Late THEN 1 ELSE 0

\* What main's locals are where they are used.
LocalsOK ==
  /\ pc \in {"next", "advance"} \/ Late => old \in Nodes
  /\ pc = "advance" => loaded \in Nodes \cup {NULL}
  /\ pc = "store" => loaded \in 0 .. SizeMod - 1

\* The list: distinct blocks that are allocated, linked from first.
Chained(list, len) ==
  /\ list \in [1 .. len -> Nodes]
  /\ \A i, j \in 1 .. len : list[i] = list[j] => i = j
  /\ \A i \in 1 .. len : list[i] \in allocated
  /\ StartsAtFirst(list)

\* It carries what was typed; the character main has taken comes before it.
Carries(list, len) ==
  /\ Len(owed) = len + Off
  /\ Late => owed[1] = c
  /\ \A i \in 1 .. len : val[list[i]] = owed[i + Off]

\* last, and size, which main updates after the list.
EndRight(list, len) ==
  /\ last = IF len > 0 THEN list[len] ELSE IF pc \in {"test", "clear"} THEN old ELSE NULL
  /\ size = IF pc = "free" THEN len ELSE len + Off
  /\ pc = "clear" => len = 0

\* Main's element and what it loaded, against the list.
MainRight(list, len) ==
  /\ pc \in {"command", "poll"} => old = NULL
  /\ pc \in {"next", "advance"} => len > 0 /\ old = list[1] /\ c = owed[1]
  /\ pc = "advance" => loaded = At(list, 2)
  /\ pc = "store" => loaded = len + 1
  /\ Late => old \in allocated /\ \A i \in 1 .. len : list[i] # old

QueueRight(list, len) ==
  /\ Chained(list, len)
  /\ Carries(list, len)
  /\ EndRight(list, len)
  /\ MainRight(list, len)

\* The inductive invariant.
IInv ==
  /\ ConsoleTypeOK
  /\ LocalsOK
  /\ ~spoiled => \E len \in Nat : \E list \in [1 .. len -> Nodes] : QueueRight(list, len)

-----------------------------------------------------------------------------
(* Types                                                                   *)

\* The characters the interrupt puts into the queue are characters.
LEMMA CharsType == NoChar \in Chars /\ EnterChar \in Chars
BY ConsoleAssumption DEF NoChar, EnterChar, Chars, Keys

\* A key's character is a character, whatever caps_lock says.
LEMMA TranslateType ==
  ASSUME caps_lock \in BOOLEAN, NEW k \in Keys
  PROVE  Translate(k) \in Chars
<1>1. (caps_lock /\ k \in Cased) \in BOOLEAN
  OBVIOUS
<1> QED
  BY <1>1 DEF Translate, Chars

\* The queue is empty at first.
LEMMA InitIInv == Init => IInv
<1> SUFFICES ASSUME Init PROVE IInv
  OBVIOUS
<1>1. ConsoleTypeOK
  <2>1. 0 \in 0 .. SizeMod - 1
    BY ConsoleAssumption, FS_CardinalityType
  <2>2. val \in [Nodes -> Chars] /\ c \in Chars /\ owed \in Seq(Chars)
    BY CharsType DEF Init, Forgotten
  <2>3. next \in [Nodes -> Nodes \cup {NULL}] /\ allocated \subseteq Nodes
    BY DEF Init
  <2> QED
    BY <2>1, <2>2, <2>3 DEF Init, ConsoleTypeOK
<1>2. LocalsOK
  BY DEF Init, LocalsOK, Late
<1>3. QueueRight(<< >>, 0)
  BY DEF Init, QueueRight, Chained, StartsAtFirst, At, Carries, EndRight, MainRight, Late, Off
<1>4. << >> \in [1 .. 0 -> Nodes]
  OBVIOUS
<1> QED
  BY <1>1, <1>2, <1>3, <1>4 DEF IInv

\* Types and the main thread's locals, step by step.
LEMMA StepTypes ==
  ConsoleTypeOK /\ LocalsOK /\ [Next]_vars => ConsoleTypeOK' /\ LocalsOK'
<1> SUFFICES ASSUME ConsoleTypeOK, LocalsOK, [Next]_vars
             PROVE  ConsoleTypeOK' /\ LocalsOK'
  OBVIOUS
<1> USE DEF ConsoleTypeOK, LocalsOK, Late
<1>1. ASSUME NEW k \in Keys, Key(k) PROVE ConsoleTypeOK' /\ LocalsOK'
  <2>1. Translate(k) \in Chars
    BY TranslateType
  <2>2. PICK elt \in Mallocs :
          /\ allocated' = IF spoiled' THEN {} ELSE allocated \cup {elt}
          /\ val' = IF spoiled' THEN Forgotten ELSE [val EXCEPT ![elt] = Translate(k)]
          /\ next' = Behind(elt)
          /\ Linked(elt)
          /\ size' = (size + 1) % SizeMod
    BY <1>1 DEF Key, std_put
  <2>3. elt \in Nodes
    BY DEF Mallocs
  <2>4. allocated' \subseteq Nodes /\ val' \in [Nodes -> Chars]
    BY <2>1, <2>2, <2>3, CharsType DEF Forgotten
  <2>5. next' \in [Nodes -> Nodes \cup {NULL}]
    BY <2>2, <2>3 DEF Behind
  <2>6. first' \in Nodes \cup {NULL} /\ last' \in Nodes \cup {NULL}
    BY <2>2, <2>3 DEF Linked
  <2>7. size' \in 0 .. SizeMod - 1
    BY <2>2, ConsoleAssumption, FS_CardinalityType
  <2>8. owed' \in Seq(Chars)
    <3>1. [i \in 1 .. Len(owed) + 1 |-> NoChar] \in Seq(Chars)
      BY CharsType
    <3>2. Append(owed, Translate(k)) \in Seq(Chars)
      BY <2>1
    <3> QED
      BY <1>1, <3>1, <3>2 DEF Key
  <2>9. UNCHANGED <<keyVars, main>> /\ waiting' = TRUE /\ spoiled' \in BOOLEAN
    BY <1>1 DEF Key
  <2> QED
    BY <2>4, <2>5, <2>6, <2>7, <2>8, <2>9 DEF keyVars, main
<1>2. CASE CapsLock \/ NumLock
  BY <1>2 DEF CapsLock, NumLock, queue, main, history
<1>3. CASE ReadLine
  BY <1>3 DEF ReadLine, keyVars, queue, history
<1>4. CASE Take
  <2>1. c' \in Chars
    BY <1>4, CharsType DEF Take
  <2> QED
    BY <1>4, <2>1 DEF Take, keyVars, queue, history
<1>5. CASE LoadNext
  BY <1>5 DEF LoadNext, keyVars, queue, history
<1>6. CASE Advance
  BY <1>6 DEF Advance, keyVars, history
<1>7. CASE TestSize
  BY <1>7 DEF TestSize, keyVars, queue, history
<1>8. CASE ClearLast
  BY <1>8 DEF ClearLast, keyVars, history
<1>9. CASE LoadSize
  BY <1>9 DEF LoadSize, keyVars, queue, history
<1>10. CASE StoreSize
  <2>1. SizeMod \in Nat /\ SizeMod > 0
    BY ConsoleAssumption, FS_CardinalityType
  <2>2. (loaded - 1) % SizeMod \in 0 .. SizeMod - 1
    BY <1>10, <2>1 DEF StoreSize
  <2> QED
    BY <1>10, <2>2 DEF StoreSize, keyVars, history
<1>11. CASE Deliver
  <2>1. owed' \in Seq(Chars)
    BY <1>11 DEF Deliver
  <2> QED
    BY <1>11, <2>1, CharsType DEF Deliver, keyVars
<1>12. CASE UNCHANGED vars
  BY <1>12 DEF vars, keyVars, queue, main, history
<1> QED
  BY <1>1, <1>2, <1>3, <1>4, <1>5, <1>6, <1>7, <1>8, <1>9, <1>10, <1>11, <1>12
     DEF Next, Main

-----------------------------------------------------------------------------
(* The queue                                                               *)

\* The list is no longer than there are blocks, so size does not overflow.
LEMMA ListFits ==
  ASSUME NEW len \in Nat, NEW list \in [1 .. len -> Nodes],
         \A i, j \in 1 .. len : list[i] = list[j] => i = j
  PROVE  len + 1 < SizeMod
<1>1. IsFiniteSet(1 .. len) /\ Cardinality(1 .. len) = len
  BY FS_Interval
<1>2. ~(len > Cardinality(Nodes))
  BY <1>1, ConsoleAssumption, FS_PigeonHole
<1> QED
  BY <1>2, ConsoleAssumption, FS_CardinalityType

\* A key outside the damaging places is appended to the list.
LEMMA KeyAppends ==
  ASSUME ConsoleTypeOK, LocalsOK, NEW len \in Nat, NEW list, QueueRight(list, len),
         NEW k \in Keys, Key(k), ~spoiled'
  PROVE  \E new \in [1 .. len + 1 -> Nodes] : QueueRight(new, len + 1)'
<1>1. ~spoiled /\ ~Damaging /\ UNCHANGED <<caps_lock, num_lock, pc, old, c, loaded>>
  BY DEF Key, keyVars, main, ConsoleTypeOK
<1>2. PICK elt \in Nodes \ allocated :
        /\ allocated' = allocated \cup {elt}
        /\ val' = [val EXCEPT ![elt] = Translate(k)]
        /\ next' = Behind(elt)
        /\ Linked(elt)
        /\ size' = (size + 1) % SizeMod
  BY <1>1 DEF Key, std_put, Mallocs
<1>3. owed' = Append(owed, Translate(k))
  BY <1>1 DEF Key
<1> DEFINE new == [i \in 1 .. len + 1 |-> IF i = len + 1 THEN elt ELSE list[i]]
<1>4. /\ list \in [1 .. len -> Nodes] /\ new \in [1 .. len + 1 -> Nodes]
      /\ \A i \in 1 .. len : new[i] = list[i] /\ list[i] # elt
      /\ new[len + 1] = elt
  BY <1>2 DEF QueueRight, Chained
<1>5. len > 0 => last = list[len]
  BY DEF QueueRight, EndRight
<1>6. len = 0 => first = NULL
  BY DEF QueueRight, Chained, StartsAtFirst, At
<1>7. len > 0 => first = list[1] /\ first # NULL
  BY <1>4, ConsoleAssumption DEF QueueRight, Chained, StartsAtFirst, At
<1>8. StartsAtFirst(new)'
  <2>1. first' = At(new, 1)
    BY <1>2, <1>4, <1>6, <1>7 DEF Linked, At
  <2>2. ASSUME NEW i \in 1 .. len + 1 PROVE next'[new[i]] = At(new, i + 1)
    <3>1. CASE i = len + 1
      <4>1. last # elt
        BY <1>2, <1>4, <1>5, ConsoleAssumption DEF QueueRight, EndRight, MainRight, Late
      <4>2. next'[elt] = NULL
        BY <1>2, <4>1 DEF Behind, ConsoleTypeOK
      <4> QED
        BY <3>1, <4>2, <1>4 DEF At
    <3>2. CASE i = len
      <4>1. last = list[len] /\ last \in Nodes /\ last # NULL
        BY <1>4, <1>5, <3>2, ConsoleAssumption
      <4>2. next'[list[len]] = elt
        BY <1>2, <4>1 DEF Behind, ConsoleTypeOK
      <4> QED
        BY <3>2, <4>2, <1>4 DEF At
    <3>3. CASE i < len
      <4>1. i \in 1 .. len /\ i + 1 \in 1 .. len /\ len \in 1 .. len
        BY <3>3
      <4>2. list[i] # last /\ list[i] # elt /\ list[i] \in Nodes
        BY <4>1, <3>3, <1>4, <1>5 DEF QueueRight, Chained
      <4>3. next'[list[i]] = next[list[i]]
        BY <1>2, <4>2 DEF Behind, ConsoleTypeOK
      <4>4. next[list[i]] = list[i + 1]
        BY <4>1, <1>4 DEF QueueRight, Chained, StartsAtFirst, At
      <4> QED
        BY <4>1, <4>3, <4>4, <1>4 DEF At
    <3> QED
      BY <3>1, <3>2, <3>3
  <2> QED
    BY <2>1, <2>2, <1>4 DEF StartsAtFirst, At
<1>9. Chained(new, len + 1)'
  <2>1. \A i, j \in 1 .. len + 1 : new[i] = new[j] => i = j
    BY <1>4 DEF QueueRight, Chained
  <2>2. \A i \in 1 .. len + 1 : new[i] \in allocated'
    BY <1>2, <1>4 DEF QueueRight, Chained
  <2> QED
    BY <1>4, <1>8, <2>1, <2>2 DEF Chained
<1>10. Carries(new, len + 1)'
  <2>1. Off' = Off /\ Off \in {0, 1} /\ Late' = Late /\ (Late => Off = 1) /\ (~Late => Off = 0)
    BY <1>1 DEF Off, Late
  <2>2. owed \in Seq(Chars) /\ Len(owed) = len + Off /\ Translate(k) \in Chars
    BY TranslateType DEF QueueRight, Carries, ConsoleTypeOK
  <2>3. /\ Len(owed') = len + 1 + Off
        /\ owed'[len + 1 + Off] = Translate(k)
        /\ \A j \in 1 .. len + Off : owed'[j] = owed[j]
    BY <2>1, <2>2, <1>3
  <2>4. val'[elt] = Translate(k) /\ \A i \in 1 .. len : val'[list[i]] = val[list[i]]
    BY <1>2, <1>4 DEF ConsoleTypeOK
  <2>5. \A i \in 1 .. len + 1 : val'[new[i]] = owed'[i + Off]
    <3>1. \A i \in 1 .. len : val'[new[i]] = owed'[i + Off]
      BY <2>1, <2>3, <2>4, <1>4 DEF QueueRight, Carries
    <3> QED
      BY <3>1, <2>3, <2>4, <1>4
  <2>6. Late => owed'[1] = c
    BY <2>1, <2>3 DEF QueueRight, Carries
  <2> QED
    BY <2>1, <2>3, <2>5, <2>6, <1>1 DEF Carries
<1>11. EndRight(new, len + 1)'
  <2>1. last' = elt /\ new[len + 1] = elt
    BY <1>2, <1>4 DEF Linked
  <2>2. Off' = Off /\ Off \in {0, 1}
    BY <1>1 DEF Off, Late
  <2>3. size \in Nat /\ size + 1 < SizeMod
    <3>1. \A i, j \in 1 .. len + 1 : new[i] = new[j] => i = j
      BY <1>4 DEF QueueRight, Chained
    <3>2. len + 2 < SizeMod
      BY <3>1, <1>4, ListFits
    <3>3. size = len \/ size = len + 1
      BY <2>2 DEF QueueRight, EndRight
    <3> QED
      BY <3>2, <3>3, ConsoleAssumption
  <2>4. size' = size + 1
    BY <1>2, <2>3, ConsoleAssumption
  <2>5. pc' # "clear"
    BY <1>1 DEF Damaging
  <2> QED
    BY <2>1, <2>2, <2>4, <2>5, <1>1 DEF QueueRight, EndRight
<1>12. MainRight(new, len + 1)'
  <2>1. pc = "advance" => loaded = At(new, 2)
    <3>1. pc = "advance" => loaded # NULL /\ loaded = At(list, 2)
      BY <1>1 DEF Damaging, QueueRight, MainRight
    <3> QED
      BY <3>1, <1>4 DEF At
  <2>2. pc # "store"
    BY <1>1 DEF Damaging
  <2>3. Late => old \in allocated' /\ \A i \in 1 .. len + 1 : new[i] # old
    BY <1>2, <1>4 DEF QueueRight, MainRight
  <2>4. pc \in {"next", "advance"} => len > 0 /\ old = new[1] /\ c = owed'[1]
    BY <1>4, <1>3, TranslateType DEF QueueRight, MainRight, Carries, ConsoleTypeOK, Late, Off
  <2> QED
    BY <2>1, <2>2, <2>3, <2>4, <1>1 DEF QueueRight, MainRight, Late, At
<1> QED
  BY <1>4, <1>9, <1>10, <1>11, <1>12 DEF QueueRight

\* The steps of main.
LEMMA MainKeeps ==
  ASSUME ConsoleTypeOK, LocalsOK, NEW len \in Nat, NEW list, QueueRight(list, len),
         ~spoiled, Main
  PROVE  \E len2 \in Nat : \E list2 \in [1 .. len2 -> Nodes] : QueueRight(list2, len2)'
<1>1. /\ list \in [1 .. len -> Nodes]
      /\ Len(owed) = len + Off
      /\ owed \in Seq(Chars)
  BY DEF QueueRight, Chained, Carries, ConsoleTypeOK
<1> DEFINE Unchanged == UNCHANGED <<first, last, size, next, val, allocated, owed>>
<1>2. CASE ReadLine
  <2>1. Unchanged /\ UNCHANGED <<old, c, loaded>> /\ pc = "command" /\ pc' = "poll"
    BY <1>2 DEF ReadLine, queue, history
  <2>2. QueueRight(list, len)'
    BY <2>1 DEF QueueRight, Chained, StartsAtFirst, At, Carries, EndRight, MainRight, Late, Off
  <2> QED
    BY <1>1, <2>2
<1>3. CASE Take
  <2>1. /\ Unchanged /\ UNCHANGED loaded
        /\ pc = "poll" /\ pc' = "next"
        /\ first # NULL /\ old' = first /\ c' = val[first]
    BY <1>3 DEF Take, queue, history
  <2>2. len > 0 /\ first = list[1]
    BY <1>1, <2>1 DEF QueueRight, Chained, StartsAtFirst, At
  <2>3. c' = owed[1]
    BY <2>1, <2>2 DEF QueueRight, Carries, Late, Off
  <2>4. QueueRight(list, len)'
    BY <2>1, <2>2, <2>3
       DEF QueueRight, Chained, StartsAtFirst, At, Carries, EndRight, MainRight, Late, Off
  <2> QED
    BY <1>1, <2>4
<1>4. CASE LoadNext
  <2>1. /\ Unchanged /\ UNCHANGED <<old, c>>
        /\ pc = "next" /\ pc' = "advance" /\ loaded' = next[old]
    BY <1>4 DEF LoadNext, queue, history
  <2>2. len > 0 /\ old = list[1] /\ next[old] = At(list, 2)
    BY <1>1, <2>1 DEF QueueRight, Chained, StartsAtFirst, MainRight
  <2>3. QueueRight(list, len)'
    BY <2>1, <2>2
       DEF QueueRight, Chained, StartsAtFirst, At, Carries, EndRight, MainRight, Late, Off
  <2> QED
    BY <1>1, <2>3
<1>5. CASE Advance
  <2>1. /\ UNCHANGED <<last, size, next, val, allocated, owed, old, c>>
        /\ pc = "advance" /\ pc' = "test" /\ first' = loaded
    BY <1>5 DEF Advance, history
  <2>2. len > 0 /\ old = list[1] /\ loaded = At(list, 2) /\ c = owed[1]
    BY <2>1 DEF QueueRight, MainRight
  <2> DEFINE rest == [i \in 1 .. len - 1 |-> list[i + 1]]
  <2>3. /\ len - 1 \in Nat /\ rest \in [1 .. len - 1 -> Nodes]
        /\ \A i \in 1 .. len - 1 : rest[i] = list[i + 1]
    BY <1>1, <2>2
  <2>4. \A i \in 1 .. len : next[list[i]] = At(list, i + 1)
    BY <1>1 DEF QueueRight, Chained, StartsAtFirst
  <2>5. \A i \in 1 .. len - 1 : At(rest, i) = At(list, i + 1)
    BY <2>3, <1>1 DEF At
  <2>6. At(rest, len) = At(list, len + 1)
    BY <2>3, <1>1 DEF At
  <2>7. \A i \in 1 .. len - 1 : next[rest[i]] = At(rest, i + 1)
    <3>1. ASSUME NEW i \in 1 .. len - 1 PROVE next[rest[i]] = At(rest, i + 1)
      <4>1. next[rest[i]] = At(list, i + 2)
        BY <2>3, <2>4
      <4>2. At(rest, i + 1) = At(list, i + 2)
        BY <1>1, <2>2, <2>3 DEF At
      <4> QED
        BY <4>1, <4>2
    <3> QED
      BY <3>1
  <2>8. loaded = At(rest, 1)
    BY <1>1, <2>2, <2>3 DEF At
  <2>9. Chained(rest, len - 1)'
    BY <1>1, <2>1, <2>3, <2>7, <2>8 DEF QueueRight, Chained, StartsAtFirst
  <2>10. Carries(rest, len - 1)'
    BY <2>1, <2>2, <2>3 DEF QueueRight, Carries, Late, Off
  <2>11. EndRight(rest, len - 1)'
    BY <1>1, <2>1, <2>2, <2>3 DEF QueueRight, EndRight, Late, Off
  <2>12. MainRight(rest, len - 1)'
    BY <1>1, <2>1, <2>2, <2>3 DEF QueueRight, Chained, MainRight, Late
  <2> QED
    BY <2>3, <2>9, <2>10, <2>11, <2>12 DEF QueueRight
<1>6. CASE TestSize
  <2>1. /\ Unchanged /\ UNCHANGED <<old, c, loaded>>
        /\ pc = "test" /\ pc' = IF size = 1 THEN "clear" ELSE "load"
    BY <1>6 DEF TestSize, queue, history
  <2>2. size = len + 1
    BY <2>1 DEF QueueRight, EndRight, Late, Off
  <2>3. QueueRight(list, len)'
    BY <2>1, <2>2
       DEF QueueRight, Chained, StartsAtFirst, At, Carries, EndRight, MainRight, Late, Off
  <2> QED
    BY <1>1, <2>3
<1>7. CASE ClearLast
  <2>1. /\ UNCHANGED <<first, size, next, val, allocated, owed, old, c, loaded>>
        /\ pc = "clear" /\ pc' = "load" /\ last' = NULL
    BY <1>7 DEF ClearLast, history
  <2>2. QueueRight(list, len)'
    BY <2>1 DEF QueueRight, Chained, StartsAtFirst, At, Carries, EndRight, MainRight, Late, Off
  <2> QED
    BY <1>1, <2>2
<1>8. CASE LoadSize
  <2>1. /\ Unchanged /\ UNCHANGED <<old, c>>
        /\ pc = "load" /\ pc' = "store" /\ loaded' = size
    BY <1>8 DEF LoadSize, queue, history
  <2>2. size = len + 1
    BY <2>1 DEF QueueRight, EndRight, Late, Off
  <2>3. QueueRight(list, len)'
    BY <2>1, <2>2
       DEF QueueRight, Chained, StartsAtFirst, At, Carries, EndRight, MainRight, Late, Off
  <2> QED
    BY <1>1, <2>3
<1>9. CASE StoreSize
  <2>1. /\ UNCHANGED <<first, last, next, val, allocated, owed, old, c>>
        /\ pc = "store" /\ pc' = "free" /\ size' = (loaded - 1) % SizeMod
    BY <1>9 DEF StoreSize, history
  <2>2. loaded = len + 1
    BY <2>1 DEF QueueRight, MainRight
  <2>3. len < SizeMod
    BY <1>1, ListFits, ConsoleAssumption DEF QueueRight, Chained
  <2>4. size' = len
    BY <2>1, <2>2, <2>3, ConsoleAssumption
  <2>5. QueueRight(list, len)'
    BY <2>1, <2>4
       DEF QueueRight, Chained, StartsAtFirst, At, Carries, EndRight, MainRight, Late, Off
  <2> QED
    BY <1>1, <2>5
<1>10. CASE Deliver
  <2>1. /\ UNCHANGED <<first, last, size, next, val>>
        /\ pc = "free" /\ pc' \in {"command", "poll"}
        /\ allocated' = allocated \ {old} /\ old' = NULL
        /\ owed' = IF owed = << >> THEN owed ELSE Tail(owed)
    BY <1>10 DEF Deliver
  <2>2. Len(owed) = len + 1 /\ owed' = Tail(owed)
    BY <1>1, <2>1 DEF Late, Off
  <2>3. Len(owed') = len /\ \A i \in 1 .. len : owed'[i] = owed[i + 1]
    BY <1>1, <2>2
  <2>4. \A i \in 1 .. len : list[i] # old
    BY <2>1 DEF QueueRight, MainRight, Late
  <2>5. Chained(list, len)'
    BY <2>1, <2>4 DEF QueueRight, Chained, StartsAtFirst, At
  <2>6. Carries(list, len)'
    BY <2>1, <2>3 DEF QueueRight, Carries, Late, Off
  <2>7. EndRight(list, len)' /\ MainRight(list, len)'
    BY <2>1 DEF QueueRight, EndRight, MainRight, Late, Off
  <2> QED
    BY <1>1, <2>5, <2>6, <2>7 DEF QueueRight
<1> QED
  BY <1>2, <1>3, <1>4, <1>5, <1>6, <1>7, <1>8, <1>9, <1>10 DEF Main

\* Every step keeps the invariant.
LEMMA StepIInv == IInv /\ [Next]_vars => IInv'
<1> SUFFICES ASSUME IInv, [Next]_vars PROVE IInv'
  OBVIOUS
<1> DEFINE Good == \E len \in Nat : \E list \in [1 .. len -> Nodes] : QueueRight(list, len)
<1>1. ConsoleTypeOK' /\ LocalsOK'
  BY StepTypes DEF IInv
<1> SUFFICES ASSUME ~spoiled' PROVE Good'
  BY <1>1 DEF IInv
<1>2. ~spoiled
  BY DEF IInv, ConsoleTypeOK, Next, Main, Key, CapsLock, NumLock, ReadLine, Take, LoadNext,
         Advance, TestSize, ClearLast, LoadSize, StoreSize, Deliver, history, vars
<1>3. PICK len \in Nat : \E list \in [1 .. len -> Nodes] : QueueRight(list, len)
  BY <1>2 DEF IInv
<1>4. PICK list \in [1 .. len -> Nodes] : QueueRight(list, len)
  BY <1>3
<1>5. CASE \E k \in Keys : Key(k)
  <2>1. \E new \in [1 .. len + 1 -> Nodes] : QueueRight(new, len + 1)'
    BY <1>4, <1>5, KeyAppends DEF IInv
  <2>2. len + 1 \in Nat
    OBVIOUS
  <2> QED
    BY <2>1, <2>2
<1>6. CASE Main
  BY <1>2, <1>4, <1>6, MainKeeps DEF IInv
<1>7. CASE CapsLock \/ NumLock \/ UNCHANGED vars
  <2>1. UNCHANGED <<queue, main, history>>
    BY <1>7 DEF CapsLock, NumLock, vars
  <2>2. QueueRight(list, len)'
    BY <2>1, <1>4 DEF queue, main, history, QueueRight, Chained, StartsAtFirst, At, Carries,
                      EndRight, MainRight, Late, Off
  <2> QED
    BY <2>2
<1> QED
  BY <1>5, <1>6, <1>7 DEF Next

-----------------------------------------------------------------------------
(* The theorems                                                            *)

\* So it holds always.
LEMMA Inductive == Spec => []IInv
BY InitIInv, StepIInv, PTL DEF Spec

\* The pointers, the size and main's locals keep their types whatever keys
\* interrupt, even when the list is damaged.
THEOREM ConsoleTypes == Spec => []ConsoleTypeOK
<1>1. IInv => ConsoleTypeOK
  BY DEF IInv
<1> QED
  BY <1>1, Inductive, PTL

\* However many keys come, and wherever in the reading loop, std_get finds
\* the list that was typed, unless one came in a damaging place.
THEOREM QueueIsRight == Spec => []QueueIsWhatWasTyped
<1>1. IInv => QueueIsWhatWasTyped
  <2> SUFFICES ASSUME IInv, pc \in {"command", "poll"}, ~spoiled
               PROVE  \E list \in [1 .. Len(owed) -> Nodes] :
                        /\ StartsAtFirst(list)
                        /\ \A k \in 1 .. Len(owed) : val[list[k]] = owed[k]
                        /\ last = At(list, Len(owed))
                        /\ size = Len(owed)
    BY DEF QueueIsWhatWasTyped
  <2>1. PICK len \in Nat : \E list \in [1 .. len -> Nodes] : QueueRight(list, len)
    BY DEF IInv
  <2>2. PICK list \in [1 .. len -> Nodes] : QueueRight(list, len)
    BY <2>1
  <2>3. ~Late /\ Off = 0 /\ Len(owed) = len
    BY <2>2 DEF QueueRight, Carries, Late, Off
  <2>4. last = At(list, len)
    BY <2>2 DEF QueueRight, EndRight, At
  <2>5. StartsAtFirst(list) /\ size = len /\ \A k \in 1 .. len : val[list[k]] = owed[k]
    BY <2>2, <2>3 DEF QueueRight, Chained, Carries, EndRight
  <2> QED
    BY <2>2, <2>3, <2>4, <2>5
<1> QED
  BY <1>1, Inductive, PTL

\* Nothing the interrupt or std_get follows or writes through has been freed.
THEOREM OnlyOwnedMemory == Spec => []NoUseAfterFree
<1>1. IInv => NoUseAfterFree
  <2> SUFFICES ASSUME IInv, ~spoiled
               PROVE  /\ {old, last} \subseteq allocated \cup {NULL}
                      /\ \E reached \in SUBSET allocated :
                           {first} \cup {next[n] : n \in reached} \subseteq reached \cup {NULL}
    BY DEF NoUseAfterFree
  <2>1. PICK len \in Nat : \E list \in [1 .. len -> Nodes] : QueueRight(list, len)
    BY DEF IInv
  <2>2. PICK list \in [1 .. len -> Nodes] : QueueRight(list, len)
    BY <2>1
  <2>3. /\ \A i \in 1 .. len : list[i] \in allocated
        /\ first = At(list, 1)
        /\ \A i \in 1 .. len : next[list[i]] = At(list, i + 1)
    BY <2>2 DEF QueueRight, Chained, StartsAtFirst
  <2>4. old \in allocated \cup {NULL}
    BY <2>2, <2>3 DEF QueueRight, MainRight, Late, IInv, ConsoleTypeOK
  <2>5. last \in allocated \cup {NULL}
    BY <2>2, <2>3, <2>4 DEF QueueRight, EndRight
  <2> DEFINE reached == {list[i] : i \in 1 .. len}
  <2>6. reached \in SUBSET allocated
    BY <2>3
  <2>7. \A i \in 1 .. len + 1 : At(list, i) \in reached \cup {NULL}
    BY DEF At
  <2>8. {first} \cup {next[n] : n \in reached} \subseteq reached \cup {NULL}
    BY <2>3, <2>7
  <2> QED
    BY <2>4, <2>5, <2>6, <2>8
<1> QED
  BY <1>1, Inductive, PTL

\* What std_get hands to read_line is the character typed first of those that
\* have not been read.
THEOREM InOrder == Spec => []DeliveredInOrder
<1>1. IInv => DeliveredInOrder
  <2> SUFFICES ASSUME IInv, pc = "free", ~spoiled PROVE owed # << >> /\ c = Head(owed)
    BY DEF DeliveredInOrder
  <2>1. PICK len \in Nat : \E list \in [1 .. len -> Nodes] : QueueRight(list, len)
    BY DEF IInv
  <2>2. Len(owed) = len + 1 /\ owed[1] = c /\ owed \in Seq(Chars)
    BY <2>1 DEF QueueRight, Carries, Late, Off, IInv, ConsoleTypeOK
  <2> QED
    BY <2>2
<1> QED
  BY <1>1, Inductive, PTL
=============================================================================
